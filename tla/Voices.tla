------------------------------- MODULE Voices -------------------------------
(***************************************************************************)
(* voices.py: the catalogue of voice styles in supertonic's cache          *)
(* directory.  A file name such as F1.json is a gender and a number, in    *)
(* one of the spellings the regular expression accepts: 0 is the one that  *)
(* str(int) writes; others have leading zeros, decimal digits of another   *)
(* script, or a line break at the end.  A directory entry has such a name, *)
(* or is something else.                                                   *)
(***************************************************************************)
EXTENDS Integers

VoiceName == [gender : {"F", "M"}, num : Nat, spelling : Nat]
DirEntry == [kind : {"file", "directory", "other"}, name : VoiceName]

Named(gender, num, spelling) == [gender |-> gender, num |-> num, spelling |-> spelling]
Entry(kind, name) == [kind |-> kind, name |-> name]

\* A regular file with a name of that form.
IsVoiceFile(entry) == entry.kind = "file"

\* int() reads every spelling of a number, and the name has the plain one.
VoiceOf(entry) == [name |-> [entry.name EXCEPT !.spelling = 0], path |-> entry]

Before(v, w) ==
  \/ v.name.gender = "F" /\ w.name.gender = "M"
  \/ v.name.gender = w.name.gender /\ v.name.num < w.name.num

\* list_voices() returns these, sorted by Before; of voices with the same name any
\* may come first, for the directory is read in any order.
ListVoices(dir) == {VoiceOf(entry) : entry \in {e \in dir : IsVoiceFile(e)}}

FirstVoices(dir) ==
  {v \in ListVoices(dir) : \A w \in ListVoices(dir) : ~Before(w, v)}

\* get_voice() finds the name in the catalogue; otherwise it raises KeyError.
Names(dir) == {v.name : v \in ListVoices(dir)}

HasVoice(dir, name) == name \in Names(dir)

\* supertonic itself opens the file whose name is exactly what it is given.
HasStyleFile(dir, name) == Entry("file", name) \in dir
=============================================================================
