-------------------------------- MODULE Wire --------------------------------
(***************************************************************************)
(* wire.py: decode(), which turns a client's WebSocket frame into a text   *)
(* message, a cancel or a ParseError.  Of a JSON value only its kind       *)
(* matters: decode() asks for types, for emptiness and for the sign of the *)
(* sample rate.                                                            *)
(***************************************************************************)
EXTENDS Integers, Sequences, FiniteSetsExt

Strings == {"string", "empty string"}
Booleans == {"true", "false"}
Ints == {"positive", "zero", "negative"} \cup Booleans   \* a bool is an int in Python
Absent == {"missing", "null"}                            \* what get() returns None for
Kinds == Strings \cup Ints \cup Absent \cup {"float", "list", "object"}

Fields == {"cancel", "context_id", "transcript", "continue", "voice", "voice.mode",
           "voice.id", "output_format", "container", "encoding", "sample_rate",
           "model_id", "language", "add_timestamps", "use_original_timestamps",
           "generation_config", "pronunciation_dict_id"}

\* A frame: whether it is JSON and an object, the kinds of its fields, and the
\* sample rate if that is a positive number.
WireFrame(Rates) == [json : {"object", "other", "invalid"}, kind : [Fields -> Kinds], rate : Rates]

\* isinstance(sr, int), not a bool, positive; the mutant forgets the sign.
AnyInt == Ints \ Booleans

PositiveInt == Ints \ (Booleans \cup {"zero", "negative"})

\* What an optional field may be; the mutant wants it to be there.
Demanded(kinds) == kinds \cup {"null"}

Optional(kinds) == kinds \cup Absent

\* The tests of _decode_text() in their order.
Tests == <<
  <<"context_id", {"string"}>>,
  <<"transcript", Strings>>,
  <<"continue", Booleans>>,
  <<"voice", {"object"}>>,
  <<"voice.mode", Strings>>,
  <<"voice.id", Strings>>,
  <<"output_format", {"object"}>>,
  <<"container", Strings>>,
  <<"encoding", Strings>>,
  <<"sample_rate", PositiveInt>>,
  <<"model_id", Optional(Strings)>>,
  <<"language", Optional(Strings)>>,
  <<"add_timestamps", Booleans \cup {"missing"}>>,          \* get(key, False)
  <<"use_original_timestamps", Booleans \cup {"missing"}>>,
  <<"generation_config", Optional({"object"})>>,
  <<"pronunciation_dict_id", Optional(Strings)>> >>

ParseError(reason) == [type |-> "error", reason |-> reason]

\* The number a sample rate that passes the tests stands for.
RateOf(f) ==
  CASE f.kind["sample_rate"] = "positive" -> f.rate
    [] f.kind["sample_rate"] = "negative" -> -1
    [] OTHER -> 0

DecodeText(f) ==
  LET failing == {i \in DOMAIN Tests : f.kind[Tests[i][1]] \notin Tests[i][2]}
  IN  IF failing # {} THEN ParseError(Tests[Min(failing)][1])
      ELSE [type |-> "text", rate |-> RateOf(f),
            flush |-> f.kind["transcript"] = "empty string" /\ f.kind["continue"] = "false"]

Decode(f) ==
  CASE f.json # "object" -> ParseError(f.json)
    [] f.json = "object" /\ f.kind["cancel"] = "true" ->
         IF f.kind["context_id"] = "string" THEN [type |-> "cancel"]
         ELSE ParseError("context_id")
    [] OTHER -> DecodeText(f)
=============================================================================
