----------------------------- MODULE MCDataPath -----------------------------
(* DataPath on a small instance: sample rates are so low that a frame has one, *)
(* two or three samples, one rate is too low for any, and the highest one may  *)
(* be too high for pipeline().                                                 *)
EXTENDS DataPath

MCRates == {49, 50, 100, 150}
MCAmplitudes == {-5, 3}

OptionalKeys == {"language", "generation_config", "pronunciation_dict_id"}

Kind ==
  [f \in Fields |->
    CASE f \in {"voice", "output_format", "generation_config"} -> "object"
      [] f \in {"continue", "add_timestamps", "use_original_timestamps"} -> "true"
      [] f = "sample_rate" -> "positive"
      [] f = "cancel" -> "missing"
      [] OTHER -> "string"]

Json(kind, rate) == [json |-> "object", kind |-> kind, rate |-> rate]

Full == Json(Kind, 100)
Bare == Json([f \in Fields |-> IF f \in OptionalKeys THEN "missing" ELSE Kind[f]], 100)
Flush == Json([Kind EXCEPT !["transcript"] = "empty string", !["continue"] = "false"], 100)
CancelJson == Json([f \in Fields |-> CASE f = "cancel" -> "true"
                                  [] f = "context_id" -> "string"
                                  [] OTHER -> "missing"], 100)

MCDocumented ==
  {[f EXCEPT !.rate = r] : f \in {Full, Bare, Flush}, r \in MCRates} \cup {CancelJson}

\* All of these, the full one and a cancel with any one field wrong, and what is
\* no JSON object.
MCInputs ==
  MCDocumented
    \cup {[Full EXCEPT !.kind[field] = k] : field \in Fields, k \in Kinds}
    \cup {[CancelJson EXCEPT !.kind[field] = k] : field \in {"cancel", "context_id"}, k \in Kinds}
    \cup {[Full EXCEPT !.json = j] : j \in {"other", "invalid"}}
=============================================================================
