-------------------------------- MODULE MCStream --------------------------------
(***************************************************************************)
(* Every response of up to two frames with one tool call, and a few longer *)
(* ones in which calls interleave, are opened again, are left open, or     *)
(* follow the end.                                                         *)
(***************************************************************************)
EXTENDS Stream

F(kind) == [kind |-> kind, call |-> 0]
C(kind, i) == [kind |-> kind, call |-> i]

Frames ==
    {F(k) : k \in {"text", "usage", "end", "error"}}
        \cup {C(k, 1) : k \in {"open", "frag", "stop"}}

Longer ==
    { <<F("text"), C("open", 1), C("frag", 1), C("frag", 1), C("stop", 1), F("end")>>,
      <<C("open", 2), C("frag", 2), C("open", 1), C("frag", 1), C("stop", 1),
        C("frag", 2), C("stop", 2), F("usage")>>,
      <<C("open", 1), C("frag", 1), C("open", 1), C("frag", 1), C("stop", 1),
        C("stop", 1), F("error")>>,
      <<C("frag", 2), F("text"), C("frag", 1), C("frag", 2), F("usage"), F("end")>>,
      <<F("text"), F("error"), F("text"), F("end")>> }

MCResponses == UNION {[1..n -> Frames] : n \in 0..2} \cup Longer
===============================================================================
