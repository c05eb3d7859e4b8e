---------------------------- MODULE MCMessageSend ----------------------------
(* An instance of MessageSend: the second frame repeats the message of the  *)
(* first, or has its name under another text, or is another message.  What  *)
(* the first frame carries is fixed, since messages, texts and frames can   *)
(* be exchanged for each other.                                             *)
EXTENDS MessageSend

CONSTANTS m1, m2, f1, f2

MCSends ==
    [f \in Frames |-> IF f = f1 THEN {<<m1, "hello">>}
                      ELSE {<<m1, "hello">>, <<m1, "bye">>, <<m2, "hello">>}]
=============================================================================
