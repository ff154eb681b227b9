---------------------------- MODULE MCRepository ----------------------------
(* Two requests for two folders. For root the system may answer with one    *)
(* entry, with another, with one path in two spellings, or not at all; for  *)
(* sub with two entries of which one has no name, or with text that is no   *)
(* XML.                                                                     *)
EXTENDS Repository

CONSTANTS upper, lower, other, root, sub

OnePath == [n \in Names |-> IF n = upper THEN lower ELSE n]

Reply(form, entries) == [form |-> form, entries |-> entries]

AllAnswers ==
    [f \in Folders |->
        IF f = root
        THEN {Reply("xml", <<lower>>), Reply("xml", <<other>>), Reply("xml", <<lower, upper>>),
              Reply("error", <<>>)}
        ELSE {Reply("xml", <<Nameless, other>>), Reply("broken", <<>>)}]
=============================================================================
