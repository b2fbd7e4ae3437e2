-------------------------- MODULE MCActivityPages --------------------------
(* A feed of up to six events, read in pages of one to seven; the cursor   *)
(* of one event has just room, that of another is one byte too long.       *)
EXTENDS ActivityPages

SomeLimits == {1, 2, 3, 7}
SomeLengths == <<4, 12, 1525, 1524, 8, 40>>

Texts ==
    { <<"gh-activity">>, <<"gh-activity", "">>, <<"gh-activity", "v9">>,
      <<"item", "007">>, Own(2).text, Own(3).text }

\* Every text in both spellings, a line break alone and what is not base64.
SomeForged ==
    [plain : BOOLEAN, base64 : {TRUE}, text : Texts] \union
    { [plain |-> FALSE, base64 |-> TRUE, text |-> <<>>],
      [plain |-> FALSE, base64 |-> FALSE, text |-> <<>>] }
=============================================================================
