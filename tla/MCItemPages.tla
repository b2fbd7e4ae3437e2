---------------------------- MODULE MCItemPages ----------------------------
(* The items of the service, and seven items in two categories, one of     *)
(* whose ids contains a colon.  The limits divide the lists evenly or not, *)
(* or are longer than them; the cursors have every wrong form, and some    *)
(* are good ones that Encode would spell otherwise.                        *)
EXTENDS ItemPages

SmallCatalogue ==
    << Item("1", "tools"), Item("2", "power"), Item("3", "tools"),
       [id |-> <<"4", "x">>, category |-> "tools"],
       Item("5", "tools"), Item("6", "power"), Item("7", "tools") >>

BothCatalogues == {SmallCatalogue, MockItems}
SomeLimits == {1, 2, 3, 4, 8, 15, 100}
SomeCategories == {"any", "tools", "power", "electronics", "robotics"}

Texts ==
    { <<"item">>, <<"user", "3">>, <<"item", "9">>, <<"item", "2">>,
      <<"item", "013">>, <<"item", "4", "x">>, <<"item", "">> }

\* Every text in both spellings, a line break alone and what is not base64.
SomeForged ==
    [plain : BOOLEAN, base64 : {TRUE}, text : Texts] \union
    { [plain |-> FALSE, base64 |-> TRUE, text |-> <<>>],
      [plain |-> FALSE, base64 |-> FALSE, text |-> <<>>] }
=============================================================================
