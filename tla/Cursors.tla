------------------------------ MODULE Cursors ------------------------------
(***************************************************************************)
(* The cursors of internal/platform/pagination.  A cursor on the wire is   *)
(* base64 of "type:value".  Text is kept as the sequence of its parts      *)
(* between colons: "item:" is <<"item", "">>.                              *)
(*                                                                         *)
(* RawURLEncoding is not strict: it skips line breaks and does not look at *)
(* the bits left over in the last character.  A cursor is plain when it is *)
(* spelled as EncodeToString spells its text, and others decode like it; a *)
(* line break alone is a cursor of no text, and not the empty string.      *)
(***************************************************************************)
EXTENDS Sequences, Integers

NoCursor == [plain |-> TRUE, base64 |-> TRUE, text |-> <<>>]
Encode(type, value) ==
    [plain |-> TRUE, base64 |-> TRUE, text |-> <<type>> \o value]

NoValue == <<"">>

\* Bug: the text is cut at every colon.
MutantDecodes(c) == c = NoCursor \/ (c.base64 /\ Len(c.text) = 2)

\* DecodeCursor: no cursor is the zero cursor, any other needs one colon.
Decodes(c) == c = NoCursor \/ (c.base64 /\ Len(c.text) >= 2)
DecodeCursor(c) ==
    IF c = NoCursor THEN [type |-> "", value |-> NoValue]
    ELSE [type |-> Head(c.text), value |-> Tail(c.text)]

\* What a list handler checks before it uses a cursor.
Accepts(c, type) ==
    Decodes(c) /\ (c # NoCursor => DecodeCursor(c).type = type)
=============================================================================
