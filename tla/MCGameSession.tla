--------------------------- MODULE MCGameSession ---------------------------
(* GameSession for TLC: small decks in place of the double-six deck.       *)
EXTENDS GameSession, TLC

Symmetry == Permutations(Node)

\* Shuffles of the three tiles of a double-one deck: the first player can
\* open with a tile the second can answer, or with one it cannot.
DoubleOneDecks ==
    {<< <<0, 1>>, <<1, 1>>, <<0, 0>> >>, << <<0, 0>>, <<1, 1>>, <<0, 1>> >>}

\* What a payload may say of its tile: only its id, so that value_left and
\* value_right are zero, or any pips of the deck, in any order.
OnlyTheId == {<<0, 0>>}
AnyPips   == Pip \X Pip

=============================================================================
