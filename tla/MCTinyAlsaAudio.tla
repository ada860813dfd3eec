-------------------------- MODULE MCTinyAlsaAudio --------------------------
(* Capture nodes for the run of TinyAlsaAudio: one whose device has two       *)
(* digits, and one whose card has.                                            *)
EXTENDS TinyAlsaAudio

Node(card, device) == [card |-> card, device |-> device]

TwoCards == {Node(1, 10), Node(10, 0)}
=============================================================================
