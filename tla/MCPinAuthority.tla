---------------------------- MODULE MCPinAuthority ----------------------------
(* Instances of PinAuthority for TLC. *)
EXTENDS PinAuthority, FiniteSets

CONSTANTS
    short, long, other,   \* PINs: one of the minimum length, two longer
    MaxImages             \* bound: contents power loss may leave at one time

MCPinLength == [p \in Pins |-> IF p = short THEN 4 ELSE 6]

\* A state with more unconfirmed writes is checked but not continued.
FewImages == Cardinality(images) <= MaxImages
=============================================================================
