------------------------------ MODULE MCUvLoop -------------------------------
(***************************************************************************)
(* Two watchers, which are alike, and two descriptors: 3, for which        *)
(* watchers gets room for 6, and 6, the first for which that is not enough.*)
(***************************************************************************)
EXTENDS UvMemory, TLC
LOCAL INSTANCE Bitwise
Symmetry == Permutations(Watcher)

\* next_power_of_two, one shift after the other, for numbers below 2^31.
Smeared(val) ==
    LET smear(v, n) == v | shiftR(v, n)
    IN  smear(smear(smear(smear(smear(val - 1, 1), 2), 4), 8), 16) + 1

\* The shifts find the least power of two that is not smaller.
ASSUME ShiftsFindPower ==
    \A val \in 1..300 \cup UNION {(Power[n] - 1)..(Power[n] + 1) : n \in 4..29} \cup {Power[30]} :
        Smeared(val) = next_power_of_two(val)
=============================================================================
