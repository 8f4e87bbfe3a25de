------------------------------- MODULE MemoryMC -------------------------------
(***************************************************************************)
(* A small memory for TLC: segments of a word or two, in the order of      *)
(* mem_image.h, bytes of two bits, and accesses at the ends of every       *)
(* segment and in the gap that the stack grows into.                       *)
(***************************************************************************)
EXTENDS Memory

MCAddrs ==
  {18, 20}                           \* text, and just above
    \cup {32, 33, 36}                \* data, and what sbrk adds
    \cup {43, 48}                    \* below the stack: too far down, and near enough
    \cup {62}                        \* stack
    \cup {80, 97, 104}               \* kernel data, special segment, devices

\* Bytes 1 2 0 0: both the half and its upper byte have the sign bit set.
MCValues == {9}
====
