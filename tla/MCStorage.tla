----------------------------- MODULE MCStorage -------------------------------
(***************************************************************************)
(* What one device keeps, seals and starts, and what its native side calls *)
(* of it; a behaviour is about one of these five parts.                    *)
(*                                                                         *)
(* "storage": two tasks, two identities of one phone, two secrets and      *)
(* three salts, enough for a salt to be lost by a failing read and again   *)
(* by a race.                                                              *)
(*                                                                         *)
(* "packets": one item of any kind between two devices, one of them with a *)
(* clock that is ahead; receivers remember nothing, so that items do not   *)
(* meet.                                                                   *)
(*                                                                         *)
(* "lifecycle": two threads, two secrets, salts drawn up to twice, and two *)
(* tasks that have not reported yet.                                       *)
(*                                                                         *)
(* "core": the same threads and secrets call spotka_init.                  *)
(*                                                                         *)
(* "ios": two calls, two callbacks, and clocks around the age limit; u64   *)
(* has eight values.                                                       *)
(***************************************************************************)
EXTENDS Storage, Packets, CoreEntry, IosCalls, TLC

CONSTANTS ala, bob

VARIABLE part

StorageSymmetry ==
    Permutations(Task) \cup Permutations(Seed)
        \cup Permutations(Secret) \cup Permutations(Salt)

MCSkew == [d \in Device |-> IF d = ala THEN 0 ELSE 1]

MCMaxAge == [envelope |-> 4, packet |-> 3, ping |-> 3]

Init == /\ part \in {"storage", "packets", "lifecycle", "core", "ios"}
        /\ StorageInit /\ PacketInit /\ CoreInit /\ IosInit

Next == \/ part = "storage" /\ StorageNext
           /\ UNCHANGED <<part, packetVars, coreVars, iosVars>>
        \/ part = "packets" /\ PacketNext
           /\ UNCHANGED <<part, vars, coreVars, iosVars>>
        \/ part = "lifecycle" /\ LifeNext
           /\ UNCHANGED <<part, vars, packetVars, entryVars, iosVars>>
        \/ part = "core" /\ CoreNext
           /\ UNCHANGED <<part, vars, packetVars, iosVars>>
        \/ part = "ios" /\ IosNext
           /\ UNCHANGED <<part, vars, packetVars, coreVars>>

Spec == Init /\ [][Next]_<<part, vars, packetVars, coreVars, iosVars>>

TypeOK == StorageTypeOK /\ PacketTypeOK /\ LifeTypeOK /\ EntryTypeOK /\ IosTypeOK
==============================================================================
