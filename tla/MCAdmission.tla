----------------------------- MODULE MCAdmission -----------------------------
(***************************************************************************)
(* Two parts that share no state, a behaviour is about one of them.        *)
(*                                                                         *)
(* "graph": one trust graph of three PeerIds and two users, any PeerId     *)
(* filed under any user.                                                   *)
(*                                                                         *)
(* "connections": two devices in range, each pinged as its own user, and   *)
(* one token, which may be issued for either user and presented by either  *)
(* device.                                                                 *)
(***************************************************************************)
EXTENDS Admission, TrustGraph

CONSTANTS p1, p2, u1, u2

VARIABLE part

MCPings == {<<p1, u1>>, <<p2, u2>>}

MCInit == /\ part \in {"graph", "connections"}
          /\ Init /\ AdmissionInit

MCNext == \/ part = "graph" /\ Next /\ UNCHANGED <<part, admissionVars>>
          \/ part = "connections" /\ AdmissionNext /\ UNCHANGED <<part, vars>>

MCSpec == MCInit /\ [][MCNext]_<<part, vars, admissionVars>>

MCTypeOK == TypeOK /\ AdmissionTypeOK
==============================================================================
