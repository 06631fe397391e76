------------------------------- MODULE MCMesh --------------------------------
(* Ala organizes; Bob can relay between her and Cyd, who can be restarted  *)
(* once.  Everybody may come to know everybody, except that Cyd never gets *)
(* Bob's PeerId: that direction would repeat what Cyd and Ala do.          *)
EXTENDS Mesh

CONSTANTS a1, b1, c1, c2, ala, bob, cyd, m1

MCOwner == [p \in PeerId |-> CASE p = a1 -> ala
                               [] p = b1 -> bob
                               [] OTHER -> cyd]

MCOrganizer == [m \in Meeting |-> ala]

(* Bob's database knows Cyd as invited to the meeting, and only so.        *)
MCPinged == [u \in User |-> IF u = bob THEN {ala} ELSE User \ {u}]

MCInvitedTo == [u \in User |-> IF u = bob THEN {<<cyd, m1>>} ELSE {}]

MCMeets == (User \X User) \ {<<cyd, bob>>}
==============================================================================
