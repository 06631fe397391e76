---------------------------- MODULE MCSyncInvites ----------------------------
(* Two senders with two calls per window; a window spans two instants, so  *)
(* that a third one opens within the clock.                                *)
EXTENDS SyncInvites, TLC

SenderSymmetry == Permutations(Sender)
==============================================================================
