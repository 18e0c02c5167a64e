----------------------------- MODULE ChannelRestore -----------------------------
(***************************************************************************)
(* ChannelPair with an operator who copies the opener's files and later    *)
(* starts the node on the copy.  The record the node then runs on may be   *)
(* older than what the peer has seen, and channel_reestablish is what      *)
(* tells it so (handleReestablish in src/lightning/channel/channel.ts).     *)
(***************************************************************************)
EXTENDS ChannelPair

CONSTANT MaxRestores  \* bound: times the files are put back

VARIABLES copy, restores

restoreVars == <<vars, copy, restores>>

RestoreInit ==
  /\ Init
  /\ copy = disk[Opener]
  /\ restores = 0

CopiesFiles ==
  /\ restores < MaxRestores
  /\ copy # disk[Opener]
  /\ copy' = disk[Opener]
  /\ UNCHANGED <<vars, restores>>

\* The node starts on the copy; the peer sees its connection close.
RestoresFiles ==
  /\ restores < MaxRestores
  /\ Idle(Acceptor)
  /\ restores' = restores + 1
  /\ disk' = [disk EXCEPT ![Opener] = copy]
  /\ ch' = [p \in Peer |-> MarkForReestablish(IF p = Opener THEN copy ELSE ch[p])]
  /\ connected' = FALSE
  /\ net' = [p \in Peer |-> << >>]
  /\ signing' = [p \in Peer |-> FALSE]
  /\ UNCHANGED <<feeUpdates, drops, copy>>

RestoreNext ==
  \/ Next /\ UNCHANGED <<copy, restores>>
  \/ CopiesFiles
  \/ RestoresFiles

RestoreSpec == RestoreInit /\ [][RestoreNext]_restoreVars

\* A node whose files were put back from an old copy learns it from the peer's
\* channel_reestablish: once that was handled, a commitment whose secret the peer
\* holds is marked never to be broadcast (dataLossDetected, restoreRevokedRisk).
StaleCommitmentIsNeverBroadcast ==
  \A p \in Peer :
    /\ ch[p].state # "AWAITING_REESTABLISH"
    /\ ch[Other(p)].remoteRevocationNumber > ch[p].localCommitmentNumber
    => MustNotBroadcast(ch[p])
================================================================================
