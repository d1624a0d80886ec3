---------------------------- MODULE PeerInvariant ----------------------------
(***************************************************************************)
(* The part of the inductive invariant that is about one peer: its chain,  *)
(* and what it keeps about the period it is in and the one before.         *)
(***************************************************************************)
EXTENDS Peer

\* A hash that was proposed in round r, in period d or before it.
OfRound(v, r, d) == v \in Hash /\ v[2] = r /\ v[3] <= d

\* A chain of linked blocks, the i-th of which (i > 1) was proposed in round i - 1.
ChainOK(chain) ==
    /\ Len(chain) \in 1 .. MaxRound + 1
    /\ chain[1] = GenesisBlock
    /\ \A i \in 2 .. Len(chain) : chain[i] # Nil =>
          /\ chain[i - 1] # Nil
          /\ chain[i].id = i - 1
          /\ chain[i].prevHash = chain[i - 1].hash
          /\ chain[i].hash \in Hash /\ chain[i].hash[2] = i - 1

\* A block that can be appended to the chain in period d.
BlockFits(b, chain, d) ==
    /\ Last(chain) # Nil
    /\ b.id = Len(chain)
    /\ b.prevHash = Last(chain).hash
    /\ OfRound(b.hash, Len(chain), d)

\* What a peer keeps about a period: blocks that fit, and votes for their hashes.
PeriodOK(ps, chain, d) ==
    /\ \A q \in Node : ps.idToBlock[q] # Nil => BlockFits(ps.idToBlock[q], chain, d)
    /\ \A v \in Hash :
          \/ ps.softVotes[v] > 0 \/ ps.certVotes[v] > 0 \/ ps.nextVotes[v] > 0
          \/ ps.myCertVote = v \/ ps.startingValue = v
          => OfRound(v, Len(chain), d)

\* One peer, taken alone.
PeerOK(s, chain) ==
    /\ ChainOK(chain)
    /\ Len(chain) = s.round
    /\ PeriodOK(s.periodState, chain, s.period)
    /\ PeriodOK(s.lastPeriodState, chain, s.period)
    /\ ~s.readyForNextRound => s.round <= MaxRound /\ s.period <= MaxPeriod
    /\ s.periodState.leader # Empty => ~s.readyForNextRound
    /\ s.readyForNextRound /\ s.period > 1 =>
          \E v \in MostVoted(s.lastPeriodState.nextVotes) :
              s.lastPeriodState.nextVotes[v] >= s.requiredVotes

\* A proposal's block extends the block the proposal names.
ProposalOK(m) ==
    /\ m.block.id = m.round
    /\ m.block.prevHash = m.lastHash
    /\ OfRound(m.block.hash, m.round, m.period)

=============================================================================
