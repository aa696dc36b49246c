------------------------------- MODULE Clique -------------------------------
(***************************************************************************)
(* consensus/clique: who may sign the next block, and how signers vote     *)
(* others in and out.                                                      *)
(*                                                                         *)
(* The rule "not again within the last half of the signers" is written     *)
(* three times, for a header of the network (verifySeal), for a header     *)
(* behind a snapshot (apply) and for the own block (Seal), on unsigned     *)
(* integers.  snap is the voting snapshot at the head: what the walk of    *)
(* Clique.snapshot over cached, stored and fresh snapshots comes to.       *)
(* light is the snapshot of a node that trusts a checkpoint header.        *)
(*                                                                         *)
(* Signatures are honest names; an address is a number, as the turn of a   *)
(* signer depends on the order; 0 is the empty address.                    *)
(***************************************************************************)
EXTENDS Naturals, FiniteSets, FiniteSetsExt

CONSTANTS Addresses, GenesisLists,   \* numbers above 0, and sets of them
          Epoch,                     \* blocks from checkpoint to checkpoint
          Wrap,                      \* 2^64
          Nothing,                   \* no work, no snapshot
          MaxNumber                  \* bound

ASSUME CliqueAssumption ==
  /\ Addresses \subseteq Nat \ {0} /\ \A signers \in GenesisLists : signers \subseteq Addresses /\ IsFiniteSet(signers)
  /\ Epoch \in Nat \ {0} /\ MaxNumber \in Nat /\ Wrap \in Nat /\ MaxNumber < Wrap

VARIABLES snap, light,
          stuck, \* the snapshot at the head cannot be built
          key,   \* the account this node signs with
          work   \* the header it has prepared on the head

cliqueVars == <<snap, light, stuck, key, work>>

NoTally == [authorize |-> FALSE, votes |-> 0]
Vote == [signer : Addresses, block : 1..MaxNumber, address : Addresses, authorize : BOOLEAN]
Header == [number : 1..MaxNumber, signer : Addresses, coinbase : Addresses \cup {0},
           authorize : BOOLEAN, difficulty : {1, 2}]

Checkpoint(n) == n % Epoch = 0
Limit(signers) == Cardinality(signers) \div 2 + 1
Minus(m, n) == (m + Wrap - n) % Wrap

\* newSnapshot: the recent signers are not known.
NewSnapshot(n, signers) ==
  [number |-> n, signers |-> signers, recents |-> [k \in {} |-> 0], votes |-> {},
   tally |-> [a \in Addresses |-> NoTally]]

CliqueInit ==
  /\ \E signers \in GenesisLists : snap = NewSnapshot(0, signers) /\ key \in signers
  /\ light = Nothing /\ stuck = FALSE /\ work = Nothing

-----------------------------------------------------------------------------
(* Snapshot.apply, one header.                                             *)

Recorded(recents, n, a) == [k \in DOMAIN recents \cup {n} |-> IF k = n THEN a ELSE recents[k]]
Forgotten(recents, n, signers) ==
  [k \in DOMAIN recents \ {m \in DOMAIN recents : n >= Limit(signers) /\ m = n - Limit(signers)} |-> recents[k]]

ValidVote(s, a, authorize) == a # 0 /\ (a \in s.signers <=> ~authorize)

Cast(s, v) ==
  LET t == s.tally[v.address]
  IN IF ~ValidVote(s, v.address, v.authorize) THEN s
     ELSE [s EXCEPT !.votes = @ \cup {v},
                    !.tally = [@ EXCEPT ![v.address] = IF t.votes > 0 THEN [t EXCEPT !.votes = t.votes + 1]
                                                       ELSE [authorize |-> v.authorize, votes |-> 1]]]

\* Only a vote the tally has counted is taken back.
Uncast(tally, v) ==
  LET t == tally[v.address]
  IN IF t.votes = 0 \/ t.authorize # v.authorize THEN tally
     ELSE [tally EXCEPT ![v.address] = IF t.votes > 1 THEN [t EXCEPT !.votes = t.votes - 1] ELSE NoTally]

Discard(s, v) == [s EXCEPT !.votes = @ \ {v}, !.tally = Uncast(@, v)]

\* The first vote of the signer on the address.
Earlier(s, signer, a) ==
  LET votes == {v \in s.votes : v.signer = signer /\ v.address = a}
  IN {v \in votes : \A w \in votes : v.block <= w.block}

DiscardAll(s, votes) == FoldSet(LAMBDA v, t : Discard(t, v), s, votes)

\* Mutant of Remove: the window of recent signers does not shrink.
RemoveKeepsRecents(s, a, n) ==
  DiscardAll([s EXCEPT !.signers = @ \ {a}], {v \in s.votes : v.signer = a})

\* A removed signer is forgotten: its votes, and who it kept waiting.
Remove(s, a, n) ==
  LET rest == [s EXCEPT !.signers = @ \ {a}]
  IN DiscardAll([rest EXCEPT !.recents = Forgotten(@, n, rest.signers)],
                {v \in s.votes : v.signer = a})

\* Mutant of Passed: half of the signers are enough.
PassedAtHalf(s, a, n) ==
  LET t == s.tally[a]
      changed == IF t.authorize THEN [s EXCEPT !.signers = @ \cup {a}] ELSE Remove(s, a, n)
  IN IF a = 0 \/ s.tally[a].votes < Cardinality(s.signers) \div 2 THEN s
     ELSE [changed EXCEPT !.votes = {v \in @ : v.address # a}, !.tally = [@ EXCEPT ![a] = NoTally]]

\* A vote that passed changes the signers and ends all votes on that account.
Passed(s, a, n) ==
  LET t == s.tally[a]
      changed == IF t.authorize THEN [s EXCEPT !.signers = @ \cup {a}] ELSE Remove(s, a, n)
  IN IF a = 0 \/ s.tally[a].votes <= Cardinality(s.signers) \div 2 THEN s
     ELSE [changed EXCEPT !.votes = {v \in @ : v.address # a}, !.tally = [@ EXCEPT ![a] = NoTally]]

\* What is left of the snapshot when a block begins.
Begun(s, n) ==
  LET clean == IF Checkpoint(n) THEN NewSnapshot(s.number, s.signers) ELSE s
  IN [clean EXCEPT !.recents = Forgotten(s.recents, n, s.signers)]

Applies(s, h) ==
  LET b == Begun(s, h.number)
  IN h.signer \in b.signers /\ \A k \in DOMAIN b.recents : b.recents[k] # h.signer

Apply(s, h) ==
  LET n == h.number
      b == Begun(s, n)
      signed == [b EXCEPT !.recents = Recorded(@, n, h.signer)]
      again == DiscardAll(signed, Earlier(signed, h.signer, h.coinbase))
      vote == [signer |-> h.signer, block |-> n, address |-> h.coinbase, authorize |-> h.authorize]
  IN [Passed(Cast(again, vote), h.coinbase, n) EXCEPT !.number = n]

-----------------------------------------------------------------------------
(* Headers of the network.                                                 *)

InTurn(s, n, a) ==
  n % Cardinality(s.signers) = Cardinality({b \in s.signers : b < a})

\* verifyHeader: a checkpoint has no vote and carries the list of signers.
WellFormed(h) == Checkpoint(h.number) => h.coinbase = 0 /\ ~h.authorize

\* verifySeal: a recent signer must wait, unless this block shifts it out.  The
\* subtraction wraps below the limit.
VerifySeal(s, h) ==
  /\ h.signer \in s.signers
  /\ \A k \in DOMAIN s.recents :
       s.recents[k] = h.signer => k <= Minus(h.number, Limit(s.signers))
  /\ h.difficulty = IF InTurn(s, h.number, h.signer) THEN 2 ELSE 1

\* What the network may send: an empty vote, or one on an account.
Offers(s) == {h \in Header : h.number = s.number + 1 /\ (h.coinbase = 0 => ~h.authorize)}

\* h is the new head.  Where its snapshot cannot be built no child will be verified.
\* A light node follows.  The work on the old head is given up: sealed all the same,
\* it would be a side block.
Extend(h) ==
  /\ work' = Nothing
  /\ IF Applies(snap, h) THEN snap' = Apply(snap, h) /\ UNCHANGED stuck
                         ELSE stuck' = TRUE /\ UNCHANGED snap
  /\ light' = IF light = Nothing \/ ~Applies(light, h) THEN light ELSE Apply(light, h)

\* verifyHeader and verifyCascadingFields on the snapshot of the parent.
Import ==
  /\ ~stuck /\ snap.number < MaxNumber
  /\ \E h \in Offers(snap) : WellFormed(h) /\ VerifySeal(snap, h) /\ Extend(h)
  /\ UNCHANGED key

\* A node without the headers below a checkpoint takes the signers from it.
TrustCheckpoint ==
  /\ light = Nothing /\ snap.number > 0 /\ Checkpoint(snap.number) /\ ~stuck
  /\ light' = NewSnapshot(snap.number, snap.signers)
  /\ UNCHANGED <<snap, stuck, key, work>>

-----------------------------------------------------------------------------
(* The own block.                                                          *)

\* Authorize: mining starts with another account.
Authorize(a) ==
  /\ key # a /\ key' = a
  /\ UNCHANGED <<snap, light, stuck, work>>

\* Prepare: a vote for one of the proposals of the operator that make sense, and the
\* difficulty for the key of the moment (there is none without signers: a division
\* by zero).
Prepare ==
  /\ work = Nothing /\ ~stuck /\ snap.number < MaxNumber /\ snap.signers # {}
  /\ \E a \in Addresses \cup {0}, authorize \in BOOLEAN :
       LET n == snap.number + 1 IN
       /\ IF a = 0 THEN ~authorize ELSE ~Checkpoint(n) /\ ValidVote(snap, a, authorize)
       /\ work' = [number |-> n, signer |-> key, coinbase |-> a, authorize |-> authorize,
                   difficulty |-> IF InTurn(snap, n, key) THEN 2 ELSE 1]
  /\ UNCHANGED <<snap, light, stuck, key>>

\* The check of Seal.
MaySeal(s, n, a) ==
  /\ a \in s.signers
  /\ \A k \in DOMAIN s.recents :
       s.recents[k] = a => n >= Limit(s.signers) /\ k <= n - Limit(s.signers)

\* The prepared header as the key of the moment signs it.
Sealed == [work EXCEPT !.signer = key]

\* Seal: the own block is written without another verification.
Seal ==
  /\ work # Nothing /\ MaySeal(snap, work.number, key)
  /\ Extend(Sealed)
  /\ UNCHANGED key

CliqueNext ==
  \/ Import \/ TrustCheckpoint \/ Prepare \/ Seal
  \/ \E a \in Addresses : Authorize(a)

CliqueSpec == CliqueInit /\ [][CliqueNext]_cliqueVars

-----------------------------------------------------------------------------
(* What the engine promises.                                               *)

CliqueTypeOK ==
  /\ snap.number \in 0..MaxNumber /\ snap.signers \subseteq Addresses
  /\ snap.recents \in [DOMAIN snap.recents -> Addresses] /\ DOMAIN snap.recents \subseteq 1..snap.number
  /\ snap.votes \subseteq Vote
  /\ \A a \in Addresses : snap.tally[a] = NoTally \/ snap.tally[a].votes \in 1..Cardinality(snap.signers)
  /\ stuck \in BOOLEAN /\ key \in Addresses
  /\ work # Nothing => work \in Header /\ work.number = snap.number + 1

\* The cached tally is the count of the votes on the list, through repeated and
\* reversed votes, passed votes, removed signers and checkpoints; a vote on the list
\* is by a signer, its only one on that account, and would change the signers.
TallyCountsVotes ==
  /\ \A a \in Addresses :
       snap.tally[a].votes = Cardinality({v \in snap.votes : v.address = a})
  /\ \A v \in snap.votes :
       /\ v.signer \in snap.signers /\ (v.address \in snap.signers <=> ~v.authorize)
       /\ snap.tally[v.address].authorize = v.authorize
       /\ \A w \in snap.votes : w.signer = v.signer /\ w.address = v.address => w = v

\* An account joins or leaves by the votes of more than half of the signers only.
MajorityDecides ==
  [][snap'.signers # snap.signers =>
       \E a \in Addresses :
         LET voters == {v.signer : v \in {w \in snap.votes : w.address = a}} \cup {snap'.recents[snap'.number]}
         IN /\ snap'.signers = IF a \in snap.signers THEN snap.signers \ {a} ELSE snap.signers \cup {a}
            /\ voters \subseteq snap.signers /\ 2 * Cardinality(voters) > Cardinality(snap.signers)]_cliqueVars

\* However the signers grow and shrink, recent signing locks out none for longer than
\* half of them and never everybody.
SomeoneMaySign ==
  /\ \A k \in DOMAIN snap.recents : k + Limit(snap.signers) > snap.number
  /\ snap.signers # {} => \E a \in snap.signers : MaySeal(snap, snap.number + 1, a)

\* The voting snapshot is what its history makes it, and the chain can go on.
VotesSound == CliqueTypeOK /\ TallyCountsVotes /\ SomeoneMaySign

\* The three copies of the rule agree: what a header of the network passes and what
\* this node signs has a snapshot; and others accept what this
\* node signs if its key is still the one it prepared for.  Below the limit a header
\* of the network passes by the wrapped subtraction.
RuleAgrees ==
  /\ stuck => snap.number + 1 < Limit(snap.signers)
  /\ work # Nothing /\ MaySeal(snap, work.number, key) =>
       /\ Applies(snap, Sealed) /\ WellFormed(Sealed)
       /\ key = work.signer => VerifySeal(snap, Sealed)

\* The comment at snapshot.go:210 (check against signers) for every verified header.
VerifiedApplies == ~stuck

\* A node that trusts a checkpoint agrees on the signers and the votes ever after,
\* and on who must wait once the blocks before the checkpoint no longer count.
LightAgrees ==
  light # Nothing /\ ~stuck =>
    /\ light.number = snap.number /\ light.signers = snap.signers
    /\ light.votes = snap.votes /\ light.tally = snap.tally
    /\ \A k \in DOMAIN light.recents : k \in DOMAIN snap.recents /\ light.recents[k] = snap.recents[k]

\* Everyone who reads the same chain agrees on who may sign.
ViewsAgree == RuleAgrees /\ LightAgrees

\* Votes are counted as cast, the chain can go on, and all nodes agree on it (apply,
\* verifySeal, Seal).
CliqueSound == VotesSound /\ ViewsAgree
=============================================================================
