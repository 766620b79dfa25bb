------------------------- MODULE MbltWorkerProofs ---------------------------
(***************************************************************************)
(* The worker under its scheduler, for any requests, prompts, images,      *)
(* caches, slots, blocks, batch sizes and prefix costs: the inductive      *)
(* invariant, its preservation by every action, and the theorems that      *)
(* follow from it.                                                         *)
(***************************************************************************)
EXTENDS MbltWorker, WorkerCachesProofs

-----------------------------------------------------------------------------
(* The scheduler and its plan.  d stands for sched, q for p, s for step    *)
(* and v for w, so that what is said of a state can be said of the next.   *)

IsScheduler(d) ==
  d \in [status : [Req -> Statuses], running : Seq(Req), preempted : Seq(Req),
         out : [Req -> Seq(Tok)], num : [Req -> Nat], table : [Req -> Seq(Block)],
         free : Seq(Block), key : {d.key}]

\* The queues hold each request of their status once.
QueueInv(d) ==
  /\ Injective(d.running) /\ Injective(d.preempted) /\ Len(d.running) <= MaxSeqs
  /\ \A r \in Req : d.status[r] = "running" <=> r \in Entries(d.running)
  /\ \A r \in Req : d.status[r] = "preempted" <=> r \in Entries(d.preempted)

\* A request that may run again has a token to compute and one to answer.
ProgressInv(d) ==
  \A r \in Req :
    /\ d.num[r] <= Len(Known(d, r)) /\ Len(d.out[r]) <= MaxOut
    /\ d.status[r] \in {"waiting", "running", "preempted"} => Len(d.out[r]) < MaxOut
    /\ d.status[r] = "waiting" => d.out[r] = <<>>

SchedInv(d) == IsScheduler(d) /\ QueueInv(d) /\ ProgressInv(d)

Planners ==
  [order : Seq(Req), plan : [Req -> Plans \cup {None}], next : Nat \ {0}, budget : Nat,
   stalled : BOOLEAN]

\* The plan covers the running requests before next, and nothing was preempted if it
\* holds a new one.
PlanInv(d, q) ==
  /\ q \in Planners
  /\ q.next <= Len(d.running) + 1
  /\ q.order = SubSeq(d.running, 1, q.next - 1)
  /\ \A r \in Req : q.plan[r] # None <=> r \in Entries(q.order)
  /\ \A r \in Req : q.plan[r] # None => q.plan[r].num + q.plan[r].n = d.num[r]
  /\ \A r \in Req : q.plan[r] # None /\ q.plan[r].kind = "new" =>
        d.preempted = <<>> /\ q.next = Len(d.running) + 1
  /\ \A r \in Req : d.status[r] = "running" /\ q.plan[r] = None =>
        d.num[r] < Len(Known(d, r))

-----------------------------------------------------------------------------
(* The scheduler: blocks.                                                  *)

\* The blocks sorted: there is one with as many below as it has places before it.
LEMMA AllBlocksType == AllBlocks \in Seq(Block)
<1> DEFINE L == {pair \in Block \X Block : pair[1] < pair[2]}
           N == Cardinality(Block)
<1>1. IsFiniteSet(Block) /\ Block \subseteq Nat /\ N \in Nat
  BY BlockAssumption, FS_CardinalityType
<1>2. StrictOrder(Block, L)
  BY <1>1 DEF StrictOrder
<1>3. ASSUME NEW i \in 1 .. N
      PROVE  \E b \in Block : Cardinality({c \in Block : c < b}) = i - 1
  <2> DEFINE n == i - 1
             before == {b \in Block : Age(Block, L, b) < n}
  <2>1. n \in Nat /\ n \in 0 .. N /\ n < N
    BY <1>1
  <2> HIDE DEF n, L
  <2>2. Cardinality(before) = n
    <3> HIDE DEF N
    <3>1. n \in 0 .. Cardinality(Block)
      BY <2>1 DEF N
    <3> QED BY <1>1, <1>2, <3>1, AgesCount
  <2>3. before # Block
    BY <2>1, <2>2
  <2>4. PICK b \in Block : Age(Block, L, b) = n
    <3>1. Cardinality({b \in Block : Age(Block, L, b) < n}) = n
          /\ {b \in Block : Age(Block, L, b) < n} # Block
      BY <2>2, <2>3
    <3> QED BY ZenonT(30), <1>1, <1>2, <2>1, <3>1, NextByAge
  <2>5. {o \in Block : <<o, b>> \in L} = {c \in Block : c < b}
    BY DEF L
  <2>6. Age(Block, L, b) = Cardinality({c \in Block : c < b})
    BY <2>5 DEF Age
  <2> QED BY <2>4, <2>6 DEF n
<1>4. \A i \in 1 .. N : AllBlocks[i] \in Block
  <2> TAKE i \in 1 .. N
  <2>1. AllBlocks[i] = CHOOSE b \in Block : Cardinality({c \in Block : c < b}) = i - 1
    BY DEF AllBlocks
  <2> QED BY <1>3, <2>1
<1>5. AllBlocks = [i \in 1 .. N |-> AllBlocks[i]]
  BY SMTT(30) DEF AllBlocks
<1> QED
  <2>1. AllBlocks \in [1 .. N -> Block]
    BY <1>4, <1>5
  <2> QED BY <1>1, <2>1, SeqDef

LEMMA KnownIs ==
  ASSUME NEW d, IsScheduler(d), NEW r \in Req
  PROVE  /\ Known(d, r) \in Seq(Text) /\ Len(Known(d, r)) = Len(Prompt[r]) + Len(d.out[r])
         /\ Len(Prompt[r]) \in Nat \ {0} /\ Len(d.out[r]) \in Nat
         /\ Len(Known(d, r)) \in Nat \ {0}
<1>1. Prompt[r] \in Seq(Embeddings) /\ Prompt[r] # <<>>
  BY PromptAssumption
<1>2. d.out[r] \in Seq(Tok)
  BY DEF IsScheduler
<1>3. Prompt[r] \in Seq(Text) /\ d.out[r] \in Seq(Text)
  <2>1. Embeddings \subseteq Text /\ Tok \subseteq Text
    BY DEF Text
  <2> QED BY <1>1, <1>2, <2>1, SeqMonotonic
<1>4. Len(Prompt[r]) \in Nat \ {0}
  BY <1>3, <1>1, EmptySeq
<1>5. Len(d.out[r]) \in Nat
  BY <1>3, LenProperties
<1>6. Known(d, r) \in Seq(Text) /\ Len(Known(d, r)) = Len(Prompt[r]) + Len(d.out[r])
  BY <1>3, ConcatProperties DEF Known
<1>7. Len(Known(d, r)) \in Nat \ {0}
  <2> DEFINE a == Len(Prompt[r])
             b == Len(d.out[r])
  <2>1. a \in Nat \ {0} /\ b \in Nat
    BY <1>4, <1>5
  <2>2. Len(Known(d, r)) = a + b
    BY <1>6
  <2> HIDE DEF a, b
  <2>3. a + b \in Nat \ {0}
    BY <2>1
  <2> QED BY <2>2, <2>3
<1> QED BY <1>4, <1>5, <1>6, <1>7

LEMMA BlocksFit ==
  ASSUME NEW L \in Nat, NEW h \in 0 .. L \div BlockSize
  PROVE  h * BlockSize \in Nat /\ h * BlockSize <= L
<1>1. BlockSize \in Nat /\ BlockSize > 0
  BY BlockSizeAssumption
<1> DEFINE k == L \div BlockSize
<1>2. k \in Nat /\ k * BlockSize <= L
  BY <1>1
<1>3. h \in Nat /\ h <= k
  BY <1>2
<1> HIDE DEF k
<1>4. h * BlockSize <= k * BlockSize
  BY <1>1, <1>2, <1>3
<1>5. h * BlockSize \in Nat /\ k * BlockSize \in Nat
  BY <1>1, <1>2, <1>3
<1> QED BY <1>2, <1>4, <1>5

\* A request always has a token left to compute past its cached blocks.
LEMMA HitBlocksIs ==
  ASSUME NEW d, IsScheduler(d), NEW r \in Req
  PROVE  /\ HitBlocks(d, r) \in Seq(Block)
         /\ Len(HitBlocks(d, r)) * BlockSize \in Nat
         /\ Len(HitBlocks(d, r)) * BlockSize < Len(Known(d, r))
<1> DEFINE cached(i) == \E b \in Block : d.key[b] = SubSeq(Known(d, r), 1, i * BlockSize)
           L    == Len(Known(d, r)) - 1
           N    == L \div BlockSize
           S    == {n \in 0 .. N : \A i \in 1 .. n : cached(i)}
           hits == MaxOf(S)
           chosen(i) == CHOOSE b \in Block : d.key[b] = SubSeq(Known(d, r), 1, i * BlockSize)
<1>1. L \in Nat
  <2>1. Len(Known(d, r)) \in Nat \ {0}
    BY KnownIs
  <2> QED BY <2>1
<1>2. N \in Nat
  BY <1>1, BlockSizeAssumption
<1>3. S \in SUBSET (0 .. N) /\ 0 \in S
  BY <1>2
<1>4. hits \in S
  <2> HIDE DEF S, N
  <2> QED BY <1>2, <1>3, MaxOfIs
<1>5. CASE ~EnablePrefixCaching
  <2>1. HitBlocks(d, r) = <<>>
    BY <1>5 DEF HitBlocks
  <2>2. <<>> \in Seq(Block) /\ Len(<<>>) = 0
    BY EmptySeq
  <2>3. 0 * BlockSize = 0
    BY BlockSizeAssumption
  <2> QED BY <1>1, <2>1, <2>2, <2>3
<1>6. CASE EnablePrefixCaching
  <2>1. HitBlocks(d, r) = [i \in 1 .. hits |-> chosen(i)]
    BY <1>6 DEF HitBlocks
  <2>2. hits \in Nat /\ hits \in 0 .. N /\ \A i \in 1 .. hits : cached(i)
    BY <1>2, <1>4
  <2>3. \A i \in 1 .. hits : chosen(i) \in Block
    BY <2>2
  <2> HIDE DEF hits, chosen, S, N
  <2>4. [i \in 1 .. hits |-> chosen(i)] \in Seq(Block) /\ Len([i \in 1 .. hits |-> chosen(i)]) = hits
    BY <2>2, <2>3
  <2>5. hits * BlockSize \in Nat /\ hits * BlockSize <= L
    <3> HIDE DEF L
    <3>1. hits \in 0 .. L \div BlockSize
      BY <2>2 DEF N
    <3> QED BY <1>1, <3>1, BlocksFit
  <2>6. HitBlocks(d, r) \in Seq(Block) /\ Len(HitBlocks(d, r)) = hits
    BY <2>1, <2>4
  <2>7. Len(Known(d, r)) = L + 1
    <3>1. Len(Known(d, r)) \in Nat
      BY KnownIs
    <3> QED BY <3>1
  <2> HIDE DEF L
  <2> QED BY <1>1, <2>5, <2>6, <2>7
<1> QED BY <1>5, <1>6

LEMMA NewBlocksType ==
  ASSUME NEW d, IsScheduler(d), NEW r \in Req, NEW tokens \in Nat, NEW held \in Seq(Block),
         CanAllocate(d, r, tokens, held)
  PROVE  NewBlocks(d, r, tokens, held) \in Seq(Block)
<1> DEFINE left == Without(d.free, Entries(held))
           n    == RequiredBlocks(tokens) - Len(held)
<1>1. d.free \in Seq(Block)
  BY DEF IsScheduler
<1>2. left \in Seq(Block)
  BY <1>1, WithoutIs
<1>3. n \in Int
  BY RequiredBlocksType, EntriesOf
<1>4. n <= Len(left)
  BY DEF CanAllocate
<1> HIDE DEF left, n
<1>5. \A i \in 1 .. n : left[i] \in Block
  BY <1>2, <1>3, <1>4, EntriesOf
<1>6. SubSeq(left, 1, n) \in Seq(Block)
  BY <1>3, <1>5, SubSeqProperties
<1> QED BY <1>6 DEF NewBlocks, left, n

\* What an operator of the scheduler leaves as it was.
SameQueues(d, e) ==
  /\ e.status = d.status /\ e.running = d.running /\ e.preempted = d.preempted
  /\ e.out = d.out /\ e.num = d.num

LEMMA AllocateFields ==
  ASSUME NEW d, IsScheduler(d), NEW r \in Req, NEW tokens \in Nat, NEW held \in Seq(Block),
         CanAllocate(d, r, tokens, held)
  PROVE  /\ IsScheduler(Allocate(d, r, tokens, held)) /\ SameQueues(d, Allocate(d, r, tokens, held))
         /\ Allocate(d, r, tokens, held).table[r] \in Seq(Block)
<1> DEFINE fresh == NewBlocks(d, r, tokens, held)
           table == held \o fresh
           full  == {i \in 1 .. tokens \div BlockSize : EnablePrefixCaching}
           key   == [b \in Block |->
                           IF \E i \in full : table[i] = b
                           THEN SubSeq(Known(d, r), 1, BlockSize *
                                         CHOOSE i \in full : table[i] = b)
                           ELSE IF b \in Entries(fresh) THEN None ELSE d.key[b]]
           free  == Without(d.free, Entries(table))
           e     == [d EXCEPT !.table[r] = table, !.free = free, !.key = key]
<1>1. fresh \in Seq(Block)
  BY NewBlocksType
<1>2. table \in Seq(Block)
  BY <1>1, ConcatProperties
<1>3. d.free \in Seq(Block)
  BY DEF IsScheduler
<1>4. free \in Seq(Block)
  <2> HIDE DEF table
  <2> QED BY <1>3, WithoutIs
<1>5. Allocate(d, r, tokens, held) = e
  BY DEF Allocate
<1> HIDE DEF table, free, key
<1>6. IsScheduler(e) /\ SameQueues(d, e) /\ e.table[r] = table
  BY <1>2, <1>4 DEF IsScheduler, SameQueues
<1> HIDE DEF e
<1> QED BY <1>2, <1>5, <1>6

LEMMA FreeBlocksFields ==
  ASSUME NEW d, IsScheduler(d), NEW r \in Req
  PROVE  /\ IsScheduler(FreeBlocks(d, r)) /\ SameQueues(d, FreeBlocks(d, r))
         /\ FreeBlocks(d, r).key = d.key
<1> DEFINE shared == UNION {Entries(d.table[o]) : o \in Req \ {r}}
           left   == Without(d.table[r], shared)
           free   == d.free \o Reverse(left)
           e      == [d EXCEPT !.free = free, !.table[r] = <<>>]
<1>1. d.free \in Seq(Block) /\ d.table[r] \in Seq(Block)
  BY DEF IsScheduler
<1>2. left \in Seq(Block)
  <2> HIDE DEF shared
  <2> QED BY <1>1, WithoutIs
<1> HIDE DEF left
<1>3. Reverse(left) \in Seq(Block)
  <2>1. Len(left) \in Nat /\ \A i \in 1 .. Len(left) : left[i] \in Block
    BY <1>2, EntriesOf
  <2>2. \A i \in 1 .. Len(left) : left[(Len(left) - i) + 1] \in Block
    BY <2>1
  <2> QED BY <2>1, <2>2 DEF Reverse
<1>4. free \in Seq(Block)
  BY <1>1, <1>3, ConcatProperties
<1>5. FreeBlocks(d, r) = e
  BY DEF FreeBlocks, left
<1> HIDE DEF free
<1>6. <<>> \in Seq(Block)
  BY EmptySeq
<1>7. IsScheduler(e) /\ SameQueues(d, e) /\ e.key = d.key
  BY <1>4, <1>6 DEF IsScheduler, SameQueues
<1> HIDE DEF e
<1> QED BY <1>5, <1>7

LEMMA ShareIs ==
  ASSUME NEW d, IsScheduler(d), NEW q, q.budget \in Nat \ {0}, NEW r \in Req, NEW num \in Nat,
         num < Len(Known(d, r))
  PROVE  /\ Share(d, q, r, num) \in Nat \ {0} /\ Share(d, q, r, num) <= q.budget
         /\ num + Share(d, q, r, num) \in Nat /\ num + Share(d, q, r, num) <= Len(Known(d, r))
<1> DEFINE k == Len(Known(d, r))
           b == q.budget
<1>1. k \in Nat /\ b \in Nat \ {0}
  BY KnownIs
<1>2. Chunk \in Nat \ {0}
  BY BoundsAssumption
<1>3. num < k
  OBVIOUS
<1>4. Share(d, q, r, num) = Least(Least(k - num, Chunk), b)
  BY DEF Share
<1> HIDE DEF k, b
<1>5. /\ Least(Least(k - num, Chunk), b) \in Nat \ {0} /\ Least(Least(k - num, Chunk), b) <= b
      /\ Least(Least(k - num, Chunk), b) <= k - num
  BY <1>1, <1>2, <1>3 DEF Least
<1> HIDE DEF k, b
<1>6. Share(d, q, r, num) \in Nat \ {0} /\ Share(d, q, r, num) <= b /\ Share(d, q, r, num) <= k - num
  BY <1>4, <1>5
<1> DEFINE n == Share(d, q, r, num)
<1>7. n \in Nat \ {0} /\ n <= b /\ n <= k - num
  BY <1>6
<1> HIDE DEF n
<1>8. num + n \in Nat /\ num + n <= k
  BY <1>1, <1>7
<1> QED BY <1>7, <1>8 DEF n, k, b

Kinds == {"new", "running", "resumed"}

NextScheduled(q, r, num, n, blocks, kind) ==
  [ScheduledAs(q, r, num, n, blocks, kind) EXCEPT !.next = @ + 1]

\* What a step of the plan does to the plan.
LEMMA ScheduledFields ==
  ASSUME NEW q \in Planners, NEW r \in Req, NEW num \in Nat, NEW n \in Nat \ {0}, n <= q.budget,
         NEW blocks \in Seq(Block), NEW kind \in Kinds,
         NEW q2, q2 = NextScheduled(q, r, num, n, blocks, kind)
  PROVE  /\ q2 \in Planners /\ q2.order = Append(q.order, r) /\ q2.next = q.next + 1
         /\ q2.stalled = q.stalled
         /\ \A o \in Req \ {r} : q2.plan[o] = q.plan[o]
         /\ q2.plan[r] # None /\ q2.plan[r].num = num /\ q2.plan[r].n = n /\ q2.plan[r].kind = kind
<1> DEFINE x == Planned(num, n, blocks, kind)
           order == Append(q.order, r)
           plan  == [q.plan EXCEPT ![r] = x]
<1>1. x \in Plans /\ x # None /\ x.num = num /\ x.n = n /\ x.kind = kind
  <2>1. x \in Plans /\ x.num = num /\ x.n = n /\ x.kind = kind
    BY DEF Plans, Planned, Kinds
  <2> HIDE DEF x
  <2> QED BY <2>1, RecordAssumption
<1>2. order \in Seq(Req)
  BY DEF Planners
<1> HIDE DEF x
<1>3. plan \in [Req -> Plans \cup {None}] /\ plan[r] = x /\ \A o \in Req \ {r} : plan[o] = q.plan[o]
  BY <1>1 DEF Planners
<1>4. q.next + 1 \in Nat \ {0} /\ q.budget - n \in Nat
  BY DEF Planners
<1>5. q2 = [q EXCEPT !.order = order, !.plan = plan, !.budget = q.budget - n, !.next = q.next + 1]
  BY DEF NextScheduled, ScheduledAs, Planners, x
<1> HIDE DEF order, plan
<1>6. /\ q2 \in Planners /\ q2.order = order /\ q2.next = q.next + 1 /\ q2.stalled = q.stalled
      /\ q2.plan = plan
  BY <1>2, <1>3, <1>4, <1>5 DEF Planners
<1> QED BY <1>1, <1>3, <1>6 DEF order

-----------------------------------------------------------------------------
(* The scheduler: a running request is planned.                            *)

\* A request added to the plan, and what stays of the scheduler.
PlansMore(d, q, e, q2, r) ==
  /\ r \in Req /\ q.plan[r] = None /\ q2.plan[r] # None
  /\ e.status[r] = "running" /\ e.out = d.out /\ d.status[r] \notin {"finished", "done"}
  /\ \A o \in Req \ {r} : q2.plan[o] = q.plan[o] /\ e.status[o] = d.status[o]
  /\ q2.plan[r].kind = IF d.status[r] = "waiting" THEN "new"
                       ELSE IF d.status[r] = "preempted" THEN "resumed" ELSE "running"

\* The scheduler with one request's num_computed_tokens moved.
WithNum(d, r, num) == [d EXCEPT !.num[r] = num]

LEMMA NumMoves ==
  ASSUME NEW d, IsScheduler(d), NEW r \in Req, NEW num \in Nat, NEW e, e = WithNum(d, r, num)
  PROVE  /\ IsScheduler(e) /\ e.status = d.status /\ e.running = d.running
         /\ e.preempted = d.preempted /\ e.out = d.out
         /\ e.num[r] = num /\ \A o \in Req \ {r} : e.num[o] = d.num[o]
BY DEF IsScheduler, WithNum

LEMMA PlanRunningKeeps ==
  ASSUME NEW d, NEW q, SchedInv(d), PlanInv(d, q), ~AllRunningPlanned(d, q), RunningFits(d, q),
         NEW next, next = PlanRunning(d, q)
  PROVE  /\ SchedInv(next.d) /\ PlanInv(next.d, next.p)
         /\ PlansMore(d, q, next.d, next.p, d.running[q.next])
<1> DEFINE r == d.running[q.next]
           num == d.num[r]
           n == Share(d, q, r, num)
           blocks == NewBlocks(d, r, num + n, d.table[r])
           a == Allocate(d, r, num + n, d.table[r])
           e == next.d
           q2 == next.p
<1>1. IsScheduler(d) /\ q \in Planners
  BY DEF SchedInv, PlanInv
<1>2. /\ d.running \in Seq(Req) /\ d.table \in [Req -> Seq(Block)] /\ d.num \in [Req -> Nat]
      /\ q.next \in Nat \ {0} /\ q.budget \in Nat
  BY <1>1 DEF IsScheduler, Planners
<1>3. Len(d.running) \in Nat /\ q.next \in 1 .. Len(d.running) /\ q.budget \in Nat \ {0}
  <2>1. Len(d.running) \in Nat
    BY <1>2, EntriesOf
  <2> QED BY <1>2, <2>1 DEF AllRunningPlanned
<1>4. r \in Req /\ r \in Entries(d.running) /\ d.status[r] = "running"
  <2>1. r \in Req /\ r \in Entries(d.running)
    BY <1>2, <1>3, EntriesOf DEF Entries
  <2> HIDE DEF r
  <2> QED BY <2>1 DEF SchedInv, QueueInv
<1>5. num \in Nat /\ d.table[r] \in Seq(Block)
  BY <1>2, <1>4
<1>6. q.order = SubSeq(d.running, 1, q.next - 1)
  BY DEF PlanInv
<1>7. q.next - 1 \in 0 .. Len(d.running) /\ q.next - 1 < Len(d.running) /\ (q.next - 1) + 1 = q.next
  BY <1>3
<1>8. r \notin Entries(q.order)
  <2> DEFINE k == q.next - 1
  <2>1. k \in 0 .. Len(d.running) /\ k < q.next
    BY <1>3
  <2> HIDE DEF k
  <2>2. Len(SubSeq(d.running, 1, k)) = k /\ \A i \in 1 .. k : SubSeq(d.running, 1, k)[i] = d.running[i]
    BY <1>2, <2>1, FirstEntries
  <2>3. Injective(d.running)
    BY DEF SchedInv, QueueInv
  <2>4. ASSUME NEW i \in 1 .. k PROVE d.running[i] # r
    BY <1>3, <2>1, <2>3 DEF Injective
  <2>5. r \notin Entries(SubSeq(d.running, 1, k))
    BY <2>2, <2>4 DEF Entries
  <2> QED BY <1>6, <2>5 DEF k
<1>9. q.plan[r] = None
  BY <1>4, <1>8 DEF PlanInv
<1> HIDE DEF r
<1>10. num < Len(Known(d, r))
  BY <1>4, <1>9 DEF PlanInv
<1>11. n \in Nat \ {0} /\ n <= q.budget /\ num + n \in Nat /\ num + n <= Len(Known(d, r))
  <2> HIDE DEF num
  <2> QED BY <1>1, <1>3, <1>4, <1>5, <1>10, ShareIs
<1>12. CanAllocate(d, r, num + n, d.table[r])
  BY DEF RunningFits, r
<1>13. /\ e = [a EXCEPT !.num[r] = @ + n]
       /\ q2 = NextScheduled(q, r, num, n, blocks, "running")
  BY Zenon DEF PlanRunning, NextScheduled, r
<1> HIDE DEF e, q2
<1>14. IsScheduler(a) /\ SameQueues(d, a)
  <2> HIDE DEF num, n
  <2> QED BY <1>1, <1>4, <1>5, <1>11, <1>12, AllocateFields
<1>15. blocks \in Seq(Block)
  <2> HIDE DEF num, n
  <2> QED BY <1>1, <1>4, <1>5, <1>11, <1>12, NewBlocksType
<1> HIDE DEF n, a, blocks
<1> DEFINE sum == num + n
<1>16. e = WithNum(a, r, sum)
  BY <1>13, <1>14 DEF SameQueues, WithNum
<1>16a. sum \in Nat /\ sum = num + n
  BY <1>11
<1> HIDE DEF num, sum
<1>17. /\ IsScheduler(e) /\ e.status = a.status /\ e.running = a.running
       /\ e.preempted = a.preempted /\ e.out = a.out
       /\ e.num[r] = sum /\ \A o \in Req \ {r} : e.num[o] = a.num[o]
  BY <1>4, <1>14, <1>16, <1>16a, NumMoves
<1>18. /\ e.status = d.status /\ e.running = d.running /\ e.preempted = d.preempted /\ e.out = d.out
       /\ e.num[r] = num + n /\ \A o \in Req \ {r} : e.num[o] = d.num[o]
  BY <1>14, <1>16a, <1>17 DEF SameQueues
<1>19. /\ q2 \in Planners /\ q2.order = Append(q.order, r) /\ q2.next = q.next + 1
       /\ \A o \in Req \ {r} : q2.plan[o] = q.plan[o]
       /\ q2.plan[r] # None /\ q2.plan[r].num = num /\ q2.plan[r].n = n /\ q2.plan[r].kind = "running"
  <2>1. "running" \in Kinds
    BY DEF Kinds
  <2> QED BY <1>1, <1>4, <1>5, <1>11, <1>13, <1>15, <2>1, ScheduledFields
<1>20. SchedInv(e)
  <2>1. QueueInv(e)
    BY <1>18 DEF SchedInv, QueueInv
  <2>2. ASSUME NEW o \in Req PROVE Known(e, o) = Known(d, o)
    BY <1>18 DEF Known
  <2>3. ProgressInv(e)
    <3>1. ASSUME NEW o \in Req PROVE e.num[o] <= Len(Known(e, o))
      BY <1>11, <1>18, <2>2 DEF SchedInv, ProgressInv
    <3> QED BY <1>18, <3>1 DEF SchedInv, ProgressInv
  <2> QED BY <1>17, <2>1, <2>3 DEF SchedInv
<1>21. PlanInv(e, q2)
  <2>1. q2.next <= Len(e.running) + 1
    BY <1>3, <1>18, <1>19
  <2>2. q2.order = SubSeq(e.running, 1, q2.next - 1)
    <3> DEFINE k == q.next - 1
    <3>1. k \in 0 .. Len(d.running) /\ k < Len(d.running) /\ k + 1 = q.next
      BY <1>7
    <3> HIDE DEF k
    <3>2. SubSeq(d.running, 1, k + 1) = Append(SubSeq(d.running, 1, k), d.running[k + 1])
      BY <1>2, <3>1, FirstEntries
    <3>3. q2.next - 1 = k + 1
      BY <1>3, <1>19, <3>1
    <3> QED BY <1>6, <1>18, <1>19, <3>1, <3>2, <3>3 DEF r, k
  <2>3. \A o \in Req : q2.plan[o] # None <=> o \in Entries(q2.order)
    <3>1. q.order \in Seq(Req)
      BY <1>1 DEF Planners
    <3>2. Entries(q2.order) = Entries(q.order) \cup {r}
      BY <1>4, <1>19, <3>1, EntriesOfAppend
    <3> QED BY <1>19, <3>2 DEF PlanInv
  <2>4. \A o \in Req : q2.plan[o] # None => q2.plan[o].num + q2.plan[o].n = e.num[o]
    BY <1>18, <1>19 DEF PlanInv
  <2>5. \A o \in Req : q2.plan[o] # None /\ q2.plan[o].kind = "new" =>
          e.preempted = <<>> /\ q2.next = Len(e.running) + 1
    <3> SUFFICES ASSUME NEW o \in Req, q2.plan[o] # None, q2.plan[o].kind = "new" PROVE FALSE
      OBVIOUS
    <3>1. o # r
      BY <1>19
    <3>2. q.plan[o] # None /\ q.plan[o].kind = "new"
      BY <1>19, <3>1
    <3>3. q.next = Len(d.running) + 1
      BY <3>2 DEF PlanInv
    <3> QED BY <1>3, <3>3
  <2>6. \A o \in Req : e.status[o] = "running" /\ q2.plan[o] = None =>
          e.num[o] < Len(Known(e, o))
    BY <1>18, <1>19 DEF PlanInv, Known
  <2> QED BY <1>19, <2>1, <2>2, <2>3, <2>4, <2>5, <2>6 DEF PlanInv
<1>22. PlansMore(d, q, e, q2, r)
  BY <1>4, <1>9, <1>18, <1>19 DEF PlansMore
<1> QED BY <1>20, <1>21, <1>22 DEF e, q2, r

-----------------------------------------------------------------------------
(* The scheduler: a request is preempted.                                  *)

LEMMA FrontIs ==
  ASSUME NEW T, NEW s \in Seq(T), Len(s) > 0
  PROVE  /\ Front(s) \in Seq(T) /\ Len(Front(s)) = Len(s) - 1 /\ Last(s) = s[Len(s)] /\ Last(s) \in T
         /\ \A i \in 1 .. Len(Front(s)) : Front(s)[i] = s[i]
         /\ Injective(s) => /\ Injective(Front(s)) /\ Last(s) \in Entries(s)
                            /\ Entries(Front(s)) = Entries(s) \ {Last(s)}
<1> DEFINE k == Len(s) - 1
<1>1. Len(s) \in Nat /\ k \in 0 .. Len(s) /\ k + 1 = Len(s) /\ \A i \in 1 .. Len(s) : s[i] \in T
  BY EntriesOf
<1>2. Front(s) = SubSeq(s, 1, k) /\ Last(s) = s[Len(s)]
  BY DEF Front, Last
<1> HIDE DEF k
<1>3. /\ SubSeq(s, 1, k) \in Seq(T) /\ Len(SubSeq(s, 1, k)) = k
      /\ \A i \in 1 .. k : SubSeq(s, 1, k)[i] = s[i]
  BY <1>1, FirstEntries
<1>4. Last(s) \in T
  BY <1>1, <1>2
<1>5. ASSUME Injective(s) PROVE /\ Injective(Front(s)) /\ Last(s) \in Entries(s)
                                /\ Entries(Front(s)) = Entries(s) \ {Last(s)}
  <2>1. Injective(Front(s))
    BY <1>1, <1>2, <1>3, <1>5 DEF Injective
  <2>2. Last(s) \in Entries(s)
    BY <1>1, <1>2 DEF Entries
  <2>3. ASSUME NEW i \in 1 .. k PROVE s[i] # Last(s) /\ s[i] \in Entries(s)
    BY <1>1, <1>2, <1>5 DEF Injective, Entries
  <2>4. Entries(Front(s)) \subseteq Entries(s) \ {Last(s)}
    BY <1>2, <1>3, <2>3 DEF Entries
  <2>5. Entries(s) \ {Last(s)} \subseteq Entries(Front(s))
    <3> SUFFICES ASSUME NEW i \in 1 .. Len(s), s[i] # Last(s) PROVE s[i] \in Entries(Front(s))
      BY DEF Entries
    <3>1. i \in 1 .. k
      BY <1>1, <1>2
    <3> QED BY <1>2, <1>3, <3>1 DEF Entries
  <2> QED BY <2>1, <2>2, <2>4, <2>5
<1> QED BY <1>1, <1>2, <1>3, <1>4, <1>5

LEMMA PrependIs ==
  ASSUME NEW T, NEW s \in Seq(T), NEW x \in T
  PROVE  /\ <<x>> \o s \in Seq(T) /\ Len(<<x>> \o s) = Len(s) + 1
         /\ Entries(<<x>> \o s) = Entries(s) \cup {x}
         /\ Injective(s) /\ x \notin Entries(s) => Injective(<<x>> \o s)
<1> DEFINE t == <<x>> \o s
<1>1. <<x>> \in Seq(T) /\ Len(<<x>>) = 1 /\ <<x>>[1] = x
  OBVIOUS
<1>2. /\ t \in Seq(T) /\ Len(t) = 1 + Len(s)
      /\ \A i \in 1 .. 1 + Len(s) : t[i] = IF i <= 1 THEN <<x>>[i] ELSE s[i - 1]
  BY <1>1, ConcatProperties
<1> HIDE DEF t
<1>3. Len(s) \in Nat
  BY EntriesOf
<1>4. t[1] = x /\ \A i \in 1 .. Len(s) : t[i + 1] = s[i]
  BY <1>1, <1>2, <1>3
<1>5. ASSUME NEW i \in 1 .. Len(t), i # 1
      PROVE  i - 1 \in 1 .. Len(s) /\ t[i] = s[i - 1] /\ t[i] \in Entries(s)
  <2>1. i - 1 \in 1 .. Len(s) /\ t[i] = s[i - 1]
    BY <1>2, <1>3, <1>5
  <2> QED BY <2>1 DEF Entries
<1>6. Entries(t) \subseteq Entries(s) \cup {x}
  <2> SUFFICES ASSUME NEW i \in 1 .. Len(t) PROVE t[i] \in Entries(s) \cup {x}
    BY DEF Entries
  <2> QED BY <1>4, <1>5
<1>7. Entries(s) \cup {x} \subseteq Entries(t)
  <2>1. 1 \in 1 .. Len(t) /\ \A i \in 1 .. Len(s) : i + 1 \in 1 .. Len(t)
    BY <1>2, <1>3
  <2> QED BY <1>4, <2>1 DEF Entries
<1>8. ASSUME Injective(s), x \notin Entries(s) PROVE Injective(t)
  <2> SUFFICES ASSUME NEW i \in 1 .. Len(t), NEW j \in 1 .. Len(t), t[i] = t[j] PROVE i = j
    BY DEF Injective
  <2>1. CASE i = 1 /\ j # 1
    BY <1>4, <1>5, <1>8, <2>1
  <2>2. CASE j = 1 /\ i # 1
    BY <1>4, <1>5, <1>8, <2>2
  <2>3. CASE i # 1 /\ j # 1
    <3>1. s[i - 1] = s[j - 1] /\ i - 1 \in 1 .. Len(s) /\ j - 1 \in 1 .. Len(s)
      BY <1>5, <2>3
    <3>2. i - 1 = j - 1
      BY <1>8, <3>1 DEF Injective
    <3> QED BY <3>2
  <2> QED BY <2>1, <2>2, <2>3
<1> QED BY <1>2, <1>3, <1>6, <1>7, <1>8 DEF t

\* A request back in the queue, without a place in the plan.
Preempted(d, e, r) ==
  /\ r \in Req /\ d.status[r] = "running" /\ e.status[r] = "preempted" /\ e.out = d.out
  /\ \A o \in Req \ {r} : e.status[o] = d.status[o]

LEMMA PlanPreemptionKeeps ==
  ASSUME NEW d, NEW q, SchedInv(d), PlanInv(d, q), ~AllRunningPlanned(d, q),
         NEW next, next = PlanPreemption(d, q)
  PROVE  /\ SchedInv(next.d) /\ PlanInv(next.d, next.p) /\ next.p.plan = q.plan
         /\ Preempted(d, next.d, Last(d.running)) /\ q.plan[Last(d.running)] = None
<1> DEFINE r == Last(d.running)
           a == FreeBlocks(d, r)
           e == next.d
           q2 == next.p
           front == Front(d.running)
           back == <<r>> \o d.preempted
           k == q.next - 1
<1>1. IsScheduler(d) /\ q \in Planners
  BY DEF SchedInv, PlanInv
<1>2. /\ d.running \in Seq(Req) /\ d.preempted \in Seq(Req) /\ q.next \in Nat \ {0}
      /\ Len(d.running) \in Nat
  BY <1>1, EntriesOf DEF IsScheduler, Planners
<1>3. Len(d.running) > 0 /\ q.next <= Len(d.running) /\ k \in 0 .. Len(d.running) - 1
  BY <1>2 DEF AllRunningPlanned
<1>4. /\ front \in Seq(Req) /\ Len(front) = Len(d.running) - 1 /\ r = d.running[Len(d.running)] /\ r \in Req
      /\ \A i \in 1 .. Len(front) : front[i] = d.running[i]
      /\ Injective(front) /\ r \in Entries(d.running)
      /\ Entries(front) = Entries(d.running) \ {r}
  <2>1. Injective(d.running)
    BY DEF SchedInv, QueueInv
  <2> QED BY <1>2, <1>3, <2>1, FrontIs
<1> HIDE DEF r, front
<1>5. d.status[r] = "running"
  BY <1>4 DEF SchedInv, QueueInv
<1>6. r \notin Entries(d.preempted)
  BY <1>4, <1>5 DEF SchedInv, QueueInv
<1>7. back \in Seq(Req) /\ Entries(back) = Entries(d.preempted) \cup {r} /\ Injective(back)
  BY <1>2, <1>4, <1>6, PrependIs DEF SchedInv, QueueInv
<1> HIDE DEF back
<1>8. IsScheduler(a) /\ SameQueues(d, a)
  BY <1>1, <1>4, FreeBlocksFields
<1>9. /\ e = [a EXCEPT !.status[r] = "preempted", !.num[r] = 0, !.running = front, !.preempted = back]
      /\ q2 = [q EXCEPT !.stalled = TRUE]
  BY <1>8 DEF PlanPreemption, SameQueues, r, front, back
<1> HIDE DEF a, e, q2
<1>10. /\ IsScheduler(e) /\ e.running = front /\ e.preempted = back /\ e.out = a.out
       /\ e.status[r] = "preempted" /\ \A o \in Req \ {r} : e.status[o] = a.status[o]
       /\ e.num[r] = 0 /\ \A o \in Req \ {r} : e.num[o] = a.num[o]
  <2>1. "preempted" \in Statuses
    BY DEF Statuses
  <2> QED BY <1>4, <1>7, <1>8, <1>9, <2>1 DEF IsScheduler
<1>11. /\ e.out = d.out /\ \A o \in Req \ {r} : e.status[o] = d.status[o] /\ e.num[o] = d.num[o]
  BY <1>8, <1>10 DEF SameQueues
<1>12. /\ q2 \in Planners /\ q2.order = q.order /\ q2.plan = q.plan /\ q2.next = q.next
  BY <1>1, <1>9 DEF Planners
<1>13. q.order = SubSeq(d.running, 1, k)
  BY DEF PlanInv
<1>14. q.order = SubSeq(front, 1, k)
  <2>1. k \in 0 .. Len(front) /\ k \in 0 .. Len(d.running)
    BY <1>2, <1>3, <1>4
  <2> HIDE DEF k
  <2>2. /\ SubSeq(front, 1, k) \in Seq(Req) /\ Len(SubSeq(front, 1, k)) = k
        /\ \A i \in 1 .. k : SubSeq(front, 1, k)[i] = front[i]
    BY <1>4, <2>1, FirstEntries
  <2>3. /\ SubSeq(d.running, 1, k) \in Seq(Req) /\ Len(SubSeq(d.running, 1, k)) = k
        /\ \A i \in 1 .. k : SubSeq(d.running, 1, k)[i] = d.running[i]
    BY <1>2, <2>1, FirstEntries
  <2>4. \A i \in 1 .. k : SubSeq(d.running, 1, k)[i] = SubSeq(front, 1, k)[i]
    BY <1>4, <2>1, <2>2, <2>3
  <2> QED BY <1>13, <2>2, <2>3, <2>4, SeqEqual
<1>15. q.plan[r] = None
  <2>1. k \in 0 .. Len(front)
    BY <1>3, <1>4
  <2> HIDE DEF k
  <2>2. Len(q.order) = k /\ \A i \in 1 .. k : q.order[i] = front[i]
    BY <1>4, <1>14, <2>1, FirstEntries
  <2>3. \A i \in 1 .. k : front[i] \in Entries(front)
    BY <1>4, <2>1 DEF Entries
  <2>4. Entries(q.order) \subseteq Entries(front)
    BY <2>2, <2>3 DEF Entries
  <2> QED BY <1>4, <2>4 DEF PlanInv
<1>16. SchedInv(e)
  <2>1. QueueInv(e)
    <3>1. Len(e.running) <= MaxSeqs
      <4>1. Len(d.running) <= MaxSeqs /\ MaxSeqs \in Nat
        BY BoundsAssumption DEF SchedInv, QueueInv
      <4> QED BY <1>2, <1>4, <1>10, <4>1
    <3>2. \A o \in Req : e.status[o] = "running" <=> o \in Entries(e.running)
      BY <1>4, <1>10, <1>11 DEF SchedInv, QueueInv
    <3>3. \A o \in Req : e.status[o] = "preempted" <=> o \in Entries(e.preempted)
      BY <1>7, <1>10, <1>11 DEF SchedInv, QueueInv
    <3> QED BY <1>4, <1>7, <1>10, <3>1, <3>2, <3>3 DEF QueueInv
  <2>2. ASSUME NEW o \in Req PROVE Known(e, o) = Known(d, o)
    BY <1>11 DEF Known
  <2>3. \A o \in Req : e.num[o] <= Len(Known(e, o))
    <3>1. Len(Known(d, r)) \in Nat
      BY <1>1, <1>4, KnownIs
    <3> QED BY <1>10, <1>11, <2>2, <3>1 DEF SchedInv, ProgressInv
  <2>4. ProgressInv(e)
    BY <1>5, <1>10, <1>11, <2>3 DEF SchedInv, ProgressInv
  <2> QED BY <1>10, <2>1, <2>4 DEF SchedInv
<1>17. PlanInv(e, q2)
  <2>1. q2.next <= Len(e.running) + 1
    BY <1>2, <1>3, <1>4, <1>10, <1>12
  <2>2. q2.order = SubSeq(e.running, 1, q2.next - 1)
    BY <1>10, <1>12, <1>14
  <2>3. \A o \in Req : q2.plan[o] # None <=> o \in Entries(q2.order)
    BY <1>12 DEF PlanInv
  <2>4. \A o \in Req : q2.plan[o] # None => q2.plan[o].num + q2.plan[o].n = e.num[o]
    BY <1>11, <1>12, <1>15 DEF PlanInv
  <2>5. ASSUME NEW o \in Req, q2.plan[o] # None, q2.plan[o].kind = "new" PROVE FALSE
    <3>1. q.next = Len(d.running) + 1
      BY <1>12, <2>5 DEF PlanInv
    <3> QED BY <1>2, <1>3, <3>1
  <2>6. \A o \in Req : e.status[o] = "running" /\ q2.plan[o] = None =>
          e.num[o] < Len(Known(e, o))
    BY <1>10, <1>11, <1>12 DEF PlanInv, Known
  <2> QED BY <1>12, <2>1, <2>2, <2>3, <2>4, <2>5, <2>6 DEF PlanInv
<1>18. Preempted(d, e, r)
  BY <1>4, <1>5, <1>10, <1>11 DEF Preempted
<1> QED BY <1>12, <1>15, <1>16, <1>17, <1>18 DEF e, q2, r

-----------------------------------------------------------------------------
(* The scheduler: requests move between the queues.                        *)

\* The scheduler with a request moved between its queues.
WithQueues(d, r, status, num, running, preempted) ==
  [d EXCEPT !.status[r] = status, !.num[r] = num, !.running = running, !.preempted = preempted]

LEMMA QueuesMove ==
  ASSUME NEW d, IsScheduler(d), NEW r \in Req, NEW status \in Statuses, NEW num \in Nat,
         NEW running \in Seq(Req), NEW preempted \in Seq(Req),
         NEW e, e = WithQueues(d, r, status, num, running, preempted)
  PROVE  /\ IsScheduler(e) /\ e.running = running /\ e.preempted = preempted /\ e.out = d.out
         /\ e.key = d.key
         /\ e.status[r] = status /\ \A o \in Req \ {r} : e.status[o] = d.status[o]
         /\ e.num[r] = num /\ \A o \in Req \ {r} : e.num[o] = d.num[o]
BY DEF IsScheduler, WithQueues

\* What PlanWaiting may be asked to schedule.
FromQueue(d, r) ==
  \/ d.preempted # <<>> /\ r = Head(d.preempted)
  \/ d.status[r] = "waiting" /\ d.preempted = <<>>

LEMMA FromQueueIs ==
  ASSUME NEW d, SchedInv(d), NEW r \in Req, FromQueue(d, r)
  PROVE  d.status[r] = "waiting" \/ (d.status[r] = "preempted" /\ d.preempted # <<>>)
<1> SUFFICES ASSUME d.preempted # <<>>, r = Head(d.preempted) PROVE d.status[r] = "preempted"
  BY DEF FromQueue
<1>1. d.preempted \in Seq(Req)
  BY DEF SchedInv, IsScheduler
<1>2. Len(d.preempted) \in Nat /\ Len(d.preempted) > 0
  BY <1>1, EmptySeq
<1>3. r = d.preempted[1] /\ 1 \in 1 .. Len(d.preempted)
  BY <1>1, <1>2
<1>4. r \in Entries(d.preempted)
  BY <1>3 DEF Entries
<1> QED BY <1>4 DEF SchedInv, QueueInv

LEMMA PlanWaitingKeeps ==
  ASSUME NEW d, NEW q, SchedInv(d), PlanInv(d, q), CanResume(d, q), NEW r \in Req,
         WaitingFits(d, q, r), FromQueue(d, r),
         NEW next, next = PlanWaiting(d, q, r)
  PROVE  /\ SchedInv(next.d) /\ PlanInv(next.d, next.p) /\ PlansMore(d, q, next.d, next.p, r)
<1> DEFINE hit == HitBlocks(d, r)
           num == Len(hit) * BlockSize
           n == Share(d, q, r, num)
           sum == num + n
           a == Allocate(d, r, sum, hit)
           kind == IF d.status[r] = "preempted" THEN "resumed" ELSE "new"
           e == next.d
           q2 == next.p
           running == Append(d.running, r)
           preempted == Without(d.preempted, {r})
           k == Len(d.running)
<1>1. IsScheduler(d) /\ q \in Planners
  BY DEF SchedInv, PlanInv
<1>2. /\ d.running \in Seq(Req) /\ d.preempted \in Seq(Req) /\ q.next \in Nat \ {0}
      /\ q.budget \in Nat /\ k \in Nat
  BY <1>1, EntriesOf DEF IsScheduler, Planners
<1>3. q.next = k + 1 /\ q.budget \in Nat \ {0}
  <2>1. q.next <= k + 1
    BY DEF PlanInv
  <2> QED BY <1>2, <2>1 DEF CanResume, AllRunningPlanned
<1>4. q.order = d.running
  <2>1. q.next - 1 = k
    BY <1>2, <1>3
  <2>2. SubSeq(d.running, 1, Len(d.running)) = d.running
    BY <1>2, SubSeqFull
  <2> QED BY <2>1, <2>2 DEF PlanInv
<1>5. d.status[r] \in {"waiting", "preempted"} /\ (d.status[r] = "preempted" => d.preempted # <<>>)
  BY FromQueueIs
<1>5a. d.status[r] = "waiting" => d.preempted = <<>>
  <2> SUFFICES ASSUME d.status[r] = "waiting", d.preempted # <<>>, r = Head(d.preempted) PROVE FALSE
    BY DEF FromQueue
  <2>1. Len(d.preempted) \in Nat /\ Len(d.preempted) > 0
    BY <1>2, EmptySeq
  <2>2. r = d.preempted[1] /\ 1 \in 1 .. Len(d.preempted)
    BY <1>2, <2>1
  <2>3. r \in Entries(d.preempted)
    BY <2>2 DEF Entries
  <2> QED BY <2>3 DEF SchedInv, QueueInv
<1>6. r \notin Entries(d.running) /\ q.plan[r] = None
  BY <1>4, <1>5 DEF SchedInv, QueueInv, PlanInv
<1>7. hit \in Seq(Block) /\ num \in Nat /\ num < Len(Known(d, r))
  BY <1>1, HitBlocksIs
<1> HIDE DEF num
<1>8. n \in Nat \ {0} /\ n <= q.budget /\ sum \in Nat /\ sum <= Len(Known(d, r))
  BY <1>1, <1>3, <1>7, ShareIs
<1>9. CanAllocate(d, r, sum, hit)
  BY DEF WaitingFits, num
<1> HIDE DEF sum, hit
<1>10. IsScheduler(a) /\ SameQueues(d, a) /\ a.table[r] \in Seq(Block)
  BY <1>1, <1>7, <1>8, <1>9, AllocateFields
<1>11. /\ running \in Seq(Req) /\ Entries(running) = Entries(d.running) \cup {r}
       /\ Len(running) = k + 1 /\ Injective(running)
  <2>1. Injective(d.running)
    BY DEF SchedInv, QueueInv
  <2> QED BY <1>2, <1>6, <2>1, EntriesOfAppend
<1>12. /\ preempted \in Seq(Req) /\ Injective(preempted)
       /\ \A x : x \in Entries(preempted) <=> x \in Entries(d.preempted) /\ x \notin {r}
  <2>1. Injective(d.preempted)
    BY DEF SchedInv, QueueInv
  <2> QED BY <1>2, <2>1, WithoutIs
<1>12a. d.preempted = <<>> => preempted = <<>>
  <2> SUFFICES ASSUME d.preempted = <<>> PROVE preempted = <<>>
    OBVIOUS
  <2>1. Entries(d.preempted) = {}
    BY <1>2, EntriesOf
  <2>2. Entries(preempted) = {}
    BY <1>12, <2>1
  <2> HIDE DEF preempted
  <2> QED BY <1>12, <2>2, EntriesOf
<1>13. /\ e = WithQueues(a, r, "running", sum, running, preempted)
       /\ q2 = NextScheduled(q, r, num, n, a.table[r], kind)
  BY <1>10 DEF PlanWaiting, NextScheduled, WithQueues, SameQueues, num, sum, hit
<1>14. kind \in Kinds /\ (kind = "new" <=> d.status[r] = "waiting")
  BY <1>5 DEF Kinds
<1> HIDE DEF e, q2, a, running, preempted, n, kind
<1>15. /\ IsScheduler(e) /\ e.running = running /\ e.preempted = preempted /\ e.out = d.out
       /\ e.status[r] = "running" /\ \A o \in Req \ {r} : e.status[o] = d.status[o]
       /\ e.num[r] = sum /\ \A o \in Req \ {r} : e.num[o] = d.num[o]
  <2>1. "running" \in Statuses
    BY DEF Statuses
  <2>2. /\ IsScheduler(e) /\ e.running = running /\ e.preempted = preempted /\ e.out = a.out
        /\ e.status[r] = "running" /\ \A o \in Req \ {r} : e.status[o] = a.status[o]
        /\ e.num[r] = sum /\ \A o \in Req \ {r} : e.num[o] = a.num[o]
    <3>1. IsScheduler(a) /\ sum \in Nat /\ running \in Seq(Req) /\ preempted \in Seq(Req)
      BY <1>8, <1>10, <1>11, <1>12
    <3>2. e = WithQueues(a, r, "running", sum, running, preempted)
      BY <1>13
    <3> QED BY SMTT(30), <2>1, <3>1, <3>2, QueuesMove
  <2> QED BY <1>10, <2>2 DEF SameQueues
<1>16. /\ q2 \in Planners /\ q2.order = Append(q.order, r) /\ q2.next = q.next + 1
       /\ \A o \in Req \ {r} : q2.plan[o] = q.plan[o]
       /\ q2.plan[r] # None /\ q2.plan[r].num = num /\ q2.plan[r].n = n /\ q2.plan[r].kind = kind
  <2> DEFINE blocks == a.table[r]
  <2>1. q2 = NextScheduled(q, r, num, n, blocks, kind)
    BY <1>13
  <2>2. num \in Nat /\ n \in Nat \ {0} /\ n <= q.budget /\ blocks \in Seq(Block)
    BY <1>7, <1>8, <1>10
  <2>3. kind \in Kinds /\ q \in Planners
    BY <1>1, <1>14
  <2> HIDE DEF blocks
  <2> QED BY SMTT(30), <2>1, <2>2, <2>3, ScheduledFields
<1>17. SchedInv(e)
  <2>1. QueueInv(e)
    <3>1. Len(e.running) <= MaxSeqs
      <4>1. k < MaxSeqs /\ MaxSeqs \in Nat
        BY BoundsAssumption DEF CanResume
      <4> QED BY <1>2, <1>11, <1>15, <4>1
    <3>2. \A o \in Req : e.status[o] = "running" <=> o \in Entries(e.running)
      BY <1>11, <1>15 DEF SchedInv, QueueInv
    <3>3. \A o \in Req : e.status[o] = "preempted" <=> o \in Entries(e.preempted)
      BY <1>12, <1>15 DEF SchedInv, QueueInv
    <3> QED BY <1>11, <1>12, <1>15, <3>1, <3>2, <3>3 DEF QueueInv
  <2>2. ASSUME NEW o \in Req PROVE Known(e, o) = Known(d, o)
    BY <1>15 DEF Known
  <2>3. \A o \in Req : e.num[o] <= Len(Known(e, o))
    BY <1>8, <1>15, <2>2 DEF SchedInv, ProgressInv
  <2>4. ProgressInv(e)
    BY <1>5, <1>15, <2>3 DEF SchedInv, ProgressInv
  <2> QED BY <1>15, <2>1, <2>4 DEF SchedInv
<1>18. PlanInv(e, q2)
  <2>0. Len(e.running) = k + 1 /\ q2.next = k + 2
    BY <1>2, <1>3, <1>11, <1>15, <1>16
  <2>1. q2.next <= Len(e.running) + 1
    BY <1>2, <2>0
  <2>2. q2.order = SubSeq(e.running, 1, q2.next - 1)
    <3>1. q2.next - 1 = Len(e.running)
      BY <1>2, <2>0
    <3>2. SubSeq(e.running, 1, Len(e.running)) = e.running
      BY <1>11, <1>15, SubSeqFull
    <3> QED BY <1>4, <1>15, <1>16, <3>1, <3>2 DEF running
  <2>3. \A o \in Req : q2.plan[o] # None <=> o \in Entries(q2.order)
    <3>1. Entries(q2.order) = Entries(q.order) \cup {r}
      BY <1>4, <1>11, <1>16 DEF running
    <3> QED BY <1>16, <3>1 DEF PlanInv
  <2>4. \A o \in Req : q2.plan[o] # None => q2.plan[o].num + q2.plan[o].n = e.num[o]
    BY <1>15, <1>16 DEF PlanInv, sum
  <2>5. \A o \in Req : q2.plan[o] # None /\ q2.plan[o].kind = "new" =>
          e.preempted = <<>> /\ q2.next = Len(e.running) + 1
    <3> SUFFICES ASSUME NEW o \in Req, q2.plan[o] # None, q2.plan[o].kind = "new"
                 PROVE  e.preempted = <<>> /\ q2.next = Len(e.running) + 1
      OBVIOUS
    <3>1. d.preempted = <<>>
      <4>1. CASE o = r
        BY <1>5a, <1>14, <1>16, <4>1
      <4>2. CASE o # r
        <5>1. q.plan[o] # None /\ q.plan[o].kind = "new"
          BY <1>16, <4>2
        <5> QED BY <5>1 DEF PlanInv
      <4> QED BY <4>1, <4>2
    <3> QED BY <1>2, <1>12a, <1>15, <2>0, <3>1
  <2>6. \A o \in Req : e.status[o] = "running" /\ q2.plan[o] = None =>
          e.num[o] < Len(Known(e, o))
    BY <1>15, <1>16 DEF PlanInv, Known
  <2> QED BY <1>16, <2>1, <2>2, <2>3, <2>4, <2>5, <2>6 DEF PlanInv
<1>19. PlansMore(d, q, e, q2, r)
  <2>1. kind = IF d.status[r] = "waiting" THEN "new"
               ELSE IF d.status[r] = "preempted" THEN "resumed" ELSE "running"
    BY <1>5 DEF kind
  <2> QED BY <1>5, <1>6, <1>15, <1>16, <2>1 DEF PlansMore
<1> QED BY <1>17, <1>18, <1>19 DEF e, q2

\* A request that stops.
LEMMA FinishFields ==
  ASSUME NEW d, IsScheduler(d), NEW r \in Req, NEW e, e = FinishRequest(d, r)
  PROVE  /\ IsScheduler(e) /\ e.key = d.key /\ e.out = d.out /\ e.num = d.num
         /\ e.status[r] = "finished" /\ \A o \in Req \ {r} : e.status[o] = d.status[o]
         /\ QueueInv(d) => QueueInv(e)
<1> DEFINE a == FreeBlocks(d, r)
           running == Without(d.running, {r})
           preempted == Without(d.preempted, {r})
<1>2. d.running \in Seq(Req) /\ d.preempted \in Seq(Req) /\ d.num[r] \in Nat
  BY DEF IsScheduler
<1>3. IsScheduler(a) /\ SameQueues(d, a) /\ a.key = d.key
  BY FreeBlocksFields
<1>4. /\ running \in Seq(Req) /\ Len(running) <= Len(d.running)
      /\ Injective(d.running) => Injective(running)
      /\ \A x : x \in Entries(running) <=> x \in Entries(d.running) /\ x \notin {r}
  BY <1>2, WithoutIs
<1>5. /\ preempted \in Seq(Req)
      /\ Injective(d.preempted) => Injective(preempted)
      /\ \A x : x \in Entries(preempted) <=> x \in Entries(d.preempted) /\ x \notin {r}
  BY <1>2, WithoutIs
<1>6. e = WithQueues(a, r, "finished", a.num[r], running, preempted)
  <2>1. a.running = d.running /\ a.preempted = d.preempted /\ a.num \in [Req -> Nat]
    BY <1>3 DEF SameQueues, IsScheduler
  <2>2. e = [a EXCEPT !.status[r] = "finished", !.running = running, !.preempted = preempted]
    BY <2>1 DEF FinishRequest
  <2> HIDE DEF a, running, preempted
  <2>3. [a EXCEPT !.status[r] = "finished", !.num[r] = a.num[r], !.running = running, !.preempted = preempted]
          = [a EXCEPT !.status[r] = "finished", !.running = running, !.preempted = preempted]
    <3>1. [a.num EXCEPT ![r] = a.num[r]] = a.num
      BY <2>1
    <3> QED BY <1>3, <3>1 DEF IsScheduler
  <2> QED BY <2>2, <2>3 DEF WithQueues
<1> HIDE DEF a, running, preempted
<1>7. /\ IsScheduler(e) /\ e.running = running /\ e.preempted = preempted /\ e.out = a.out /\ e.key = a.key
      /\ e.status[r] = "finished" /\ \A o \in Req \ {r} : e.status[o] = a.status[o]
      /\ e.num[r] = a.num[r] /\ \A o \in Req \ {r} : e.num[o] = a.num[o]
  <2>1. "finished" \in Statuses
    BY DEF Statuses
  <2>2. a.num[r] \in Nat
    BY <1>3 DEF IsScheduler
  <2>3. IsScheduler(a) /\ running \in Seq(Req) /\ preempted \in Seq(Req)
    BY <1>3, <1>4, <1>5
  <2> DEFINE num == a.num[r]
  <2>4. e = WithQueues(a, r, "finished", num, running, preempted)
    BY <1>6
  <2>5. num \in Nat /\ num = a.num[r]
    BY <2>2
  <2> HIDE DEF num
  <2>6. /\ IsScheduler(e) /\ e.running = running /\ e.preempted = preempted /\ e.out = a.out
        /\ e.key = a.key
        /\ e.status[r] = "finished" /\ \A o \in Req \ {r} : e.status[o] = a.status[o]
        /\ e.num[r] = num /\ \A o \in Req \ {r} : e.num[o] = a.num[o]
    BY <2>1, <2>3, <2>4, <2>5, QueuesMove
  <2> QED BY Zenon, <2>5, <2>6
<1>8. /\ e.out = d.out /\ e.num = d.num /\ \A o \in Req \ {r} : e.status[o] = d.status[o]
  <2>1. e.num = a.num
    <3>1. e.num \in [Req -> Nat] /\ a.num \in [Req -> Nat]
      BY <1>3, <1>7 DEF IsScheduler
    <3>2. \A o \in Req : e.num[o] = a.num[o]
      BY <1>7
    <3> QED BY <3>1, <3>2
  <2> QED BY <1>3, <1>7, <2>1 DEF SameQueues
<1>9. ASSUME QueueInv(d) PROVE QueueInv(e)
  <2>1. Len(e.running) <= MaxSeqs
    <3>1. Len(d.running) <= MaxSeqs /\ MaxSeqs \in Nat /\ Len(d.running) \in Nat /\ Len(running) \in Nat
      BY <1>2, <1>4, <1>9, BoundsAssumption, EntriesOf DEF QueueInv
    <3> QED BY <1>4, <1>7, <3>1
  <2>2. \A o \in Req : e.status[o] = "running" <=> o \in Entries(e.running)
    BY <1>4, <1>7, <1>8, <1>9 DEF QueueInv
  <2>3. \A o \in Req : e.status[o] = "preempted" <=> o \in Entries(e.preempted)
    BY <1>5, <1>7, <1>8, <1>9 DEF QueueInv
  <2> QED BY <1>4, <1>5, <1>7, <1>9, <2>1, <2>2, <2>3 DEF QueueInv
<1> QED BY <1>3, <1>7, <1>8, <1>9

LEMMA FinishKeeps ==
  ASSUME NEW d, SchedInv(d), NEW r \in Req, NEW e, e = FinishRequest(d, r)
  PROVE  SchedInv(e)
<1>1. /\ IsScheduler(e) /\ QueueInv(e) /\ e.out = d.out /\ e.num = d.num /\ e.status[r] = "finished"
      /\ \A o \in Req \ {r} : e.status[o] = d.status[o]
  BY FinishFields DEF SchedInv
<1>2. ProgressInv(e)
  BY <1>1 DEF SchedInv, ProgressInv, Known
<1> QED BY <1>1, <1>2 DEF SchedInv

-----------------------------------------------------------------------------
(* The scheduler: tokens are returned.                                     *)

\* The scheduler with one token more.
WithToken(d, r, token) == [d EXCEPT !.out[r] = Append(@, token)]

LEMMA TokenFields ==
  ASSUME NEW d, IsScheduler(d), NEW r \in Req, NEW token \in Tok, NEW e, e = WithToken(d, r, token)
  PROVE  /\ IsScheduler(e) /\ e.key = d.key /\ e.num = d.num /\ e.status = d.status
         /\ e.running = d.running /\ e.preempted = d.preempted
         /\ e.out[r] = Append(d.out[r], token) /\ \A o \in Req \ {r} : e.out[o] = d.out[o]
         /\ Len(e.out[r]) = Len(d.out[r]) + 1 /\ Len(d.out[r]) \in Nat
<1> DEFINE out == Append(d.out[r], token)
<1>1. out \in Seq(Tok) /\ Len(out) = Len(d.out[r]) + 1 /\ Len(d.out[r]) \in Nat
  BY EntriesOf, AppendProperties DEF IsScheduler
<1>2. e = [d EXCEPT !.out[r] = out]
  BY DEF WithToken
<1> HIDE DEF out
<1> DEFINE all == [d.out EXCEPT ![r] = out]
<1>2a. /\ all \in [Req -> Seq(Tok)] /\ all[r] = out /\ \A o \in Req \ {r} : all[o] = d.out[o]
  BY <1>1 DEF IsScheduler
<1>2b. e = [d EXCEPT !.out = all]
  BY <1>2
<1> HIDE DEF all
<1>2c. /\ IsScheduler(e) /\ e.key = d.key /\ e.num = d.num /\ e.status = d.status
       /\ e.running = d.running /\ e.preempted = d.preempted /\ e.out = all
  BY <1>2a, <1>2b DEF IsScheduler
<1>3. /\ IsScheduler(e) /\ e.key = d.key /\ e.num = d.num /\ e.status = d.status
      /\ e.running = d.running /\ e.preempted = d.preempted
      /\ e.out[r] = out /\ \A o \in Req \ {r} : e.out[o] = d.out[o]
  BY <1>2a, <1>2c
<1> QED BY <1>1, <1>3 DEF out

LEMMA ReturnTokensType ==
  ASSUME NEW d, IsScheduler(d), NEW r \in Req, NEW token \in Tok, NEW e, e = ReturnTokens(d, r, token)
  PROVE  IsScheduler(e) /\ e.key = d.key
<1> DEFINE got == WithToken(d, r, token)
<1>1. IsScheduler(got) /\ got.key = d.key
  BY TokenFields
<1>2. e = IF Len(got.out[r]) >= MaxOut THEN FinishRequest(got, r) ELSE got
  BY DEF ReturnTokens, WithToken
<1> HIDE DEF got
<1>3. CASE Len(got.out[r]) >= MaxOut
  <2>1. e = FinishRequest(got, r)
    BY <1>2, <1>3
  <2> QED BY <1>1, <2>1, FinishFields
<1>4. CASE ~(Len(got.out[r]) >= MaxOut)
  BY <1>1, <1>2, <1>4
<1> QED BY <1>3, <1>4

\* r, running in d, is answered token in e, which may finish it.
GetsToken(d, e, r, token) ==
  /\ SchedInv(e) /\ e.key = d.key /\ e.num = d.num
  /\ e.out[r] = Append(d.out[r], token)
  /\ e.status[r] = IF Len(d.out[r]) + 1 >= MaxOut THEN "finished" ELSE "running"
  /\ \A o \in Req \ {r} : e.out[o] = d.out[o] /\ e.status[o] = d.status[o]

LEMMA ReturnTokensIs ==
  ASSUME NEW d, SchedInv(d), NEW r \in Req, d.status[r] = "running", NEW token \in Tok,
         NEW e, e = ReturnTokens(d, r, token)
  PROVE  GetsToken(d, e, r, token)
<1> SUFFICES /\ SchedInv(e) /\ e.key = d.key /\ e.num = d.num
             /\ e.out[r] = Append(d.out[r], token)
             /\ e.status[r] = IF Len(d.out[r]) + 1 >= MaxOut THEN "finished" ELSE "running"
             /\ \A o \in Req \ {r} : e.out[o] = d.out[o] /\ e.status[o] = d.status[o]
  BY DEF GetsToken
<1> DEFINE got == WithToken(d, r, token)
<1>0. IsScheduler(d)
  BY DEF SchedInv
<1>1. /\ IsScheduler(got) /\ got.key = d.key /\ got.num = d.num /\ got.status = d.status
      /\ got.running = d.running /\ got.preempted = d.preempted
      /\ got.out[r] = Append(d.out[r], token) /\ \A o \in Req \ {r} : got.out[o] = d.out[o]
      /\ Len(got.out[r]) = Len(d.out[r]) + 1 /\ Len(d.out[r]) \in Nat
  BY <1>0, TokenFields
<1>2. e = IF Len(got.out[r]) >= MaxOut THEN FinishRequest(got, r) ELSE got
  BY DEF ReturnTokens, WithToken
<1> HIDE DEF got
<1>3. QueueInv(got)
  BY <1>1 DEF SchedInv, QueueInv
<1>4. Len(d.out[r]) < MaxOut /\ MaxOut \in Nat
  BY BoundsAssumption DEF SchedInv, ProgressInv
<1>5. ASSUME NEW o \in Req
      PROVE  got.num[o] <= Len(Known(got, o)) /\ Len(got.out[o]) <= MaxOut
  <2>1. /\ Len(Known(got, o)) = Len(Prompt[o]) + Len(got.out[o])
        /\ Len(Known(d, o)) = Len(Prompt[o]) + Len(d.out[o])
        /\ Len(Prompt[o]) \in Nat /\ Len(got.out[o]) \in Nat /\ Len(d.out[o]) \in Nat
        /\ d.num[o] \in Nat
    BY <1>0, <1>1, KnownIs DEF IsScheduler
  <2>2. d.num[o] <= Len(Known(d, o)) /\ Len(d.out[o]) <= MaxOut
    BY DEF SchedInv, ProgressInv
  <2>3. Len(got.out[o]) = Len(d.out[o]) \/ (o = r /\ Len(got.out[o]) = Len(d.out[o]) + 1)
    BY <1>1
  <2> DEFINE k == Len(Known(got, o))
             h == Len(Known(d, o))
             a == Len(Prompt[o])
             b == Len(d.out[o])
             c == Len(got.out[o])
             n == d.num[o]
  <2>4. /\ k = a + c /\ h = a + b /\ n <= h /\ b <= MaxOut /\ (c = b \/ (o = r /\ c = b + 1))
        /\ a \in Nat /\ b \in Nat /\ c \in Nat /\ n \in Nat /\ got.num[o] = n
        /\ (o = r => b < MaxOut)
    BY <1>1, <1>4, <2>1, <2>2, <2>3
  <2> HIDE DEF k, h, a, b, c, n
  <2>5. n <= k /\ c <= MaxOut
    BY <1>4, <2>4
  <2> QED BY <2>4, <2>5 DEF k, c
<1>6. CASE Len(got.out[r]) >= MaxOut
  <2>1. e = FinishRequest(got, r)
    BY <1>2, <1>6
  <2>2. /\ IsScheduler(e) /\ e.key = got.key /\ e.out = got.out /\ e.num = got.num
        /\ e.status[r] = "finished" /\ \A o \in Req \ {r} : e.status[o] = got.status[o]
        /\ QueueInv(got) => QueueInv(e)
    BY <1>1, <2>1, FinishFields
  <2>3. ProgressInv(e)
    <3> SUFFICES ASSUME NEW o \in Req
                 PROVE  /\ e.num[o] <= Len(Known(e, o)) /\ Len(e.out[o]) <= MaxOut
                        /\ e.status[o] \in {"waiting", "running", "preempted"} => Len(e.out[o]) < MaxOut
                        /\ e.status[o] = "waiting" => e.out[o] = <<>>
      BY DEF ProgressInv
    <3>1. e.num[o] <= Len(Known(e, o)) /\ Len(e.out[o]) <= MaxOut
      BY <1>5, <2>2 DEF Known
    <3>2. CASE o = r
      BY <2>2, <3>1, <3>2
    <3>3. CASE o # r
      BY <1>1, <2>2, <3>1, <3>3 DEF SchedInv, ProgressInv
    <3> QED BY <3>2, <3>3
  <2> QED BY <1>1, <1>3, <1>6, <2>2, <2>3 DEF SchedInv
<1>7. CASE ~(Len(got.out[r]) >= MaxOut)
  <2>1. e = got
    BY <1>2, <1>7
  <2>2. Len(got.out[r]) < MaxOut
    BY <1>1, <1>4, <1>7
  <2>3. ProgressInv(e)
    <3> SUFFICES ASSUME NEW o \in Req
                 PROVE  /\ e.num[o] <= Len(Known(e, o)) /\ Len(e.out[o]) <= MaxOut
                        /\ e.status[o] \in {"waiting", "running", "preempted"} => Len(e.out[o]) < MaxOut
                        /\ e.status[o] = "waiting" => e.out[o] = <<>>
      BY DEF ProgressInv
    <3>1. e.num[o] <= Len(Known(e, o)) /\ Len(e.out[o]) <= MaxOut
      BY <1>5, <2>1 DEF Known
    <3>2. CASE o = r
      BY <1>1, <2>1, <2>2, <3>1, <3>2
    <3>3. CASE o # r
      BY <1>1, <2>1, <3>1, <3>3 DEF SchedInv, ProgressInv
    <3> QED BY <3>2, <3>3
  <2> QED BY <1>1, <1>3, <1>7, <2>1, <2>3 DEF SchedInv
<1> QED BY <1>6, <1>7

\* What returning the tokens of the requests in D leaves.
Returned(d, e, D, token) ==
  /\ SchedInv(e) /\ e.key = d.key /\ e.num = d.num
  /\ \A o \in Req : e.out[o] = IF o \in D THEN Append(d.out[o], token[o]) ELSE d.out[o]
  /\ \A o \in Req : e.status[o] = IF o \in D /\ Len(d.out[o]) + 1 >= MaxOut
                                  THEN "finished" ELSE d.status[o]

LEMMA ReturnedMore ==
  ASSUME NEW d, NEW e, NEW D, NEW r \in Req, NEW token, token[r] \in Tok, Returned(d, e, D, token),
         r \notin D, d.status[r] = "running", NEW f, f = ReturnTokens(e, r, token[r])
  PROVE  Returned(d, f, D \cup {r}, token)
<1>1. SchedInv(e) /\ e.status[r] = "running" /\ e.out[r] = d.out[r] /\ e.key = d.key /\ e.num = d.num
  BY DEF Returned
<1>2. /\ SchedInv(f) /\ f.key = e.key /\ f.num = e.num
      /\ f.out[r] = Append(e.out[r], token[r])
      /\ f.status[r] = IF Len(e.out[r]) + 1 >= MaxOut THEN "finished" ELSE "running"
      /\ \A o \in Req \ {r} : f.out[o] = e.out[o] /\ f.status[o] = e.status[o]
  <2> DEFINE t == token[r]
  <2>1. t \in Tok /\ f = ReturnTokens(e, r, t)
    OBVIOUS
  <2> HIDE DEF t
  <2>2. GetsToken(e, f, r, t)
    BY <1>1, <2>1, ReturnTokensIs
  <2>3. t = token[r]
    BY DEF t
  <2> QED BY Zenon, <2>2, <2>3 DEF GetsToken
<1>3. ASSUME NEW o \in Req
      PROVE  /\ f.out[o] = IF o \in D \cup {r} THEN Append(d.out[o], token[o]) ELSE d.out[o]
             /\ f.status[o] = IF o \in D \cup {r} /\ Len(d.out[o]) + 1 >= MaxOut
                              THEN "finished" ELSE d.status[o]
  <2>1. CASE o = r
    BY <1>1, <1>2, <2>1
  <2>2. CASE o # r
    BY <1>2, <2>2 DEF Returned
  <2> QED BY <2>1, <2>2
<1> QED BY <1>1, <1>2, <1>3 DEF Returned

LEMMA ReturnAllIs ==
  ASSUME NEW d, SchedInv(d), NEW order \in Seq(Req), Injective(order),
         \A r \in Entries(order) : d.status[r] = "running",
         NEW D \in SUBSET Entries(order), NEW token \in [D -> Tok],
         NEW e, e = ReturnAll(d, order, token)
  PROVE  Returned(d, e, D, token)
<1> DEFINE N    == Len(order)
           V    == {x \in [status : [Req -> Statuses], running : Seq(Req), preempted : Seq(Req),
                           out : [Req -> Seq(Tok)], num : [Req -> Nat], table : [Req -> Seq(Block)],
                           free : Seq(Block), key : {d.key}] : TRUE}
           got(n, x) == IF order[n] \in D THEN ReturnTokens(x, order[n], token[order[n]]) ELSE x
           next == [a \in (1 .. N) \X V |-> got(a[1], a[2])]
           IsAfter(g) == g = [n \in 0 .. N |-> IF n = 0 THEN d
                                ELSE IF order[n] \in DOMAIN token
                                THEN ReturnTokens(g[n - 1], order[n], token[order[n]])
                                ELSE g[n - 1]]
           after == CHOOSE g : IsAfter(g)
<1>1. N \in Nat /\ \A n \in 1 .. N : order[n] \in Req
  BY EntriesOf
<1>2. \A x : x \in V <=> IsScheduler(x) /\ x.key = d.key
  BY DEF IsScheduler
<1> HIDE DEF V
<1>3. d \in V
  BY <1>2 DEF SchedInv
<1>4. ASSUME NEW n \in 1 .. N, NEW x \in V PROVE got(n, x) \in V
  <2>1. CASE order[n] \in D
    <3> DEFINE r == order[n]
               t == token[r]
    <3>1. r \in Req /\ t \in Tok /\ got(n, x) = ReturnTokens(x, r, t)
      BY <1>1, <2>1
    <3> HIDE DEF got, r, t
    <3>2. IsScheduler(x) /\ x.key = d.key
      BY <1>2
    <3>3. IsScheduler(got(n, x)) /\ got(n, x).key = x.key
      BY <3>1, <3>2, ReturnTokensType
    <3> QED BY <1>2, <3>2, <3>3
  <2>2. CASE order[n] \notin D
    BY <2>2
  <2> QED BY <2>1, <2>2
<1> HIDE DEF got
<1>5. \A n \in 1 .. N, x \in V : next[<<n, x>>] = got(n, x)
  OBVIOUS
<1>6. \A n \in 1 .. N, x \in V : next[<<n, x>>] \in V
  <2> TAKE n \in 1 .. N, x \in V
  <2>1. next[<<n, x>>] = got(n, x)
    BY <1>5
  <2>2. got(n, x) \in V
    BY <1>4
  <2> QED BY <2>1, <2>2
<1> HIDE DEF next
<1>7. PICK h : Recurs(h, N, V, d, next)
  <2> HIDE DEF N
  <2> QED BY <1>1, <1>3, <1>6, RecursionExists
<1>8. h \in [0 .. N -> V] /\ h[0] = d /\ \A n \in 1 .. N : h[n] = next[<<n, h[n - 1]>>]
  BY <1>7 DEF Recurs
<1>9. IsAfter(h)
  <2>1. \A n \in 0 .. N : h[n] = IF n = 0 THEN d
                                ELSE IF order[n] \in DOMAIN token
                                THEN ReturnTokens(h[n - 1], order[n], token[order[n]])
                                ELSE h[n - 1]
    <3> TAKE n \in 0 .. N
    <3>1. n # 0 => n \in 1 .. N /\ n - 1 \in 0 .. N
      BY <1>1
    <3>2. n # 0 => h[n] = got(n, h[n - 1])
      BY <1>5, <1>8, <3>1
    <3> QED BY <1>8, <3>2 DEF got
  <2>2. h = [n \in 0 .. N |-> h[n]]
    BY <1>8
  <2> QED BY <2>1, <2>2
<1>10. IsAfter(after)
  <2> HIDE DEF IsAfter
  <2> QED BY <1>9
<1>11. after[0] = d /\ \A n \in 1 .. N : after[n] = got(n, after[n - 1])
  <2> HIDE DEF after
  <2>1. \A n \in 0 .. N : after[n] = IF n = 0 THEN d
                                ELSE IF order[n] \in DOMAIN token
                                THEN ReturnTokens(after[n - 1], order[n], token[order[n]])
                                ELSE after[n - 1]
    BY <1>10
  <2>2. after[0] = d
    BY <1>1, <2>1
  <2>3. \A n \in 1 .. N : after[n] = IF order[n] \in DOMAIN token
                                THEN ReturnTokens(after[n - 1], order[n], token[order[n]])
                                ELSE after[n - 1]
    BY <1>1, <2>1
  <2> QED BY <2>2, <2>3 DEF got
<1>12. e = after[N]
  BY DEF ReturnAll
<1> HIDE DEF after
<1> DEFINE Done(n) == {x \in D : \E i \in 1 .. n : order[i] = x}
           Good(n) == Returned(d, after[n], Done(n), token)
           I == {n \in Nat : n <= N => Good(n)}
<1>13. 0 \in I
  <2>1. Done(0) = {}
    OBVIOUS
  <2>2. Returned(d, d, {}, token)
    BY DEF Returned
  <2> QED BY <1>11, <2>1, <2>2
<1>14. ASSUME NEW n \in Nat, n \in I PROVE n + 1 \in I
  <2> SUFFICES ASSUME n + 1 <= N PROVE Good(n + 1)
    OBVIOUS
  <2> DEFINE k == n + 1
  <2>1. k \in 1 .. N /\ k - 1 = n /\ n <= N /\ k \in Nat
    BY <1>1
  <2>2. (\A i : i \in 1 .. k <=> i \in 1 .. n \/ i = k) /\ k \notin 1 .. n
    OBVIOUS
  <2> HIDE DEF k
  <2>3. Good(n)
    BY <1>14, <2>1
  <2>4. after[k] = got(k, after[n]) /\ order[k] \in Req
    BY <1>1, <1>11, <2>1
  <2>5. Good(k)
    <3>1. CASE order[k] \in D
      <4> DEFINE r == order[k]
      <4>1. after[k] = ReturnTokens(after[n], r, token[r]) /\ r \in Req /\ token[r] \in Tok
        BY <2>4, <3>1 DEF got
      <4>2. r \notin Done(n)
        <5> SUFFICES ASSUME NEW i \in 1 .. n, order[i] = order[k] PROVE FALSE
          OBVIOUS
        <5>1. i \in 1 .. N /\ i # k
          BY <1>1, <2>1, <2>2
        <5> QED BY <2>1, <5>1 DEF Injective
      <4>3. d.status[r] = "running"
        BY <3>1
      <4>4. Done(k) = Done(n) \cup {r}
        BY <2>2, <3>1
      <4> HIDE DEF r, Done
      <4>5. Returned(d, after[n], Done(n), token)
        BY <2>3
      <4>6. Returned(d, after[k], Done(n) \cup {r}, token)
        <5> DEFINE x == after[n]
                   y == after[k]
                   S == Done(n)
        <5>1. Returned(d, x, S, token) /\ y = ReturnTokens(x, r, token[r]) /\ r \notin S
          BY <4>1, <4>2, <4>5
        <5> HIDE DEF x, y, S
        <5>2. Returned(d, y, S \cup {r}, token)
          BY <4>1, <4>3, <5>1, ReturnedMore
        <5> QED BY <5>2 DEF y, S
      <4> QED BY <4>4, <4>6
    <3>2. CASE order[k] \notin D
      <4>1. after[k] = after[n]
        BY <2>4, <3>2 DEF got
      <4>2. Done(k) = Done(n)
        BY <2>2, <3>2
      <4> HIDE DEF Done
      <4> QED BY <2>3, <4>1, <4>2
    <3> QED BY <3>1, <3>2
  <2> QED BY <2>5 DEF k
<1>15. N \in I
  <2> HIDE DEF I
  <2>1. Nat \subseteq I
    BY <1>13, <1>14, NatSetInduction
  <2> QED BY <1>1, <2>1
<1>16. Good(N)
  BY <1>1, <1>15
<1>17. Done(N) = D
  BY DEF Entries
<1> HIDE DEF Done
<1> QED BY <1>12, <1>16, <1>17

-----------------------------------------------------------------------------
(* Running rows.                                                           *)

LEMMA GoesOn ==
  ASSUME NEW s \in Seq(Text), NEW t \in Seq(Text), Starts(t, s), NEW e \in Nat, Len(t) <= e, e <= Len(s)
  PROVE  /\ t \o SubSeq(s, Len(t) + 1, e) = SubSeq(s, 1, e)
         /\ SubSeq(s, 1, e) \in Seq(Text) /\ Len(SubSeq(s, 1, e)) = e /\ Starts(SubSeq(s, 1, e), s)
<1>1. Len(t) \in Nat /\ Len(s) \in Nat
  OBVIOUS
<1> DEFINE n == Len(t)
           front == SubSeq(s, 1, e)
           rest == SubSeq(s, n + 1, e)
<1>2. front \in Seq(Text) /\ Len(front) = e /\ \A i \in 1 .. e : front[i] = s[i]
  BY <1>1
<1>3. rest \in Seq(Text) /\ Len(rest) = e - n /\ \A i \in 1 .. (e - n) : rest[i] = s[n + i]
  BY <1>1
<1>4. \A i \in 1 .. n : t[i] = s[i]
  BY DEF Starts
<1>5. Starts(front, s)
  BY <1>2 DEF Starts
<1> DEFINE both == t \o rest
<1>6. both \in Seq(Text) /\ Len(both) = e
  BY <1>1, <1>3
<1>7. \A i \in 1 .. e : both[i] = s[i]
  <2> SUFFICES ASSUME NEW i \in 1 .. e PROVE both[i] = s[i]
    OBVIOUS
  <2>1. CASE i <= n
    <3>1. both[i] = t[i]
      BY <1>1, <1>3, <2>1
    <3> QED BY <1>1, <1>4, <2>1, <3>1
  <2>2. CASE i > n
    <3>1. both[i] = rest[i - n]
      BY <1>1, <1>3, <2>2
    <3>2. i - n \in 1 .. (e - n) /\ n + (i - n) = i
      BY <1>1, <2>2
    <3> HIDE DEF both, rest, n
    <3>3. rest[i - n] = s[n + (i - n)]
      BY <1>3, <3>2
    <3> QED BY <3>1, <3>2, <3>3
  <2> QED BY <1>1, <2>1, <2>2
<1> HIDE DEF both, front, rest
<1>8. both = front
  BY <1>2, <1>6, <1>7
<1> QED BY <1>2, <1>5, <1>8 DEF both, front, rest

\* The rows of R are on their slots, each with the start of its tokens, up to start, in its
\* cache, and are to run to end.
Ready(v, R, start, end, K) ==
  /\ R \subseteq Req
  /\ \A r \in R :
       /\ Cached(v, r) /\ v.active[SlotKey(v, r)].cache = v.req[r].cache
       /\ Len(v.kv.obj[v.req[r].cache].tokens) = start[r]
       /\ v.req[r].num + p.plan[r].n = end[r]
       /\ end[r] \in Nat /\ start[r] <= end[r] /\ end[r] <= Len(K[r])

\* x is v once they ran.
Ran(v, x, R, end, K) ==
  /\ x \in Workers
  /\ x.rc = v.rc /\ x.req = v.req /\ x.active = v.active /\ x.offload = v.offload
  /\ x.kv.owner = v.kv.owner /\ x.kv.dumps = v.kv.dumps
  /\ \A c \in Cache : x.kv.obj[c].row = v.kv.obj[c].row
  /\ \A r \in R : x.kv.obj[v.req[r].cache].tokens = SubSeq(K[r], 1, end[r])
  /\ \A c \in Cache : (\A r \in R : v.req[r].cache # c) => x.kv.obj[c] = v.kv.obj[c]

\* What running makes of the cache c.
Grown(v, start, R, c) ==
  IF \E r \in R : v.active[SlotKey(v, r)].cache = c
  THEN LET r == CHOOSE r \in R : v.active[SlotKey(v, r)].cache = c
       IN  Advance(v.kv, c, RowTokens(v, r, start[r])).obj[c]
  ELSE v.kv.obj[c]

LEMMA GrownIs ==
  ASSUME NEW K \in [Req -> Seq(Text)], NEW v, Sound(v, K), NEW R, NEW start, NEW end,
         Ready(v, R, start, end, K), NEW r \in R, NEW x, x = Grown(v, start, R, v.req[r].cache)
  PROVE  /\ x \in InUse /\ x.row = v.kv.obj[v.req[r].cache].row
         /\ x.tokens = SubSeq(K[r], 1, end[r])
<1> DEFINE c == v.req[r].cache
           runs(q) == v.active[SlotKey(v, q)].cache = c
           row == CHOOSE q \in R : runs(q)
           object == v.kv.obj[c]
           n == start[r]
           tokens == RowTokens(v, r, n)
<1>1. r \in Req /\ Cached(v, r) /\ runs(r)
  BY DEF Ready
<1>2. \A q \in R : runs(q) => q = r
  <2> SUFFICES ASSUME NEW q \in R, runs(q) PROVE q = r
    OBVIOUS
  <2>1. q \in Req /\ Cached(v, q) /\ v.req[q].cache = c
    BY DEF Ready
  <2> QED BY <1>1, <2>1 DEF Sound, Owned
<1>3. row = r
  <2> HIDE DEF runs
  <2>1. \E q \in R : runs(q)
    BY <1>1
  <2>2. row \in R /\ runs(row)
    BY SMTT(30), <2>1
  <2> QED BY <1>2, <2>2
<1>4. c \in Cache /\ object \in InUse
  BY <1>1, CachesInUse DEF Sound
<1>5. x = Advance(v.kv, c, tokens).obj[c]
  <2>1. \E q \in R : runs(q)
    BY <1>1
  <2> QED BY Zenon, <1>3, <2>1 DEF Grown
<1>6. v.kv \in Kvs
  BY DEF Sound, Workers
<1>7. x = [object EXCEPT !.tokens = object.tokens \o tokens]
  BY Zenon, <1>4, <1>5, <1>6 DEF Advance, Kvs
<1>8. Tokens(v, r) = K[r] /\ Starts(object.tokens, K[r])
  BY SMTT(30), <1>1 DEF Sound, Holds, Cached
<1>9. tokens = SubSeq(K[r], n + 1, end[r])
  BY <1>8 DEF RowTokens, Ready
<1>10. Len(object.tokens) = n /\ end[r] \in Nat /\ n <= end[r] /\ end[r] <= Len(K[r])
  BY DEF Ready
<1>11. object.tokens \in Seq(Text) /\ K[r] \in Seq(Text) /\ object.row \in Slot
  BY <1>1, <1>4 DEF InUse
<1> HIDE DEF object, tokens, n
<1>12. /\ object.tokens \o tokens = SubSeq(K[r], 1, end[r])
       /\ SubSeq(K[r], 1, end[r]) \in Seq(Text)
  BY <1>8, <1>9, <1>10, <1>11, GoesOn
<1>13. x.row = object.row /\ x.tokens = SubSeq(K[r], 1, end[r]) /\ x \in InUse
  BY <1>4, <1>7, <1>11, <1>12 DEF InUse
<1> QED BY <1>13 DEF object

LEMMA InferIs ==
  ASSUME NEW K \in [Req -> Seq(Text)], NEW v, Sound(v, K), NEW R, NEW start, NEW end,
         Ready(v, R, start, end, K), NEW x, x = Infer(v, start, R)
  PROVE  Ran(v, x, R, end, K)
<1> DEFINE obj == [c \in Cache |-> Grown(v, start, R, c)]
<1>1. v \in Workers /\ v.kv \in Kvs
  BY DEF Sound, Workers
<1>2. x = [v EXCEPT !.kv.obj = obj]
  BY DEF Infer, Grown
<1>3. \A r \in R : v.req[r].cache \in Cache /\ r \in Req /\ Cached(v, r)
  BY <1>1, WorkerIs DEF Ready
<1>4. \A r \in R : /\ obj[v.req[r].cache] \in InUse
                   /\ obj[v.req[r].cache].row = v.kv.obj[v.req[r].cache].row
                   /\ obj[v.req[r].cache].tokens = SubSeq(K[r], 1, end[r])
  <2> SUFFICES ASSUME NEW r \in R
               PROVE  /\ obj[v.req[r].cache] \in InUse
                      /\ obj[v.req[r].cache].row = v.kv.obj[v.req[r].cache].row
                      /\ obj[v.req[r].cache].tokens = SubSeq(K[r], 1, end[r])
    OBVIOUS
  <2> DEFINE y == Grown(v, start, R, v.req[r].cache)
  <2>1. obj[v.req[r].cache] = y
    BY <1>3
  <2>2. y = Grown(v, start, R, v.req[r].cache)
    OBVIOUS
  <2> HIDE DEF y, obj
  <2>3. /\ y \in InUse /\ y.row = v.kv.obj[v.req[r].cache].row
        /\ y.tokens = SubSeq(K[r], 1, end[r])
    BY <2>2, GrownIs
  <2> QED BY <2>1, <2>3
<1>5. \A c \in Cache : (\A r \in R : v.req[r].cache # c) => obj[c] = v.kv.obj[c]
  BY DEF Grown, Ready
<1>6. obj \in [Cache -> InUse \cup {Unused}]
  <2>1. \A c \in Cache : obj[c] \in InUse \cup {Unused}
    <3> SUFFICES ASSUME NEW c \in Cache PROVE obj[c] \in InUse \cup {Unused}
      OBVIOUS
    <3> HIDE DEF obj
    <3>1. CASE \E r \in R : v.req[r].cache = c
      BY <1>4, <3>1
    <3>2. CASE ~\E r \in R : v.req[r].cache = c
      BY <1>1, <1>5, <3>2 DEF Kvs
    <3> QED BY <3>1, <3>2
  <2> QED BY <2>1
<1> HIDE DEF obj
<1>7. \A c \in Cache : obj[c].row = v.kv.obj[c].row
  BY <1>4, <1>5
<1> DEFINE kv == [v.kv EXCEPT !.obj = obj]
<1>8. kv \in Kvs /\ kv.obj = obj /\ kv.owner = v.kv.owner /\ kv.dumps = v.kv.dumps
  BY <1>1, <1>6 DEF Kvs
<1>9. x = [v EXCEPT !.kv = kv]
  BY <1>2
<1> HIDE DEF kv
<1>10. /\ x \in Workers /\ x.kv = kv /\ x.rc = v.rc /\ x.req = v.req /\ x.active = v.active
       /\ x.offload = v.offload
  BY <1>1, <1>8, <1>9 DEF Workers
<1> QED BY <1>4, <1>5, <1>7, <1>8, <1>10 DEF Ran

\* y is x with the tokens of the rows of R counted.
Ends(x, y, R, end) ==
  /\ y \in Workers /\ y.rc = x.rc /\ y.kv = x.kv /\ y.active = x.active /\ y.offload = x.offload
  /\ \A o \in Req \ R : y.req[o] = x.req[o]
  /\ \A r \in R : /\ y.req[r] # None /\ y.req[r].num = end[r] /\ y.req[r].out = x.req[r].out
                  /\ y.req[r].slot = x.req[r].slot /\ y.req[r].cache = x.req[r].cache
                  /\ y.req[r].blocks = x.req[r].blocks /\ y.req[r].pos = x.req[r].pos

LEMMA RanKeeps ==
  ASSUME NEW K \in [Req -> Seq(Text)], NEW v, Sound(v, K), NEW R, NEW start, NEW end,
         Ready(v, R, start, end, K), NEW x, Ran(v, x, R, end, K), NEW y, Ends(x, y, R, end)
  PROVE  Sound(y, K)
<1>1. v \in Workers /\ RcOk(v.rc) /\ y \in Workers /\ y.rc = v.rc /\ x.req = v.req
  BY DEF Sound, Ends, Ran
<1>2. R \subseteq Req /\ \A r \in R : Cached(v, r) /\ end[r] \in Nat /\ end[r] <= Len(K[r])
  BY DEF Ready
<1>3. /\ \A o \in Req : v.req[o] # None <=> y.req[o] # None
      /\ \A o \in Req : y.req[o] # None =>
           /\ y.req[o].slot = v.req[o].slot /\ y.req[o].cache = v.req[o].cache
           /\ y.req[o].out = v.req[o].out
  <2> SUFFICES ASSUME NEW o \in Req
               PROVE  /\ v.req[o] # None <=> y.req[o] # None
                      /\ y.req[o] # None => /\ y.req[o].slot = v.req[o].slot
                                            /\ y.req[o].cache = v.req[o].cache
                                            /\ y.req[o].out = v.req[o].out
    OBVIOUS
  <2>1. CASE o \in R
    BY <1>1, <1>2, <2>1 DEF Ends, Cached
  <2>2. CASE o \notin R
    BY <1>1, <2>2 DEF Ends
  <2> QED BY <2>1, <2>2
<1>4. \A c \in Cache : y.kv.obj[c].row = v.kv.obj[c].row
  BY DEF Ends, Ran
<1>5. y.kv.owner = v.kv.owner
  BY SMTT(30) DEF Ends, Ran
<1>6. \A o \in Req : Stored(v, o) =>
        y.kv.obj[v.rc.snapshots[o].cache].tokens = v.kv.obj[v.rc.snapshots[o].cache].tokens
  <2> SUFFICES ASSUME NEW o \in Req, Stored(v, o)
               PROVE  y.kv.obj[v.rc.snapshots[o].cache].tokens = v.kv.obj[v.rc.snapshots[o].cache].tokens
    OBVIOUS
  <2>1. v.rc.snapshots[o].cache \in Cache
    BY <1>1, WorkerIs
  <2>2. \A r \in R : v.req[r].cache # v.rc.snapshots[o].cache
    BY <1>2 DEF Sound, Owned
  <2> QED BY SMTT(30), <2>1, <2>2 DEF Ends, Ran
<1>7. \A o \in Req : Starts(K[o], K[o])
  BY StartsItself
<1>8. Holds(y, K)
  <2> SUFFICES ASSUME NEW o \in Req, y.req[o] # None
               PROVE  /\ Tokens(y, o) = K[o] /\ y.req[o].num <= Len(K[o])
                      /\ y.req[o].cache # None => Starts(y.kv.obj[y.req[o].cache].tokens, K[o])
    BY DEF Holds
  <2>1. v.req[o] # None /\ y.req[o].cache = v.req[o].cache /\ y.req[o].out = v.req[o].out
    BY <1>3
  <2>2. /\ Tokens(v, o) = K[o] /\ v.req[o].num <= Len(K[o])
        /\ v.req[o].cache # None => Starts(v.kv.obj[v.req[o].cache].tokens, K[o])
    BY <2>1 DEF Sound, Holds
  <2>3. Tokens(y, o) = K[o]
    BY <2>1, <2>2 DEF Tokens
  <2>4. CASE o \in R
    <3>1. y.req[o].num = end[o] /\ end[o] \in Nat /\ end[o] <= Len(K[o])
      BY SMTT(30), <1>2, <2>4 DEF Ends
    <3>2. y.kv.obj[v.req[o].cache].tokens = SubSeq(K[o], 1, end[o])
      BY <2>4 DEF Ends, Ran
    <3> DEFINE front == SubSeq(K[o], 1, end[o])
    <3>3. Starts(front, K[o])
      <4>1. Len(front) = end[o] /\ \A i \in 1 .. end[o] : front[i] = K[o][i]
        BY SMTT(30), <3>1
      <4> HIDE DEF front
      <4> QED BY <3>1, <4>1 DEF Starts
    <3> HIDE DEF front
    <3>4. y.kv.obj[y.req[o].cache].tokens = front
      BY <2>1, <3>2 DEF front
    <3> QED BY <2>3, <3>1, <3>3, <3>4
  <2>5. CASE o \notin R
    <3>1. y.req[o] = v.req[o]
      BY <1>1, <2>5 DEF Ends
    <3>2. v.req[o].cache # None => y.kv.obj[v.req[o].cache] = v.kv.obj[v.req[o].cache]
      <4> SUFFICES ASSUME v.req[o].cache # None PROVE y.kv.obj[v.req[o].cache] = v.kv.obj[v.req[o].cache]
        OBVIOUS
      <4>1. Cached(v, o)
        BY <2>1 DEF Cached
      <4>2. \A r \in R : v.req[r].cache # v.req[o].cache
        BY <1>2, <2>5, <4>1 DEF Sound, Owned
      <4>3. v.req[o].cache \in Cache
        BY SMTT(30), <1>1, <4>1, WorkerIs
      <4> QED BY <4>2, <4>3 DEF Ends, Ran
    <3> QED BY <2>2, <2>3, <3>1, <3>2
  <2> QED BY <2>4, <2>5
<1>9. Evolves(v, y, K, K)
  <2>1. SameSlots(v.rc, y.rc) /\ y.rc.snapshots = v.rc.snapshots /\ y.rc.finished = v.rc.finished /\ RcOk(y.rc)
    BY <1>1 DEF SameSlots
  <2> QED BY <1>1, <1>3, <1>4, <1>5, <1>6, <1>7, <1>8, <2>1 DEF Evolves
<1> QED BY <1>9, EvolvesKeeps

\* v is x with a token more for the requests of D, of those in R.
Sampled(x, v, R, D, token) ==
  /\ v \in Workers /\ v.rc = x.rc /\ v.active = x.active /\ v.offload = x.offload
  /\ v.kv.obj = x.kv.obj /\ v.kv.owner = x.kv.owner /\ v.kv.dumps = {}
  /\ \A o \in Req \ R : v.req[o] = x.req[o]
  /\ \A r \in R : /\ x.req[r] # None /\ v.req[r] # None /\ v.req[r].num = x.req[r].num
                  /\ v.req[r].out = IF r \in D THEN Append(x.req[r].out, token[r]) ELSE x.req[r].out
                  /\ v.req[r].slot = x.req[r].slot /\ v.req[r].cache = x.req[r].cache
                  /\ v.req[r].blocks = x.req[r].blocks

\* L is K with a token more for the requests of D.
Longer(K, L, D, token) ==
  \A r \in Req : L[r] = IF r \in D THEN Append(K[r], token[r]) ELSE K[r]

LEMMA AppendLast ==
  ASSUME NEW q \in Seq(Text), NEW s \in Seq(Text), NEW t \in Text
  PROVE  q \o Append(s, t) = Append(q \o s, t)
<1> DEFINE a == q \o Append(s, t)
           b == Append(q \o s, t)
           n == Len(q) + Len(s)
<1>1. Len(q) \in Nat /\ Len(s) \in Nat
  OBVIOUS
<1>2. a \in Seq(Text) /\ Len(a) = n + 1
  BY <1>1
<1>3. b \in Seq(Text) /\ Len(b) = n + 1
  BY <1>1
<1>4. \A i \in 1 .. (n + 1) : a[i] = b[i]
  <2> SUFFICES ASSUME NEW i \in 1 .. (n + 1) PROVE a[i] = b[i]
    OBVIOUS
  <2>1. CASE i <= Len(q)
    <3>1. a[i] = q[i]
      BY <1>1, <2>1
    <3>2. b[i] = (q \o s)[i]
      BY <1>1, <2>1
    <3>3. (q \o s)[i] = q[i]
      BY <1>1, <2>1
    <3> QED BY <3>1, <3>2, <3>3
  <2>2. CASE Len(q) < i /\ i <= n
    <3>1. i - Len(q) \in 1 .. Len(s)
      BY <1>1, <2>2
    <3>2. a[i] = Append(s, t)[i - Len(q)]
      BY <1>1, <2>2
    <3>3. Append(s, t)[i - Len(q)] = s[i - Len(q)]
      BY <3>1
    <3>4. b[i] = (q \o s)[i]
      BY <1>1, <2>2
    <3>5. (q \o s)[i] = s[i - Len(q)]
      BY <1>1, <2>2
    <3> QED BY <3>2, <3>3, <3>4, <3>5
  <2>3. CASE i = n + 1
    <3>1. a[i] = Append(s, t)[Len(s) + 1]
      BY <1>1, <2>3
    <3>2. b[i] = t
      BY <1>1, <2>3
    <3> QED BY <3>1, <3>2
  <2> QED BY <1>1, <2>1, <2>2, <2>3
<1> HIDE DEF a, b, n
<1>5. a = b
  <2>1. Len(a) = Len(b) /\ \A i \in 1 .. Len(a) : a[i] = b[i]
    BY <1>2, <1>3, <1>4
  <2> QED BY <1>2, <1>3, <2>1, SeqEqual
<1> QED BY <1>5 DEF a, b

LEMMA SampledKeeps ==
  ASSUME NEW K \in [Req -> Seq(Text)], NEW L \in [Req -> Seq(Text)], NEW x, Sound(x, K),
         NEW R \in SUBSET Req, NEW D \in SUBSET R, NEW token \in [D -> Tok],
         NEW v, Sampled(x, v, R, D, token), Longer(K, L, D, token)
  PROVE  Sound(v, L)
<1>1. x \in Workers /\ RcOk(x.rc) /\ v \in Workers /\ v.rc = x.rc
  BY DEF Sound, Sampled
<1>2. \A r \in Req : Starts(K[r], L[r]) /\ Len(K[r]) <= Len(L[r])
  <2> SUFFICES ASSUME NEW r \in Req PROVE Starts(K[r], L[r]) /\ Len(K[r]) <= Len(L[r])
    OBVIOUS
  <2>1. CASE r \in D
    <3> DEFINE s == K[r]
               t == token[r]
               u == Append(s, t)
    <3>1. s \in Seq(Text) /\ t \in Text
      BY <2>1 DEF Text
    <3>2. Len(u) = Len(s) + 1 /\ Len(s) \in Nat /\ \A i \in 1 .. Len(s) : u[i] = s[i]
      BY <3>1
    <3>3. L[r] = u
      BY <2>1 DEF Longer
    <3> HIDE DEF u, s
    <3>4. Starts(s, u) /\ Len(s) <= Len(u)
      BY <3>2 DEF Starts
    <3> QED BY <3>3, <3>4 DEF s
  <2>2. CASE r \notin D
    <3>1. L[r] = K[r]
      BY <2>2 DEF Longer
    <3>2. Starts(K[r], K[r]) /\ Len(K[r]) <= Len(K[r])
      BY StartsItself
    <3> QED BY <3>1, <3>2
  <2> QED BY <2>1, <2>2
<1>3. \A o \in Req : x.req[o] # None <=> v.req[o] # None
  BY DEF Sampled
<1>4. \A o \in Req : v.req[o] # None =>
        /\ v.req[o].slot = x.req[o].slot /\ v.req[o].cache = x.req[o].cache /\ v.req[o].num = x.req[o].num
  BY DEF Sampled
<1>5. Holds(v, L)
  <2> SUFFICES ASSUME NEW o \in Req, v.req[o] # None
               PROVE  /\ Tokens(v, o) = L[o] /\ v.req[o].num <= Len(L[o])
                      /\ v.req[o].cache # None => Starts(v.kv.obj[v.req[o].cache].tokens, L[o])
    BY DEF Holds
  <2>1. x.req[o] # None /\ x.req[o].num \in Nat /\ x.req[o].out \in Seq(Tok)
    BY <1>1, <1>3, WorkerIs
  <2>2. /\ Tokens(x, o) = K[o] /\ x.req[o].num <= Len(K[o])
        /\ x.req[o].cache # None => Starts(x.kv.obj[x.req[o].cache].tokens, K[o])
    BY <2>1 DEF Sound, Holds
  <2>3. Tokens(v, o) = L[o]
    <3>1. CASE o \in D
      <4> DEFINE s == x.req[o].out
                 t == token[o]
      <4>1. v.req[o].out = Append(s, t) /\ L[o] = Append(K[o], t)
        BY <3>1 DEF Sampled, Longer
      <4>2. Prompt[o] \in Seq(Text) /\ s \in Seq(Text) /\ t \in Text
        BY <2>1, <3>1, PromptAssumption DEF Text
      <4> HIDE DEF s, t
      <4>3. Prompt[o] \o Append(s, t) = Append(Prompt[o] \o s, t)
        BY <4>2, AppendLast
      <4>4. Prompt[o] \o s = K[o]
        BY <2>2 DEF Tokens, s
      <4> QED BY <4>1, <4>3, <4>4 DEF Tokens
    <3>2. CASE o \notin D
      BY <2>2, <3>2 DEF Sampled, Longer, Tokens
    <3> QED BY <3>1, <3>2
  <2>4. v.req[o].num <= Len(L[o])
    <3>1. Len(K[o]) \in Nat /\ Len(L[o]) \in Nat
      OBVIOUS
    <3>2. Len(K[o]) <= Len(L[o]) /\ v.req[o].num = x.req[o].num
      BY SMTT(30), <1>2, <1>4
    <3> QED BY <2>1, <2>2, <3>1, <3>2
  <2>5. v.req[o].cache # None => Starts(v.kv.obj[v.req[o].cache].tokens, L[o])
    <3> SUFFICES ASSUME v.req[o].cache # None PROVE Starts(v.kv.obj[v.req[o].cache].tokens, L[o])
      OBVIOUS
    <3>1. Cached(x, o) /\ v.req[o].cache = x.req[o].cache
      BY SMTT(30), <1>4, <2>1 DEF Cached
    <3> DEFINE s == x.kv.obj[x.req[o].cache].tokens
               t == K[o]
               u == L[o]
    <3>2. Len(s) \in Nat
      BY SMTT(30), <3>1, CachesInUse DEF Sound
    <3>3. Len(t) \in Nat /\ Len(u) \in Nat
      OBVIOUS
    <3>4. Starts(s, t) /\ Starts(t, u)
      BY <1>2, <2>2, <3>1 DEF Cached
    <3> HIDE DEF s, t, u
    <3>5. Starts(s, u)
      BY <3>2, <3>3, <3>4, StartsTrans
    <3> QED BY <3>1, <3>5 DEF s, u, Sampled
  <2> QED BY <2>3, <2>4, <2>5
<1>6. Evolves(x, v, K, L)
  <2>1. SameSlots(x.rc, v.rc) /\ v.rc.snapshots = x.rc.snapshots /\ v.rc.finished = x.rc.finished
    BY <1>1 DEF SameSlots
  <2>2. v.kv.obj = x.kv.obj /\ v.kv.owner = x.kv.owner
    BY DEF Sampled
  <2> QED BY <1>1, <1>2, <1>3, <1>4, <1>5, <2>1, <2>2 DEF Evolves
<1> QED BY <1>6, EvolvesKeeps

\* A request's state with its tokens counted.
LEMMA CountIs ==
  ASSUME NEW x \in Workers, NEW r \in Req, x.req[r] # None, NEW num \in Nat,
         NEW state, state = [x.req[r] EXCEPT !.num = num]
  PROVE  /\ state \in RequestStates /\ state # None /\ state.num = num /\ state.out = x.req[r].out
         /\ state.slot = x.req[r].slot /\ state.cache = x.req[r].cache
         /\ state.blocks = x.req[r].blocks /\ state.pos = x.req[r].pos
<1>1. x.req[r] \in RequestStates
  BY WorkerIs
<1>2. /\ state \in RequestStates /\ state.num = num /\ state.out = x.req[r].out
      /\ state.slot = x.req[r].slot /\ state.cache = x.req[r].cache
      /\ state.blocks = x.req[r].blocks /\ state.pos = x.req[r].pos
  BY <1>1 DEF RequestStates
<1> QED BY <1>2, RecordAssumption

\* y is x with all rows of R counted at once.
CountsAll(x, y, R, end) ==
  y = [x EXCEPT !.req = [r \in Req |-> IF r \in R THEN [x.req[r] EXCEPT !.num = end[r]] ELSE x.req[r]]]

LEMMA CountsAllEnds ==
  ASSUME NEW x \in Workers, NEW R \in SUBSET Req, NEW end, NEW y, CountsAll(x, y, R, end),
         \A r \in R : x.req[r] # None /\ end[r] \in Nat
  PROVE  Ends(x, y, R, end)
<1> DEFINE req == [r \in Req |-> IF r \in R THEN [x.req[r] EXCEPT !.num = end[r]] ELSE x.req[r]]
<1>1. \A r \in R : /\ req[r] \in RequestStates /\ req[r] # None /\ req[r].num = end[r]
                   /\ req[r].out = x.req[r].out
                   /\ req[r].slot = x.req[r].slot /\ req[r].cache = x.req[r].cache
                   /\ req[r].blocks = x.req[r].blocks /\ req[r].pos = x.req[r].pos
  <2> SUFFICES ASSUME NEW r \in R
               PROVE  /\ req[r] \in RequestStates /\ req[r] # None /\ req[r].num = end[r]
                      /\ req[r].out = x.req[r].out
                      /\ req[r].slot = x.req[r].slot /\ req[r].cache = x.req[r].cache
                      /\ req[r].blocks = x.req[r].blocks /\ req[r].pos = x.req[r].pos
    OBVIOUS
  <2> DEFINE state == [x.req[r] EXCEPT !.num = end[r]]
             num == end[r]
  <2>1. r \in Req /\ x.req[r] # None /\ num \in Nat /\ state = [x.req[r] EXCEPT !.num = num]
    OBVIOUS
  <2>2. req[r] = state
    BY <2>1
  <2> HIDE DEF state, req, num
  <2>3. /\ state \in RequestStates /\ state # None /\ state.num = num /\ state.out = x.req[r].out
        /\ state.slot = x.req[r].slot /\ state.cache = x.req[r].cache
        /\ state.blocks = x.req[r].blocks /\ state.pos = x.req[r].pos
    BY <2>1, CountIs
  <2> QED BY <2>2, <2>3 DEF num
<1>2. \A o \in Req \ R : req[o] = x.req[o]
  OBVIOUS
<1>3. \A r \in Req : x.req[r] \in RequestStates \cup {None}
  BY WorkerIs
<1>4. DOMAIN req = Req /\ req = [r \in Req |-> req[r]]
  OBVIOUS
<1>5. y = [x EXCEPT !.req = req]
  BY DEF CountsAll
<1> HIDE DEF req
<1>6. req \in [Req -> RequestStates \cup {None}]
  BY <1>1, <1>2, <1>3, <1>4
<1>7. /\ y \in Workers /\ y.rc = x.rc /\ y.kv = x.kv /\ y.active = x.active /\ y.offload = x.offload
      /\ y.req = req
  BY <1>5, <1>6 DEF Workers
<1> QED BY <1>1, <1>2, <1>7 DEF Ends

\* y is x with the one row r counted.
CountsOne(x, y, r, num) == y = [x EXCEPT !.req[r].num = num]

LEMMA CountsOneEnds ==
  ASSUME NEW x \in Workers, NEW r \in Req, x.req[r] # None, NEW end, end[r] \in Nat,
         NEW y, CountsOne(x, y, r, end[r])
  PROVE  Ends(x, y, {r}, end)
<1> DEFINE num == end[r]
           state == [x.req[r] EXCEPT !.num = num]
           req == [x.req EXCEPT ![r] = state]
<1>1. num \in Nat /\ state = [x.req[r] EXCEPT !.num = num]
  OBVIOUS
<1>2. y = [x EXCEPT !.req = req]
  BY DEF CountsOne
<1>3. x.req \in [Req -> RequestStates \cup {None}]
  BY DEF Workers
<1> HIDE DEF num, state
<1>4. /\ state \in RequestStates /\ state # None /\ state.num = num /\ state.out = x.req[r].out
      /\ state.slot = x.req[r].slot /\ state.cache = x.req[r].cache
      /\ state.blocks = x.req[r].blocks /\ state.pos = x.req[r].pos
  BY <1>1, CountIs
<1>5. /\ req \in [Req -> RequestStates \cup {None}] /\ req[r] = state
      /\ \A o \in Req \ {r} : req[o] = x.req[o]
  BY <1>3, <1>4
<1> HIDE DEF req
<1>6. /\ y \in Workers /\ y.rc = x.rc /\ y.kv = x.kv /\ y.active = x.active /\ y.offload = x.offload
      /\ y.req = req
  BY <1>2, <1>5 DEF Workers
<1> QED BY <1>4, <1>5, <1>6 DEF Ends, num

-----------------------------------------------------------------------------
(* The inductive invariant.                                                *)

\* What is known of each request.
KnownTokens(d) == [r \in Req |-> Known(d, r)]

Steps ==
  [running : BOOLEAN, finished : SUBSET Req, new : Seq(Req), cached : Seq(Req), rows : Seq(Req),
   start : [Req -> Nat \cup {None}], logits : [Req -> Seq(Text)], warned : SUBSET Req]

\* r did not run yet in this step.
Silent(s, r) == s.logits[r] = <<>>

\* All requests of the step are finished, admitted or continued.
Handled(s) == s.finished = {} /\ s.new = <<>> /\ s.cached = <<>>

\* The worker has started r's row.
HasStarted(q, s, r) == r \in Entries(q.order) /\ r \notin Entries(s.rows)

\* r is scheduled for the first time, and the worker has not seen it.
IsNew(q, s, r) ==
  q.plan[r] # None /\ q.plan[r].kind = "new" /\ (~s.running \/ r \in Entries(s.new))

\* What is left of a step is of its plan.
StepInv(d, q, s) ==
  /\ s \in Steps
  /\ ~s.running => s = NoStep
  /\ s.running =>
       /\ \A r \in Req : d.status[r] # "finished"
       /\ \A r \in s.finished : d.status[r] = "done"
       /\ Injective(s.new) /\ Injective(s.rows)
       /\ \A r \in Entries(s.new) : q.plan[r] # None /\ q.plan[r].kind = "new"
       /\ \A r \in Entries(s.cached) : q.plan[r] # None /\ q.plan[r].kind # "new"
       /\ Entries(s.rows) \subseteq Entries(q.order)
       /\ ~Handled(s) => s.rows = q.order

\* Rows run when they are started, or in a batch when all are.
LogitsInv(q, s) ==
  s.running =>
    /\ \A r \in Req : ~HasStarted(q, s, r) => Silent(s, r)
    /\ ~Batch => \A r \in Req : HasStarted(q, s, r) => ~Silent(s, r)
    /\ Batch /\ ~(Handled(s) /\ s.rows = <<>>) => \A r \in Req : Silent(s, r)
    /\ (\A r \in Req : Silent(s, r)) \/ (Batch => \A r \in Entries(q.order) : ~Silent(s, r))

\* The worker has the requests the scheduler runs, but for those it is yet to admit.
LiveInv(d, q, s, v) ==
  /\ \A r \in Req : v.req[r] # None <=>
        \/ r \in s.finished
        \/ d.status[r] \in {"running", "preempted", "finished"} /\ ~IsNew(q, s, r)
  /\ \A r \in Req : d.status[r] = "waiting" \/ IsNew(q, s, r) =>
        ~Stored(v, r) /\ d.out[r] = <<>>

\* The row of r is on its slot, with the tokens it starts from.
Poised(s, v, r) ==
  /\ Cached(v, r)
  /\ v.active[SlotKey(v, r)] = [req |-> r, cache |-> v.req[r].cache]
  /\ v.kv.owner[SlotKey(v, r)] = v.req[r].cache
  /\ HeldTokens(v, r) = s.start[r] /\ s.start[r] <= v.req[r].num

\* r ran on all tokens up to n.
Finished(s, v, r, t, n) ==
  /\ v.req[r].num = n /\ s.logits[r] = SubSeq(t, 1, n)
  /\ Cached(v, r) /\ HeldTokens(v, r) = n

RowInv(d, q, s, v) ==
  s.running =>
    \A r \in Entries(q.order) : r \notin Entries(s.new) /\ r \notin Entries(s.cached) =>
      /\ Silent(s, r) => v.req[r].num = q.plan[r].num
      /\ ~Silent(s, r) => Finished(s, v, r, Known(d, r), d.num[r])
      /\ HasStarted(q, s, r) /\ Silent(s, r) => Poised(s, v, r)

\* But for rows that are to run, a cache has the KV of the tokens counted.
SettledInv(q, s, v) ==
  \A r \in Req : Cached(v, r) /\ (~s.running \/ r \notin Entries(q.order)) =>
     HeldTokens(v, r) = v.req[r].num

CachesInv(d, v) == Sound(v, KnownTokens(d)) /\ Acting(v) /\ OwnerOk(v) /\ Tidy(v)

Inv(d, q, s, v) ==
  /\ SchedInv(d) /\ PlanInv(d, q) /\ StepInv(d, q, s) /\ LogitsInv(q, s)
  /\ CachesInv(d, v) /\ LiveInv(d, q, s, v) /\ RowInv(d, q, s, v) /\ SettledInv(q, s, v)

LEMMA KnownTokensIs ==
  ASSUME NEW d, IsScheduler(d)
  PROVE  /\ IsText(KnownTokens(d)) /\ KnownTokens(d) \in [Req -> Seq(Text)]
         /\ \A r \in Req : KnownTokens(d)[r] = Known(d, r)
<1>1. \A r \in Req : KnownTokens(d)[r] = Known(d, r)
  BY DEF KnownTokens
<1>2. KnownTokens(d) \in [Req -> Seq(Text)]
  BY KnownIs DEF KnownTokens
<1>3. ASSUME NEW r \in Req
      PROVE  /\ Len(Prompt[r]) <= Len(Known(d, r))
             /\ \A i \in 1 .. Len(Known(d, r)) :
                  IF i <= Len(Prompt[r]) THEN Known(d, r)[i] = Prompt[r][i] ELSE Known(d, r)[i] \notin Images
  <2> DEFINE s == Prompt[r]
             t == d.out[r]
  <2>1. s \in Seq(Text) /\ t \in Seq(Tok)
    BY PromptAssumption DEF Text, IsScheduler
  <2>2. Len(s) \in Nat /\ Len(t) \in Nat /\ t \in Seq(Text)
    BY <2>1 DEF Text
  <2>3. \A j \in 1 .. Len(t) : t[j] \in Tok
    BY <2>1
  <2>4. \A j \in 1 .. Len(t) : t[j] \notin Images
    BY <2>3, WorkerAssumption
  <2> HIDE DEF s, t
  <2>5. Len(s \o t) = Len(s) + Len(t)
    BY <2>1, <2>2
  <2>6. \A i \in 1 .. Len(s \o t) : IF i <= Len(s) THEN (s \o t)[i] = s[i] ELSE (s \o t)[i] \notin Images
    <3> SUFFICES ASSUME NEW i \in 1 .. Len(s \o t)
                 PROVE  IF i <= Len(s) THEN (s \o t)[i] = s[i] ELSE (s \o t)[i] \notin Images
      OBVIOUS
    <3>1. CASE i <= Len(s)
      BY <2>1, <2>2, <2>5, <3>1
    <3>2. CASE i > Len(s)
      <4>1. i - Len(s) \in 1 .. Len(t) /\ (s \o t)[i] = t[i - Len(s)]
        BY <2>1, <2>2, <2>5, <3>2
      <4>2. t[i - Len(s)] \notin Images
        BY <2>4, <4>1
      <4> QED BY <2>2, <3>2, <4>1, <4>2
    <3> QED BY <2>2, <2>5, <3>1, <3>2
  <2>7. Len(s) <= Len(s \o t)
    BY <2>2, <2>5
  <2> QED BY <2>6, <2>7 DEF Known, s, t
<1> QED BY <1>1, <1>2, <1>3 DEF IsText

\* The text is the same as long as no token is returned.
LEMMA SameText ==
  ASSUME NEW d, NEW e, e.out = d.out
  PROVE  /\ KnownTokens(e) = KnownTokens(d) /\ \A r \in Req : Known(e, r) = Known(d, r)
<1>1. \A r \in Req : Known(e, r) = Known(d, r)
  BY DEF Known
<1> QED BY <1>1 DEF KnownTokens

-----------------------------------------------------------------------------
(* Planning.                                                               *)

\* What keeps the invariant while the worker waits.
LEMMA PlanningKeeps ==
  ASSUME NEW d, NEW q, NEW s, NEW v, Inv(d, q, s, v), ~s.running,
         NEW e, NEW q2, SchedInv(e), PlanInv(e, q2), e.out = d.out, LiveInv(e, q2, s, v)
  PROVE  Inv(e, q2, s, v)
<1>1. KnownTokens(e) = KnownTokens(d)
  BY SameText
<1>2. CachesInv(e, v)
  BY <1>1 DEF Inv, CachesInv
<1>3. StepInv(e, q2, s) /\ LogitsInv(q2, s) /\ RowInv(e, q2, s, v)
  BY DEF Inv, StepInv, LogitsInv, RowInv
<1>4. SettledInv(q2, s, v)
  BY DEF Inv, SettledInv
<1> QED BY <1>2, <1>3, <1>4 DEF Inv

LEMMA PlansMoreKeeps ==
  ASSUME NEW d, NEW q, NEW s, NEW v, Inv(d, q, s, v), ~s.running,
         NEW e, NEW q2, NEW r, SchedInv(e), PlanInv(e, q2), PlansMore(d, q, e, q2, r)
  PROVE  Inv(e, q2, s, v)
<1>1. r \in Req /\ d.status[r] \in Statuses
  BY DEF PlansMore, Inv, SchedInv, IsScheduler
<1>2. s.finished = {} /\ LiveInv(d, q, s, v)
  BY DEF Inv, StepInv, NoStep
<1>3. e.out = d.out
  BY DEF PlansMore
<1>4. LiveInv(e, q2, s, v)
  <2> SUFFICES ASSUME NEW o \in Req
               PROVE  /\ v.req[o] # None <=> \/ o \in s.finished
                                             \/ /\ e.status[o] \in {"running", "preempted", "finished"}
                                                /\ ~IsNew(q2, s, o)
                      /\ e.status[o] = "waiting" \/ IsNew(q2, s, o) => ~Stored(v, o) /\ e.out[o] = <<>>
    BY DEF LiveInv
  <2>1. CASE o # r
    <3>1. e.status[o] = d.status[o] /\ q2.plan[o] = q.plan[o]
      BY <2>1 DEF PlansMore
    <3>2. IsNew(q2, s, o) <=> IsNew(q, s, o)
      BY <3>1 DEF IsNew
    <3> QED BY <1>2, <1>3, <3>1, <3>2 DEF LiveInv
  <2>2. CASE o = r
    <3>1. ~IsNew(q, s, r) /\ e.status[r] = "running"
      BY DEF PlansMore, IsNew
    <3>2. d.status[r] \in {"waiting", "running", "preempted"}
      BY <1>1 DEF PlansMore, Statuses
    <3>3. IsNew(q2, s, r) <=> d.status[r] = "waiting"
      BY <3>2 DEF PlansMore, IsNew
    <3> QED BY <1>1, <1>2, <1>3, <2>2, <3>1, <3>2, <3>3 DEF LiveInv
  <2> QED BY <2>1, <2>2
<1> QED BY <1>3, <1>4, PlanningKeeps

LEMMA PreemptedKeeps ==
  ASSUME NEW d, NEW q, NEW s, NEW v, Inv(d, q, s, v), ~s.running,
         NEW e, NEW q2, NEW r, SchedInv(e), PlanInv(e, q2), Preempted(d, e, r), q2.plan = q.plan,
         q.plan[r] = None
  PROVE  Inv(e, q2, s, v)
<1>1. s.finished = {} /\ LiveInv(d, q, s, v)
  BY DEF Inv, StepInv, NoStep
<1>2. e.out = d.out
  BY DEF Preempted
<1>3. LiveInv(e, q2, s, v)
  <2> SUFFICES ASSUME NEW o \in Req
               PROVE  /\ v.req[o] # None <=> \/ o \in s.finished
                                             \/ /\ e.status[o] \in {"running", "preempted", "finished"}
                                                /\ ~IsNew(q2, s, o)
                      /\ e.status[o] = "waiting" \/ IsNew(q2, s, o) => ~Stored(v, o) /\ e.out[o] = <<>>
    BY DEF LiveInv
  <2>1. IsNew(q2, s, o) <=> IsNew(q, s, o)
    BY DEF IsNew
  <2>2. CASE o # r
    <3>1. e.status[o] = d.status[o]
      BY <2>2 DEF Preempted
    <3> QED BY <1>1, <1>2, <2>1, <3>1 DEF LiveInv
  <2>3. CASE o = r
    <3>1. ~IsNew(q, s, r) /\ e.status[r] = "preempted" /\ d.status[r] = "running"
      BY DEF Preempted, IsNew
    <3> QED BY <1>1, <2>1, <2>3, <3>1 DEF LiveInv
  <2> QED BY <2>2, <2>3
<1> QED BY <1>2, <1>3, PlanningKeeps

LEMMA NoPlanIs ==
  ASSUME NEW d, IsScheduler(d),
         \A r \in Req : d.status[r] = "running" => d.num[r] < Len(Known(d, r))
  PROVE  PlanInv(d, NoPlan)
<1>1. NoPlan \in Planners
  <2>1. TokenBudget \in Nat
    BY BoundsAssumption
  <2> QED BY <2>1 DEF NoPlan, Planners
<1>2. NoPlan.order = <<>> /\ NoPlan.next = 1 /\ \A r \in Req : NoPlan.plan[r] = None
  BY DEF NoPlan
<1>3. Len(d.running) \in Nat /\ d.running \in Seq(Req)
  BY DEF IsScheduler
<1>4. SubSeq(d.running, 1, 1 - 1) = <<>>
  BY <1>3
<1>5. Entries(NoPlan.order) = {}
  BY <1>2 DEF Entries
<1> HIDE DEF NoPlan
<1> QED BY <1>1, <1>2, <1>3, <1>4, <1>5 DEF PlanInv

LEMMA FinishedKeeps ==
  ASSUME NEW d, NEW s, NEW v, Inv(d, NoPlan, s, v), ~s.running,
         NEW r \in Req, d.status[r] \in {"running", "preempted"}, NEW e, e = FinishRequest(d, r)
  PROVE  Inv(e, NoPlan, s, v)
<1>1. SchedInv(d) /\ PlanInv(d, NoPlan) /\ IsScheduler(d)
  BY DEF Inv, SchedInv
<1>2. SchedInv(e)
  BY <1>1, FinishKeeps
<1>3. /\ IsScheduler(e) /\ e.out = d.out /\ e.num = d.num
      /\ e.status[r] = "finished" /\ \A o \in Req \ {r} : e.status[o] = d.status[o]
  BY <1>1, FinishFields
<1>4. \A o \in Req : Known(e, o) = Known(d, o)
  BY <1>3, SameText
<1>5. \A o \in Req : e.status[o] = "running" => e.num[o] < Len(Known(e, o))
  <2> SUFFICES ASSUME NEW o \in Req, e.status[o] = "running" PROVE e.num[o] < Len(Known(e, o))
    OBVIOUS
  <2>1. d.status[o] = "running"
    BY <1>3
  <2>2. NoPlan.plan[o] = None
    BY DEF NoPlan
  <2> QED BY <1>1, <1>3, <1>4, <2>1, <2>2 DEF PlanInv
<1>6. PlanInv(e, NoPlan)
  BY <1>3, <1>5, NoPlanIs
<1>7. s.finished = {} /\ LiveInv(d, NoPlan, s, v)
  BY DEF Inv, StepInv, NoStep
<1>8. \A o \in Req : ~IsNew(NoPlan, s, o)
  BY DEF IsNew, NoPlan
<1>9. LiveInv(e, NoPlan, s, v)
  <2> SUFFICES ASSUME NEW o \in Req
               PROVE  /\ v.req[o] # None <=> \/ o \in s.finished
                                             \/ /\ e.status[o] \in {"running", "preempted", "finished"}
                                                /\ ~IsNew(NoPlan, s, o)
                      /\ e.status[o] = "waiting" \/ IsNew(NoPlan, s, o) => ~Stored(v, o) /\ e.out[o] = <<>>
    BY DEF LiveInv
  <2>1. CASE o # r
    BY <1>3, <1>7, <2>1 DEF LiveInv
  <2>2. CASE o = r
    BY <1>3, <1>7, <1>8, <2>2 DEF LiveInv
  <2> QED BY <2>1, <2>2
<1> QED BY <1>2, <1>3, <1>6, <1>9, PlanningKeeps

LEMMA ScheduleRunningStep ==
  ASSUME Inv(sched, p, step, w), ScheduleRunning
  PROVE  Inv(sched', p', step', w')
<1> DEFINE next == PlanRunning(sched, p)
<1>1. SchedInv(sched) /\ PlanInv(sched, p)
  BY DEF Inv
<1>2. ~step.running /\ ~AllRunningPlanned(sched, p) /\ RunningFits(sched, p)
  BY DEF ScheduleRunning, Planning
<1>3. next = PlanRunning(sched, p)
  OBVIOUS
<1>4. sched' = next.d /\ p' = next.p /\ step' = step /\ w' = w
  BY DEF ScheduleRunning
<1> HIDE DEF next
<1>5. /\ SchedInv(next.d) /\ PlanInv(next.d, next.p)
      /\ PlansMore(sched, p, next.d, next.p, sched.running[p.next])
  BY <1>1, <1>2, <1>3, PlanRunningKeeps
<1>6. Inv(next.d, next.p, step, w)
  BY <1>2, <1>5, PlansMoreKeeps
<1> QED BY <1>4, <1>6

LEMMA PreemptLastStep ==
  ASSUME Inv(sched, p, step, w), PreemptLast
  PROVE  Inv(sched', p', step', w')
<1> DEFINE next == PlanPreemption(sched, p)
<1>1. SchedInv(sched) /\ PlanInv(sched, p)
  BY DEF Inv
<1>2. ~step.running /\ ~AllRunningPlanned(sched, p)
  BY DEF PreemptLast, Planning
<1>3. next = PlanPreemption(sched, p)
  OBVIOUS
<1>4. sched' = next.d /\ p' = next.p /\ step' = step /\ w' = w
  BY DEF PreemptLast
<1> HIDE DEF next
<1>5. /\ SchedInv(next.d) /\ PlanInv(next.d, next.p) /\ next.p.plan = p.plan
      /\ Preempted(sched, next.d, Last(sched.running)) /\ p.plan[Last(sched.running)] = None
  BY <1>1, <1>2, <1>3, PlanPreemptionKeeps
<1>6. Inv(next.d, next.p, step, w)
  BY <1>2, <1>5, PreemptedKeeps
<1> QED BY <1>4, <1>6

LEMMA ScheduleFromQueueStep ==
  ASSUME Inv(sched, p, step, w), NEW r \in Req, FromQueue(sched, r), ScheduleFromQueue(r)
  PROVE  Inv(sched', p', step', w')
<1> DEFINE next == PlanWaiting(sched, p, r)
<1>1. SchedInv(sched) /\ PlanInv(sched, p)
  BY DEF Inv
<1>2. ~step.running /\ CanResume(sched, p) /\ WaitingFits(sched, p, r)
  BY DEF ScheduleFromQueue, Planning
<1>3. next = PlanWaiting(sched, p, r)
  OBVIOUS
<1>4. sched' = next.d /\ p' = next.p /\ step' = step /\ w' = w
  BY DEF ScheduleFromQueue
<1> HIDE DEF next
<1>5. /\ SchedInv(next.d) /\ PlanInv(next.d, next.p) /\ PlansMore(sched, p, next.d, next.p, r)
  BY <1>1, <1>2, <1>3, PlanWaitingKeeps
<1>6. Inv(next.d, next.p, step, w)
  BY <1>2, <1>5, PlansMoreKeeps
<1> QED BY <1>4, <1>6

LEMMA ResumePreemptedStep ==
  ASSUME Inv(sched, p, step, w), ResumePreempted
  PROVE  Inv(sched', p', step', w')
<1> DEFINE r == Head(sched.preempted)
<1>1. sched.preempted # <<>> /\ ScheduleFromQueue(r)
  BY DEF ResumePreempted
<1>2. sched.preempted \in Seq(Req)
  BY DEF Inv, SchedInv, IsScheduler
<1>3. r \in Req /\ FromQueue(sched, r)
  BY <1>1, <1>2 DEF FromQueue
<1> HIDE DEF r
<1> QED BY <1>1, <1>3, ScheduleFromQueueStep

LEMMA ScheduleNewStep ==
  ASSUME Inv(sched, p, step, w), NEW r \in Req, ScheduleNew(r)
  PROVE  Inv(sched', p', step', w')
<1>1. FromQueue(sched, r) /\ ScheduleFromQueue(r)
  BY DEF ScheduleNew, FromQueue
<1> QED BY <1>1, ScheduleFromQueueStep

LEMMA AbortStep ==
  ASSUME Inv(sched, p, step, w), NEW r \in Req, Abort(r)
  PROVE  Inv(sched', p', step', w')
<1> DEFINE d == FinishRequest(sched, r)
<1>1. /\ ~step.running /\ p = NoPlan /\ sched.status[r] \in {"running", "preempted"}
      /\ sched' = d /\ p' = p /\ step' = step /\ w' = w
  BY DEF Abort, Planning
<1>2. Inv(sched, NoPlan, step, w)
  BY <1>1
<1>3. d = FinishRequest(sched, r)
  OBVIOUS
<1> HIDE DEF d
<1>4. Inv(d, NoPlan, step, w)
  BY <1>1, <1>2, <1>3, FinishedKeeps
<1> QED BY <1>1, <1>4

\* The requests of a plan are running.
LEMMA PlannedIs ==
  ASSUME NEW d, SchedInv(d), NEW q, PlanInv(d, q)
  PROVE  /\ q.order \in Seq(Req) /\ Injective(q.order) /\ Entries(q.order) \subseteq Req
         /\ \A r \in Entries(q.order) :
              /\ d.status[r] = "running" /\ q.plan[r] # None /\ q.plan[r] \in Plans
              /\ q.plan[r].num \in Nat /\ q.plan[r].n \in Nat \ {0} /\ q.plan[r].blocks \in Seq(Block)
              /\ q.plan[r].kind \in Kinds
              /\ q.plan[r].num + q.plan[r].n = d.num[r] /\ d.num[r] \in Nat
              /\ d.num[r] <= Len(Known(d, r))
<1>1. q \in Planners /\ d.running \in Seq(Req) /\ d.num \in [Req -> Nat]
  BY DEF PlanInv, SchedInv, IsScheduler
<1>2. q.order \in Seq(Req) /\ q.next \in Nat \ {0} /\ q.plan \in [Req -> Plans \cup {None}]
  BY <1>1 DEF Planners
<1>3. Len(d.running) \in Nat /\ q.next - 1 \in 0 .. Len(d.running)
  BY <1>1, <1>2 DEF PlanInv
<1> DEFINE k == q.next - 1
           running == d.running
           order == SubSeq(running, 1, k)
<1>4. q.order = order /\ running \in Seq(Req) /\ k \in 0 .. Len(running)
  BY <1>1, <1>3 DEF PlanInv
<1>5. Injective(running) /\ \A r \in Req : d.status[r] = "running" <=> r \in Entries(running)
  BY DEF SchedInv, QueueInv
<1> HIDE DEF k, running
<1>6. Len(order) = k /\ \A i \in 1 .. k : order[i] = running[i]
  BY <1>4, FirstEntries
<1>7. Entries(order) \subseteq Entries(running) /\ Entries(running) \subseteq Req
  <2>1. Entries(running) \subseteq Req /\ DOMAIN running = 1 .. Len(running) /\ Len(running) \in Nat
    BY <1>4, EntriesOf
  <2>2. DOMAIN order = 1 .. k
    <3>1. order \in Seq(Req)
      BY <1>2, <1>4
    <3> HIDE DEF order
    <3> QED BY <1>6, <3>1, EntriesOf
  <2> HIDE DEF order
  <2>3. \A i \in 1 .. k : i \in 1 .. Len(running)
    BY <1>4, <2>1
  <2> QED BY <1>6, <2>1, <2>2, <2>3 DEF Entries
<1>8. Injective(order)
  <2> HIDE DEF order
  <2>1. Len(running) \in Nat /\ \A i \in 1 .. k : i \in 1 .. Len(running)
    BY <1>4
  <2> QED BY <1>5, <1>6, <2>1 DEF Injective
<1> HIDE DEF order
<1>9. ASSUME NEW r \in Entries(q.order)
      PROVE  /\ d.status[r] = "running" /\ q.plan[r] # None /\ q.plan[r] \in Plans
             /\ q.plan[r].num \in Nat /\ q.plan[r].n \in Nat \ {0} /\ q.plan[r].blocks \in Seq(Block)
             /\ q.plan[r].kind \in Kinds
             /\ q.plan[r].num + q.plan[r].n = d.num[r] /\ d.num[r] \in Nat
             /\ d.num[r] <= Len(Known(d, r))
  <2>1. r \in Req /\ d.status[r] = "running"
    BY <1>4, <1>5, <1>7
  <2>2. q.plan[r] # None /\ q.plan[r] \in Plans
    BY <1>2, <2>1 DEF PlanInv
  <2>3. /\ q.plan[r].num \in Nat /\ q.plan[r].n \in Nat \ {0} /\ q.plan[r].blocks \in Seq(Block)
        /\ q.plan[r].kind \in Kinds
    BY <2>2 DEF Plans, Kinds
  <2>4. q.plan[r].num + q.plan[r].n = d.num[r]
    BY <2>1, <2>2 DEF PlanInv
  <2>5. d.num[r] \in Nat /\ d.num[r] <= Len(Known(d, r))
    BY <1>1, <2>1 DEF SchedInv, ProgressInv
  <2> QED BY <2>1, <2>2, <2>3, <2>4, <2>5
<1> QED BY <1>2, <1>4, <1>7, <1>8, <1>9

\* The scheduler once it told the worker which requests finished.
Told(d) == [d EXCEPT !.status = [r \in Req |-> IF @[r] = "finished" THEN "done" ELSE @[r]]]

LEMMA ToldIs ==
  ASSUME NEW d, SchedInv(d), NEW q, PlanInv(d, q), NEW e, e = Told(d)
  PROVE  /\ SchedInv(e) /\ PlanInv(e, q) /\ e.out = d.out /\ e.num = d.num
         /\ \A r \in Req : e.status[r] = IF d.status[r] = "finished" THEN "done" ELSE d.status[r]
<1> DEFINE status == [r \in Req |-> IF d.status[r] = "finished" THEN "done" ELSE d.status[r]]
<1>1. IsScheduler(d)
  BY DEF SchedInv
<1>2. status \in [Req -> Statuses]
  BY <1>1 DEF IsScheduler, Statuses
<1>3. e = [d EXCEPT !.status = status]
  BY DEF Told
<1>4. \A r \in Req : status[r] = IF d.status[r] = "finished" THEN "done" ELSE d.status[r]
  OBVIOUS
<1> HIDE DEF status
<1>5. /\ IsScheduler(e) /\ e.status = status /\ e.out = d.out /\ e.num = d.num
      /\ e.running = d.running /\ e.preempted = d.preempted
  BY <1>1, <1>2, <1>3 DEF IsScheduler
<1>6. \A r \in Req : Known(e, r) = Known(d, r)
  BY <1>5, SameText
<1>7. QueueInv(e)
  BY <1>4, <1>5 DEF SchedInv, QueueInv
<1>8. ProgressInv(e)
  BY <1>4, <1>5, <1>6 DEF SchedInv, ProgressInv
<1>9. PlanInv(e, q)
  BY <1>4, <1>5, <1>6 DEF PlanInv
<1> QED BY <1>4, <1>5, <1>7, <1>8, <1>9 DEF SchedInv

\* The step that a plan asks for.
Ask(d, q, s, new, cached) ==
  s = [NoStep EXCEPT !.running = TRUE, !.finished = Reported(d), !.new = new, !.cached = cached,
                     !.rows = q.order]

LEMMA AskIs ==
  ASSUME NEW d, NEW q, NEW new \in Seq(Req), NEW cached \in Seq(Req), q.order \in Seq(Req),
         NEW s, Ask(d, q, s, new, cached)
  PROVE  /\ s \in Steps /\ s.running /\ s.finished = Reported(d) /\ s.new = new /\ s.cached = cached
         /\ s.rows = q.order /\ \A r \in Req : Silent(s, r)
<1>1. Reported(d) \in SUBSET Req
  BY DEF Reported
<1>2. NoStep \in Steps /\ \A r \in Req : NoStep.logits[r] = <<>>
  BY DEF NoStep, Steps
<1> HIDE DEF NoStep
<1>3. /\ s \in Steps /\ s.running = TRUE /\ s.finished = Reported(d) /\ s.new = new /\ s.cached = cached
      /\ s.rows = q.order /\ s.logits = NoStep.logits
  BY <1>1, <1>2 DEF Ask, Steps
<1> QED BY <1>2, <1>3 DEF Silent

\* The plan's requests of a kind.
Kind(q, kinds, t) ==
  /\ t \in Seq(Req) /\ Injective(t)
  /\ \A r : r \in Entries(t) <=> r \in Entries(q.order) /\ q.plan[r].kind \in kinds

LEMMA OfKindIs ==
  ASSUME SchedInv(sched), PlanInv(sched, p), NEW kinds, NEW t, t = OfKind(kinds)
  PROVE  Kind(p, kinds, t)
<1> DEFINE S == {r \in Entries(p.order) : p.plan[r].kind \in kinds}
           order == p.order
<1>1. order \in Seq(Req) /\ Injective(order)
  BY PlannedIs
<1>2. t = Within(order, S) /\ \A r : r \in S <=> r \in Entries(order) /\ p.plan[r].kind \in kinds
  BY DEF OfKind
<1> HIDE DEF S, order
<1>3. /\ Within(order, S) \in Seq(Req) /\ (Injective(order) => Injective(Within(order, S)))
      /\ \A x : x \in Entries(Within(order, S)) <=> x \in Entries(order) /\ x \in S
  BY <1>1, WithinIs
<1> QED BY <1>1, <1>2, <1>3 DEF Kind, order

LEMMA EntriesOfConcat ==
  ASSUME NEW T, NEW s \in Seq(T), NEW t \in Seq(T)
  PROVE  s \o t \in Seq(T) /\ Entries(s \o t) = Entries(s) \cup Entries(t)
<1> DEFINE u == s \o t
<1>1. Len(s) \in Nat /\ Len(t) \in Nat
  OBVIOUS
<1>2. u \in Seq(T) /\ Len(u) = Len(s) + Len(t)
  BY <1>1
<1>3. \A i \in 1 .. Len(s) : u[i] = s[i]
  BY <1>1
<1>4. \A i \in 1 .. Len(t) : u[Len(s) + i] = t[i]
  BY <1>1
<1> HIDE DEF u
<1>5. DOMAIN u = 1 .. Len(u) /\ DOMAIN s = 1 .. Len(s) /\ DOMAIN t = 1 .. Len(t)
  BY <1>2, EntriesOf
<1>6. Entries(u) \subseteq Entries(s) \cup Entries(t)
  <2> SUFFICES ASSUME NEW i \in 1 .. Len(u) PROVE u[i] \in Entries(s) \cup Entries(t)
    BY <1>5 DEF Entries
  <2>1. CASE i <= Len(s)
    BY <1>1, <1>2, <1>3, <1>5, <2>1 DEF Entries
  <2>2. CASE i > Len(s)
    <3>1. i - Len(s) \in 1 .. Len(t) /\ Len(s) + (i - Len(s)) = i
      BY <1>1, <1>2, <2>2
    <3>2. u[i] = t[i - Len(s)]
      BY <1>4, <3>1
    <3> QED BY <1>5, <3>1, <3>2 DEF Entries
  <2> QED BY <1>1, <1>2, <2>1, <2>2
<1>7. Entries(s) \subseteq Entries(u)
  <2>1. \A i \in 1 .. Len(s) : i \in 1 .. Len(u)
    BY <1>1, <1>2
  <2> QED BY <1>3, <1>5, <2>1 DEF Entries
<1>8. Entries(t) \subseteq Entries(u)
  <2>1. \A i \in 1 .. Len(t) : Len(s) + i \in 1 .. Len(u)
    BY <1>1, <1>2
  <2> QED BY <1>4, <1>5, <2>1 DEF Entries
<1> QED BY <1>2, <1>6, <1>7, <1>8 DEF u

LEMMA AskKeeps ==
  ASSUME NEW d, NEW q, NEW v, Inv(d, q, NoStep, v), NEW e, e = Told(d),
         NEW new, Kind(q, {"new"}, new), NEW running, Kind(q, {"running"}, running),
         NEW resumed, Kind(q, {"resumed"}, resumed),
         NEW s, Ask(d, q, s, new, running \o resumed)
  PROVE  Inv(e, q, s, v)
<1> DEFINE cached == running \o resumed
<1>1. SchedInv(d) /\ PlanInv(d, q) /\ LiveInv(d, q, NoStep, v) /\ SettledInv(q, NoStep, v) /\ CachesInv(d, v)
  BY DEF Inv
<1>2. /\ SchedInv(e) /\ PlanInv(e, q) /\ e.out = d.out /\ e.num = d.num
      /\ \A r \in Req : e.status[r] = IF d.status[r] = "finished" THEN "done" ELSE d.status[r]
  BY <1>1, ToldIs
<1>3. new \in Seq(Req) /\ Injective(new) /\ \A r : r \in Entries(new) <=> r \in Entries(q.order) /\ q.plan[r].kind = "new"
  BY DEF Kind
<1>4. /\ cached \in Seq(Req)
      /\ \A r : r \in Entries(cached) <=> r \in Entries(q.order) /\ q.plan[r].kind \in {"running", "resumed"}
  <2>1. running \in Seq(Req) /\ \A r : r \in Entries(running) <=> r \in Entries(q.order) /\ q.plan[r].kind = "running"
    BY DEF Kind
  <2>2. resumed \in Seq(Req) /\ \A r : r \in Entries(resumed) <=> r \in Entries(q.order) /\ q.plan[r].kind = "resumed"
    BY DEF Kind
  <2>3. cached \in Seq(Req) /\ Entries(cached) = Entries(running) \cup Entries(resumed)
    BY <2>1, <2>2, EntriesOfConcat
  <2> HIDE DEF cached
  <2> QED BY <2>1, <2>2, <2>3
<1>5. Ask(d, q, s, new, cached)
  OBVIOUS
<1> HIDE DEF cached
<1>6. /\ q.order \in Seq(Req) /\ Injective(q.order) /\ Entries(q.order) \subseteq Req
      /\ \A r \in Entries(q.order) : d.status[r] = "running" /\ q.plan[r] # None /\ q.plan[r].kind \in Kinds
  BY <1>1, PlannedIs
<1>7. /\ s \in Steps /\ s.running /\ s.finished = Reported(d) /\ s.new = new /\ s.cached = cached
      /\ s.rows = q.order /\ \A r \in Req : Silent(s, r)
  BY <1>3, <1>4, <1>5, <1>6, AskIs
<1>8. \A r \in Req : r \in s.finished <=> d.status[r] = "finished"
  BY <1>7 DEF Reported
<1>9. StepInv(e, q, s)
  <2>1. \A r \in Req : e.status[r] # "finished"
    BY <1>2
  <2>2. s.finished \subseteq Req
    BY <1>7 DEF Reported
  <2>3. \A r \in s.finished : e.status[r] = "done"
    BY <1>2, <1>8, <2>2
  <2>4. Injective(s.new) /\ Injective(s.rows) /\ Entries(s.rows) \subseteq Entries(q.order)
    BY <1>3, <1>6, <1>7
  <2>5. \A r \in Entries(s.new) : q.plan[r] # None /\ q.plan[r].kind = "new"
    BY <1>3, <1>6, <1>7
  <2>6. \A r \in Entries(s.cached) : q.plan[r] # None /\ q.plan[r].kind # "new"
    BY <1>4, <1>6, <1>7
  <2> QED BY <1>7, <2>1, <2>3, <2>4, <2>5, <2>6 DEF StepInv
<1>10. LogitsInv(q, s)
  BY <1>7 DEF LogitsInv, HasStarted
<1>11. CachesInv(e, v)
  <2>1. KnownTokens(e) = KnownTokens(d)
    BY <1>2, SameText
  <2> QED BY <1>1, <2>1 DEF CachesInv
<1>12. \A r \in Req : IsNew(q, s, r) <=> IsNew(q, NoStep, r)
  <2> SUFFICES ASSUME NEW r \in Req PROVE IsNew(q, s, r) <=> IsNew(q, NoStep, r)
    OBVIOUS
  <2>1. IsNew(q, NoStep, r) <=> q.plan[r] # None /\ q.plan[r].kind = "new"
    BY DEF IsNew, NoStep
  <2>2. q.plan[r] # None <=> r \in Entries(q.order)
    BY <1>1 DEF PlanInv
  <2>3. IsNew(q, s, r) <=> q.plan[r] # None /\ q.plan[r].kind = "new" /\ r \in Entries(new)
    BY <1>7 DEF IsNew
  <2> QED BY <1>3, <2>1, <2>2, <2>3
<1>13. LiveInv(e, q, s, v)
  <2> SUFFICES ASSUME NEW o \in Req
               PROVE  /\ v.req[o] # None <=> \/ o \in s.finished
                                             \/ /\ e.status[o] \in {"running", "preempted", "finished"}
                                                /\ ~IsNew(q, s, o)
                      /\ e.status[o] = "waiting" \/ IsNew(q, s, o) => ~Stored(v, o) /\ e.out[o] = <<>>
    BY DEF LiveInv
  <2>1. IsNew(q, NoStep, o) => d.status[o] = "running"
    <3>1. q.plan[o] # None => o \in Entries(q.order)
      BY <1>1 DEF PlanInv
    <3> QED BY <1>6, <3>1 DEF IsNew
  <2>2. o \notin NoStep.finished
    BY DEF NoStep
  <2>3. /\ v.req[o] # None <=> d.status[o] \in {"running", "preempted", "finished"} /\ ~IsNew(q, NoStep, o)
        /\ d.status[o] = "waiting" \/ IsNew(q, NoStep, o) => ~Stored(v, o) /\ d.out[o] = <<>>
    BY <1>1, <2>2 DEF LiveInv
  <2> QED BY <1>2, <1>8, <1>12, <2>1, <2>3
<1>14. RowInv(e, q, s, v)
  BY <1>3, <1>4, <1>6, <1>7 DEF RowInv, Kinds
<1>15. SettledInv(q, s, v)
  <2>1. ~NoStep.running
    BY DEF NoStep
  <2> QED BY <1>1, <2>1 DEF SettledInv
<1> QED BY <1>2, <1>9, <1>10, <1>11, <1>13, <1>14, <1>15 DEF Inv

LEMMA DispatchStep ==
  ASSUME Inv(sched, p, step, w), Dispatch
  PROVE  Inv(sched', p', step', w')
<1> DEFINE new == OfKind({"new"})
           running == OfKind({"running"})
           resumed == OfKind({"resumed"})
           d == Told(sched)
           s == [NoStep EXCEPT !.running = TRUE, !.finished = Reported(sched), !.new = new,
                               !.cached = running \o resumed, !.rows = p.order]
<1>1. SchedInv(sched) /\ PlanInv(sched, p)
  BY DEF Inv
<1>2. step = NoStep
  BY DEF Inv, StepInv, Dispatch, Planning
<1>3. p' = p /\ w' = w /\ step' = s
  BY DEF Dispatch
<1>4. sched' = d
  BY DEF Dispatch, Told
<1>5. new = OfKind({"new"}) /\ running = OfKind({"running"}) /\ resumed = OfKind({"resumed"}) /\ d = Told(sched)
  OBVIOUS
<1>6. Ask(sched, p, s, new, running \o resumed)
  BY DEF Ask
<1> HIDE DEF new, running, resumed, d, s
<1>7. Kind(p, {"new"}, new)
  BY <1>1, <1>5, OfKindIs
<1>8. Kind(p, {"running"}, running)
  BY <1>1, <1>5, OfKindIs
<1>9. Kind(p, {"resumed"}, resumed)
  BY <1>1, <1>5, OfKindIs
<1>10. Inv(sched, p, NoStep, w)
  BY <1>2
<1>11. Inv(d, p, s, w)
  BY <1>5, <1>6, <1>7, <1>8, <1>9, <1>10, AskKeeps
<1> QED BY <1>3, <1>4, <1>11

-----------------------------------------------------------------------------
(* What a handler leaves, collected.                                       *)

\* x is u but for the caches nothing refers to.
Swept(u, x) ==
  /\ x.rc = u.rc /\ x.req = u.req /\ x.active = u.active /\ x.offload = u.offload
  /\ x.kv.dumps = u.kv.dumps
  /\ \A o \in Req : Cached(u, o) => x.kv.obj[u.req[o].cache] = u.kv.obj[u.req[o].cache]
  /\ \A o \in Req, t \in Slot : Cached(u, o) /\ u.kv.owner[t] = u.req[o].cache =>
        x.kv.owner[t] = u.kv.owner[t]

LEMMA CollectedKeeps ==
  ASSUME NEW d, IsScheduler(d), NEW u, Sound(u, KnownTokens(d)), Acting(u), OwnerOk(u),
         NEW x, x = Collected(u)
  PROVE  CachesInv(d, x) /\ Swept(u, x)
<1> DEFINE K == KnownTokens(d)
           R == Referenced(u)
<1>1. K \in [Req -> Seq(Text)] /\ Sound(u, K)
  BY KnownTokensIs
<1> HIDE DEF K
<1>2. Sound(x, K) /\ Gathered(u, x, Referenced(u)) /\ (Acting(u) => Tidy(x))
  BY <1>1, CollectedIs
<1>3. /\ x.rc = u.rc /\ x.req = u.req /\ x.active = u.active /\ x.offload = u.offload
      /\ x.kv.dumps = u.kv.dumps
      /\ \A c \in Cache : x.kv.obj[c] = IF c \in R THEN u.kv.obj[c] ELSE Unused
      /\ \A s \in Slot : x.kv.owner[s] = IF u.kv.owner[s] \in R THEN u.kv.owner[s] ELSE None
  BY <1>2 DEF Gathered
<1>4. \A o \in Req : Cached(u, o) => u.req[o].cache \in R /\ u.req[o].cache \in Cache
  BY <1>1, ReferencesAre, WorkerIs DEF Sound
<1> HIDE DEF R
<1>5. Acting(x)
  BY <1>3 DEF Acting, SlotKey
<1>6. OwnerOk(x)
  BY <1>3 DEF OwnerOk
<1>7. Swept(u, x)
  <2>1. \A o \in Req : Cached(u, o) => x.kv.obj[u.req[o].cache] = u.kv.obj[u.req[o].cache]
    BY <1>3, <1>4
  <2>2. \A o \in Req, t \in Slot : Cached(u, o) /\ u.kv.owner[t] = u.req[o].cache => x.kv.owner[t] = u.kv.owner[t]
    BY <1>3, <1>4
  <2> QED BY <1>3, <2>1, <2>2 DEF Swept
<1> QED BY <1>2, <1>5, <1>6, <1>7 DEF CachesInv, K

LEMMA HeldSame ==
  ASSUME NEW v, NEW x, NEW o, x.req[o] = v.req[o], Cached(v, o),
         x.kv.obj[v.req[o].cache] = v.kv.obj[v.req[o].cache]
  PROVE  HeldTokens(x, o) = HeldTokens(v, o)
BY DEF HeldTokens, CacheOf, SeqLength, Cached

-----------------------------------------------------------------------------
(* A request finishes.                                                     *)

LEMMA RetiresKeeps ==
  ASSUME NEW v \in Workers, Acting(v), OwnerOk(v), NEW r \in Req, NEW u, Retires(v, u, r)
  PROVE  Acting(u) /\ OwnerOk(u)
<1>1. \A t \in Slot : u.active[t] # None =>
        /\ u.active[t] = v.active[t] /\ ~(t = SlotKey(v, r) /\ v.active[t].req = r)
  BY DEF Retires, Resting
<1>2. OwnerOk(u)
  BY <1>1 DEF OwnerOk, Retires
<1>3. Acting(u)
  <2> SUFFICES ASSUME NEW t \in Slot, u.active[t] # None
               PROVE  /\ u.req[u.active[t].req] # None /\ u.req[u.active[t].req].cache = u.active[t].cache
                      /\ SlotKey(u, u.active[t].req) = t
    BY DEF Acting
  <2> DEFINE o == v.active[t].req
  <2>1. v.req[o] # None /\ v.req[o].cache = v.active[t].cache /\ SlotKey(v, o) = t /\ u.active[t] = v.active[t]
    BY <1>1 DEF Acting
  <2>2. o # r
    BY <1>1, <2>1
  <2>3. u.req[o] = v.req[o]
    <3>1. o \in Req
      BY <1>1, WorkerIs
    <3> QED BY <2>2, <3>1 DEF Retires
  <2> HIDE DEF o
  <2>4. SlotKey(u, o) = SlotKey(v, o)
    BY <2>3 DEF SlotKey
  <2> QED BY <2>1, <2>3, <2>4 DEF o
<1> QED BY <1>2, <1>3

LEMMA FinalizeKeeps ==
  ASSUME NEW d, NEW q, NEW s, NEW v, Inv(d, q, s, v), s.running, NEW r \in s.finished,
         NEW u, u = FinalizeFinishedRequest(v, r), NEW x, x = Collected(u),
         NEW z, z = [s EXCEPT !.finished = @ \ {r}]
  PROVE  Inv(d, q, z, x)
<1>1. /\ SchedInv(d) /\ PlanInv(d, q) /\ StepInv(d, q, s) /\ LogitsInv(q, s) /\ CachesInv(d, v)
      /\ LiveInv(d, q, s, v) /\ RowInv(d, q, s, v) /\ SettledInv(q, s, v) /\ IsScheduler(d)
  BY DEF Inv, SchedInv
<1>2. s \in Steps /\ r \in Req /\ d.status[r] = "done"
  BY <1>1 DEF StepInv, Steps
<1>3. /\ z \in Steps /\ z.running /\ z.finished = s.finished \ {r} /\ z.new = s.new /\ z.cached = s.cached
      /\ z.rows = s.rows /\ z.start = s.start /\ z.logits = s.logits
  BY <1>2 DEF Steps
<1>4. v.req[r] # None
  BY <1>1, <1>2 DEF LiveInv
<1> DEFINE K == KnownTokens(d)
<1>5. K \in [Req -> Seq(Text)] /\ Sound(v, K) /\ Acting(v) /\ OwnerOk(v)
  BY <1>1, KnownTokensIs DEF CachesInv
<1> HIDE DEF K
<1>6. Sound(u, K) /\ Retires(v, u, r)
  BY <1>2, <1>4, <1>5, FinalizeIs
<1>7. Acting(u) /\ OwnerOk(u)
  BY <1>2, <1>5, <1>6, RetiresKeeps DEF Sound
<1>8. CachesInv(d, x) /\ Swept(u, x)
  BY <1>1, <1>6, <1>7, CollectedKeeps DEF K
<1>9. /\ x.req[r] = None /\ \A o \in Req \ {r} : x.req[o] = v.req[o]
      /\ \A o \in Req \ {r} : Cached(v, o) => x.kv.obj[v.req[o].cache] = v.kv.obj[v.req[o].cache]
      /\ \A o \in Req \ {r} : Stored(x, o) => Stored(v, o)
  BY <1>6, <1>8 DEF Retires, Swept, Cached, Stored
<1>10. /\ q.order \in Seq(Req) /\ Entries(q.order) \subseteq Req
       /\ \A o \in Entries(q.order) : d.status[o] = "running" /\ o # r
  BY <1>1, <1>2, PlannedIs
<1>11. ~Handled(s) /\ s.rows = q.order
  BY <1>1 DEF StepInv, Handled
<1>12. StepInv(d, q, z)
  BY <1>1, <1>3, <1>11 DEF StepInv
<1>13. \A o : (Silent(z, o) <=> Silent(s, o)) /\ (HasStarted(q, z, o) <=> HasStarted(q, s, o))
  BY <1>3 DEF Silent, HasStarted
<1>14. LogitsInv(q, z)
  BY <1>1, <1>3, <1>11, <1>13 DEF LogitsInv
<1>15. \A o \in Req : ~HasStarted(q, s, o) /\ Silent(s, o)
  BY <1>1, <1>11 DEF HasStarted, LogitsInv
<1>16. \A o \in Req : IsNew(q, z, o) <=> IsNew(q, s, o)
  BY <1>3 DEF IsNew
<1>17. LiveInv(d, q, z, x)
  <2> SUFFICES ASSUME NEW o \in Req
               PROVE  /\ x.req[o] # None <=> \/ o \in z.finished
                                             \/ /\ d.status[o] \in {"running", "preempted", "finished"}
                                                /\ ~IsNew(q, z, o)
                      /\ d.status[o] = "waiting" \/ IsNew(q, z, o) => ~Stored(x, o) /\ d.out[o] = <<>>
    BY DEF LiveInv
  <2>1. CASE o # r
    BY <1>1, <1>3, <1>9, <1>16, <2>1 DEF LiveInv
  <2>2. CASE o = r
    <3>1. ~IsNew(q, s, r)
      <4>1. q.plan[r] # None => r \in Entries(q.order)
        BY <1>1, <1>2 DEF PlanInv
      <4> QED BY <1>10, <4>1 DEF IsNew
    <3> QED BY <1>2, <1>3, <1>9, <1>16, <2>2, <3>1
  <2> QED BY <2>1, <2>2
<1>18. RowInv(d, q, z, x)
  <2> SUFFICES ASSUME NEW o \in Entries(q.order), o \notin Entries(z.new), o \notin Entries(z.cached)
               PROVE  /\ Silent(z, o) => x.req[o].num = q.plan[o].num
                      /\ ~Silent(z, o) => Finished(z, x, o, Known(d, o), d.num[o])
                      /\ HasStarted(q, z, o) /\ Silent(z, o) => Poised(z, x, o)
    BY DEF RowInv
  <2>1. o \in Req /\ x.req[o] = v.req[o]
    BY <1>9, <1>10
  <2>2. Silent(s, o) => v.req[o].num = q.plan[o].num
    BY <1>1, <1>3 DEF RowInv
  <2> QED BY <1>13, <1>15, <2>1, <2>2
<1>19. SettledInv(q, z, x)
  <2> SUFFICES ASSUME NEW o \in Req, Cached(x, o), o \notin Entries(q.order)
               PROVE  HeldTokens(x, o) = x.req[o].num
    BY <1>3 DEF SettledInv
  <2>1. o # r /\ x.req[o] = v.req[o] /\ Cached(v, o)
    BY <1>9 DEF Cached
  <2>2. HeldTokens(v, o) = v.req[o].num
    BY <1>1, <2>1 DEF SettledInv
  <2>3. x.kv.obj[v.req[o].cache] = v.kv.obj[v.req[o].cache]
    BY <1>9, <2>1
  <2>4. HeldTokens(x, o) = HeldTokens(v, o)
    BY <2>1, <2>3, HeldSame
  <2> QED BY <2>1, <2>2, <2>4
<1> QED BY <1>1, <1>8, <1>12, <1>14, <1>17, <1>18, <1>19 DEF Inv

LEMMA FinalizeFinishedStep ==
  ASSUME Inv(sched, p, step, w), NEW r \in Req, FinalizeFinished(r)
  PROVE  Inv(sched', p', step', w')
<1> DEFINE u == FinalizeFinishedRequest(w, r)
           x == Collected(u)
           z == [step EXCEPT !.finished = @ \ {r}]
<1>1. step.running /\ r \in step.finished /\ w' = x /\ step' = z /\ sched' = sched /\ p' = p
  BY DEF FinalizeFinished
<1>2. u = FinalizeFinishedRequest(w, r) /\ x = Collected(u) /\ z = [step EXCEPT !.finished = @ \ {r}]
  OBVIOUS
<1> HIDE DEF u, x, z
<1>3. Inv(sched, p, z, x)
  BY <1>1, <1>2, FinalizeKeeps
<1> QED BY <1>1, <1>3

LEMMA HeadIs ==
  ASSUME NEW T, NEW s \in Seq(T), s # <<>>
  PROVE  /\ Head(s) \in T /\ Head(s) \in Entries(s)
         /\ Tail(s) \in Seq(T) /\ \A x : x \in Entries(s) <=> x = Head(s) \/ x \in Entries(Tail(s))
         /\ Injective(s) => Injective(Tail(s)) /\ Head(s) \notin Entries(Tail(s))
<1>1. Len(s) \in Nat \ {0} /\ Head(s) = s[1] /\ s[1] \in T
  BY EmptySeq
<1>2. Tail(s) \in Seq(T) /\ Len(Tail(s)) = Len(s) - 1 /\ \A i \in 1 .. Len(s) - 1 : Tail(s)[i] = s[i + 1]
  BY <1>1
<1> DEFINE t == Tail(s)
<1> HIDE DEF t
<1>3. \A x : x \in Entries(s) <=> \E i \in 1 .. Len(s) : s[i] = x
  BY DEF Entries
<1>4. \A x : x \in Entries(t) <=> \E i \in 1 .. Len(t) : t[i] = x
  BY <1>2 DEF Entries, t
<1>5. Len(t) = Len(s) - 1 /\ \A i \in 1 .. Len(t) : t[i] = s[i + 1]
  BY <1>2 DEF t
<1>6. ASSUME NEW x PROVE x \in Entries(s) <=> x = s[1] \/ x \in Entries(t)
  <2>1. ASSUME NEW i \in 1 .. Len(s), s[i] = x PROVE x = s[1] \/ x \in Entries(t)
    <3>1. CASE i = 1
      BY <2>1, <3>1
    <3>2. CASE i > 1
      <4>1. i - 1 \in 1 .. Len(t) /\ t[i - 1] = s[(i - 1) + 1]
        BY <1>1, <1>5, <3>2
      <4>2. (i - 1) + 1 = i
        OBVIOUS
      <4> QED BY <1>4, <2>1, <4>1, <4>2
    <3> QED BY <1>1, <3>1, <3>2
  <2>2. ASSUME x = s[1] PROVE x \in Entries(s)
    BY <1>1, <1>3, <2>2
  <2>3. ASSUME x \in Entries(t) PROVE x \in Entries(s)
    <3>1. PICK i \in 1 .. Len(t) : t[i] = x
      BY <1>4, <2>3
    <3>2. i + 1 \in 1 .. Len(s) /\ s[i + 1] = x
      BY <1>1, <1>5, <3>1
    <3> QED BY <1>3, <3>2
  <2> QED BY <1>3, <2>1, <2>2, <2>3
<1>7. ASSUME Injective(s) PROVE Injective(t) /\ s[1] \notin Entries(t)
  <2>1. \A i, j \in 1 .. Len(s) : s[i] = s[j] => i = j
    BY <1>7 DEF Injective
  <2>2. \A i \in 1 .. Len(t) : i + 1 \in 1 .. Len(s) /\ t[i] = s[i + 1] /\ i + 1 # 1
    BY <1>1, <1>5
  <2>3. Injective(t)
    <3> SUFFICES ASSUME NEW i \in 1 .. Len(t), NEW j \in 1 .. Len(t), t[i] = t[j] PROVE i = j
      BY DEF Injective
    <3>1. i + 1 = j + 1
      BY <2>1, <2>2
    <3> QED BY <1>1, <1>5, <3>1
  <2>4. s[1] \notin Entries(t)
    <3> SUFFICES ASSUME NEW i \in 1 .. Len(t), t[i] = s[1] PROVE FALSE
      BY <1>4
    <3> QED BY <1>1, <2>1, <2>2
  <2> QED BY <2>3, <2>4
<1> QED BY <1>1, <1>2, <1>6, <1>7 DEF t

-----------------------------------------------------------------------------
(* A request is admitted.                                                  *)

LEMMA JoinsActs ==
  ASSUME NEW v \in Workers, Acting(v), OwnerOk(v), NEW r \in Req, v.req[r] = None, NEW num, NEW u, Joins(v, u, r, num)
  PROVE  Acting(u) /\ OwnerOk(u)
<1>1. u.active = v.active /\ u.kv = v.kv /\ \A o \in Req \ {r} : u.req[o] = v.req[o]
  BY DEF Joins
<1>2. OwnerOk(u)
  BY <1>1 DEF OwnerOk
<1>3. Acting(u)
  <2> SUFFICES ASSUME NEW t \in Slot, u.active[t] # None
               PROVE  /\ u.req[u.active[t].req] # None /\ u.req[u.active[t].req].cache = u.active[t].cache
                      /\ SlotKey(u, u.active[t].req) = t
    BY DEF Acting
  <2> DEFINE o == v.active[t].req
  <2>1. v.req[o] # None /\ v.req[o].cache = v.active[t].cache /\ SlotKey(v, o) = t /\ u.active[t] = v.active[t]
    BY <1>1 DEF Acting
  <2>2. u.req[o] = v.req[o]
    <3>1. o \in Req
      BY <1>1, WorkerIs
    <3> QED BY <1>1, <2>1, <3>1
  <2> HIDE DEF o
  <2>3. SlotKey(u, o) = SlotKey(v, o)
    BY <2>2 DEF SlotKey
  <2> QED BY <2>1, <2>2, <2>3 DEF o
<1> QED BY <1>2, <1>3

LEMMA AdmitKeeps ==
  ASSUME NEW d, NEW q, NEW s, NEW v, Inv(d, q, s, v), s.running, s.finished = {}, s.new # <<>>,
         NEW r, r = Head(s.new), Batch => CanAssignSlot(v.rc, r), NEW cost,
         NEW u \in AdmitRequest(v, r, q.plan[r].num, q.plan[r].blocks, cost), NEW x, x = Collected(u),
         NEW z, z = [s EXCEPT !.new = Tail(@)]
  PROVE  Inv(d, q, z, x)
<1>1. /\ SchedInv(d) /\ PlanInv(d, q) /\ StepInv(d, q, s) /\ LogitsInv(q, s) /\ CachesInv(d, v)
      /\ LiveInv(d, q, s, v) /\ RowInv(d, q, s, v) /\ SettledInv(q, s, v) /\ IsScheduler(d)
  BY DEF Inv, SchedInv
<1>2. s \in Steps /\ s.new \in Seq(Req) /\ Injective(s.new)
  BY <1>1 DEF StepInv, Steps
<1>3. /\ r \in Req /\ r \in Entries(s.new) /\ Tail(s.new) \in Seq(Req)
      /\ \A o : o \in Entries(s.new) <=> o = r \/ o \in Entries(Tail(s.new))
      /\ Injective(Tail(s.new)) /\ r \notin Entries(Tail(s.new))
  BY <1>2, HeadIs
<1>4. /\ z \in Steps /\ z.running /\ z.finished = {} /\ z.new = Tail(s.new) /\ z.cached = s.cached
      /\ z.rows = s.rows /\ z.start = s.start /\ z.logits = s.logits
  BY <1>2, <1>3 DEF Steps
<1>5. q.plan[r] # None /\ q.plan[r].kind = "new" /\ IsNew(q, s, r)
  BY <1>1, <1>3 DEF StepInv, IsNew
<1>6. /\ q.order \in Seq(Req) /\ Entries(q.order) \subseteq Req /\ r \in Entries(q.order)
  BY <1>1, <1>3, <1>5, PlannedIs DEF PlanInv
<1>7. /\ d.status[r] = "running" /\ q.plan[r].num \in Nat /\ q.plan[r].n \in Nat \ {0}
      /\ q.plan[r].blocks \in Seq(Block)
      /\ q.plan[r].num + q.plan[r].n = d.num[r] /\ d.num[r] \in Nat /\ d.num[r] <= Len(Known(d, r))
  BY <1>1, <1>6, PlannedIs
<1> DEFINE K == KnownTokens(d)
           num == q.plan[r].num
           blocks == q.plan[r].blocks
<1>8. K \in [Req -> Seq(Text)] /\ Sound(v, K) /\ Acting(v) /\ OwnerOk(v) /\ K[r] = Known(d, r)
  BY <1>1, <1>3, KnownTokensIs DEF CachesInv
<1>9. v.req[r] = None /\ ~Stored(v, r) /\ d.out[r] = <<>>
  <2>1. r \notin s.finished
    OBVIOUS
  <2> QED BY <1>1, <1>3, <1>5, <2>1 DEF LiveInv
<1>10. K[r] = Prompt[r]
  <2>1. Prompt[r] \in Seq(Embeddings)
    BY <1>3, PromptAssumption
  <2> QED BY <1>8, <1>9, <2>1 DEF Known
<1>11. num \in Nat /\ num <= Len(K[r]) /\ blocks \in Seq(Block) /\ u \in AdmitRequest(v, r, num, blocks, cost)
  <2>1. Len(Known(d, r)) \in Nat
    BY <1>1, <1>3, KnownIs
  <2> QED BY <1>7, <1>8, <2>1
<1> HIDE DEF K, num, blocks
<1>12. Enters(v, r)
  BY <1>9 DEF Enters
<1>13. Sound(u, K) /\ Joins(v, u, r, num)
  BY <1>3, <1>8, <1>10, <1>11, <1>12, AdmitIs
<1>14. Acting(u) /\ OwnerOk(u)
  BY <1>3, <1>8, <1>9, <1>13, JoinsActs DEF Sound
<1>15. CachesInv(d, x) /\ Swept(u, x)
  BY SMTT(30), <1>1, <1>13, <1>14, CollectedKeeps DEF K
<1>16. /\ x.req[r] # None /\ x.req[r].num = q.plan[r].num /\ x.req[r].cache = None
       /\ \A o \in Req \ {r} : x.req[o] = v.req[o]
       /\ \A o \in Req \ {r} : Cached(v, o) => x.kv.obj[v.req[o].cache] = v.kv.obj[v.req[o].cache]
       /\ \A o \in Req : Stored(x, o) => Stored(v, o)
  <2>1. \A o \in Req \ {r} : u.req[o] = v.req[o] /\ u.kv = v.kv
    BY <1>13 DEF Joins
  <2>2. \A o \in Req : Stored(u, o) => Stored(v, o)
    BY <1>13 DEF Joins, Stored
  <2>3. u.req[r] # None /\ u.req[r].num = q.plan[r].num /\ u.req[r].cache = None
    BY <1>13 DEF Joins, num
  <2> QED BY <1>15, <2>1, <2>2, <2>3 DEF Swept, Cached, Stored
<1>17. ~Handled(s) /\ s.rows = q.order
  BY <1>1 DEF StepInv, Handled
<1>18. StepInv(d, q, z)
  BY <1>1, <1>3, <1>4, <1>17 DEF StepInv
<1>19. \A o : (Silent(z, o) <=> Silent(s, o)) /\ (HasStarted(q, z, o) <=> HasStarted(q, s, o))
  BY <1>4 DEF Silent, HasStarted
<1>20. \A o \in Req : ~HasStarted(q, s, o) /\ Silent(s, o)
  BY <1>1, <1>17 DEF HasStarted, LogitsInv
<1>21. LogitsInv(q, z)
  BY <1>4, <1>19, <1>20 DEF LogitsInv
<1>22. LiveInv(d, q, z, x)
  <2> SUFFICES ASSUME NEW o \in Req
               PROVE  /\ x.req[o] # None <=> \/ o \in z.finished
                                             \/ /\ d.status[o] \in {"running", "preempted", "finished"}
                                                /\ ~IsNew(q, z, o)
                      /\ d.status[o] = "waiting" \/ IsNew(q, z, o) => ~Stored(x, o) /\ d.out[o] = <<>>
    BY DEF LiveInv
  <2>1. CASE o # r
    <3>1. IsNew(q, z, o) <=> IsNew(q, s, o)
      BY <1>3, <1>4, <2>1 DEF IsNew
    <3> QED BY <1>1, <1>4, <1>16, <2>1, <3>1 DEF LiveInv
  <2>2. CASE o = r
    BY <1>3, <1>4, <1>7, <1>16, <2>2 DEF IsNew
  <2> QED BY <2>1, <2>2
<1>23. RowInv(d, q, z, x)
  <2> SUFFICES ASSUME NEW o \in Entries(q.order), o \notin Entries(z.new), o \notin Entries(z.cached)
               PROVE  /\ Silent(z, o) => x.req[o].num = q.plan[o].num
                      /\ ~Silent(z, o) => Finished(z, x, o, Known(d, o), d.num[o])
                      /\ HasStarted(q, z, o) /\ Silent(z, o) => Poised(z, x, o)
    BY DEF RowInv
  <2>1. o \in Req /\ Silent(s, o) /\ ~HasStarted(q, s, o)
    BY <1>6, <1>20
  <2>2. x.req[o].num = q.plan[o].num
    <3>1. CASE o = r
      BY <1>16, <3>1
    <3>2. CASE o # r
      BY <1>1, <1>3, <1>4, <1>16, <2>1, <3>2 DEF RowInv
    <3> QED BY <3>1, <3>2
  <2> QED BY <1>19, <2>1, <2>2
<1>24. SettledInv(q, z, x)
  <2> SUFFICES ASSUME NEW o \in Req, Cached(x, o), o \notin Entries(q.order)
               PROVE  HeldTokens(x, o) = x.req[o].num
    BY <1>4 DEF SettledInv
  <2>1. o # r /\ x.req[o] = v.req[o] /\ Cached(v, o)
    BY <1>6, <1>16 DEF Cached
  <2>2. HeldTokens(v, o) = v.req[o].num
    BY <1>1, <2>1 DEF SettledInv
  <2>3. x.kv.obj[v.req[o].cache] = v.kv.obj[v.req[o].cache]
    BY SMTT(30), <1>16, <2>1
  <2>4. HeldTokens(x, o) = HeldTokens(v, o)
    BY <2>1, <2>3, HeldSame
  <2> QED BY <2>1, <2>2, <2>4
<1> QED BY <1>1, <1>15, <1>18, <1>21, <1>22, <1>23, <1>24 DEF Inv

LEMMA AdmitNewStep ==
  ASSUME Inv(sched, p, step, w), NEW cost, AdmitNew(cost)
  PROVE  Inv(sched', p', step', w')
<1> DEFINE r == Head(step.new)
           z == [step EXCEPT !.new = Tail(@)]
<1>1. /\ step.running /\ step.finished = {} /\ step.new # <<>> /\ step' = z /\ sched' = sched /\ p' = p
      /\ Batch => CanAssignSlot(w.rc, r)
  BY DEF AdmitNew
<1>2. PICK u \in AdmitRequest(w, r, p.plan[r].num, p.plan[r].blocks, cost) : w' = Collected(u)
  BY DEF AdmitNew
<1> DEFINE x == Collected(u)
<1>3. r = Head(step.new) /\ x = Collected(u) /\ z = [step EXCEPT !.new = Tail(@)] /\ w' = x
  BY <1>2
<1> HIDE DEF r, x, z
<1>4. Inv(sched, p, z, x)
  BY <1>1, <1>2, <1>3, AdmitKeeps
<1> QED BY <1>1, <1>3, <1>4

-----------------------------------------------------------------------------
(* A request continues.                                                    *)

LEMMA MovesActs ==
  ASSUME NEW v \in Workers, Acting(v), OwnerOk(v), Tidy(v), NEW r \in Req, NEW num, NEW u, Moves(v, u, r, num)
  PROVE  Acting(u) /\ OwnerOk(u) /\ Tidy(u)
<1>1. /\ u.active = v.active /\ u.kv = v.kv /\ u.rc.snapshots = v.rc.snapshots
      /\ \A o \in Req : /\ u.req[o] # None <=> v.req[o] # None
                        /\ v.req[o] # None => u.req[o].cache = v.req[o].cache /\ u.req[o].slot = v.req[o].slot
  BY DEF Moves
<1>2. OwnerOk(u)
  BY <1>1 DEF OwnerOk
<1>3. \A o \in Req : v.req[o] # None => SlotKey(u, o) = SlotKey(v, o)
  BY <1>1 DEF SlotKey
<1>4. \A t \in Slot : u.active[t] # None => v.active[t].req \in Req /\ u.active[t] = v.active[t]
  BY <1>1, WorkerIs
<1>5. Acting(u)
  <2> SUFFICES ASSUME NEW t \in Slot, u.active[t] # None
               PROVE  /\ u.req[u.active[t].req] # None /\ u.req[u.active[t].req].cache = u.active[t].cache
                      /\ SlotKey(u, u.active[t].req) = t
    BY DEF Acting
  <2> DEFINE o == v.active[t].req
  <2>1. v.req[o] # None /\ v.req[o].cache = v.active[t].cache /\ SlotKey(v, o) = t
    BY <1>4 DEF Acting
  <2>2. o \in Req /\ u.active[t] = v.active[t]
    BY <1>4
  <2> HIDE DEF o
  <2> QED BY <1>1, <1>3, <2>1, <2>2 DEF o
<1>6. Tidy(u)
  <2>1. \A o \in Req : (Cached(v, o) => Cached(u, o)) /\ (Stored(v, o) => Stored(u, o))
    BY <1>1 DEF Cached, Stored
  <2> SUFFICES ASSUME NEW c \in Cache, u.kv.obj[c] # Unused
               PROVE  \/ \E o \in Req : Cached(u, o) /\ u.req[o].cache = c
                      \/ \E o \in Req : Stored(u, o) /\ u.rc.snapshots[o].cache = c
    BY DEF Tidy
  <2>2. \/ \E o \in Req : Cached(v, o) /\ v.req[o].cache = c
        \/ \E o \in Req : Stored(v, o) /\ v.rc.snapshots[o].cache = c
    BY <1>1 DEF Tidy
  <2>3. CASE \E o \in Req : Cached(v, o) /\ v.req[o].cache = c
    BY <1>1, <2>1, <2>3 DEF Cached
  <2>4. CASE \E o \in Req : Stored(v, o) /\ v.rc.snapshots[o].cache = c
    BY <1>1, <2>1, <2>4
  <2> QED BY <2>2, <2>3, <2>4
<1> QED BY <1>2, <1>5, <1>6

LEMMA ContinueKeeps ==
  ASSUME NEW d, NEW q, NEW s, NEW v, Inv(d, q, s, v), s.running, s.finished = {}, s.new = <<>>,
         s.cached # <<>>, NEW r, r = Head(s.cached), NEW resumed,
         NEW x, x = ContinueRequest(v, r, q.plan[r].num, q.plan[r].blocks, resumed),
         NEW z, z = [s EXCEPT !.cached = Tail(@)]
  PROVE  Inv(d, q, z, x)
<1>1. /\ SchedInv(d) /\ PlanInv(d, q) /\ StepInv(d, q, s) /\ LogitsInv(q, s) /\ CachesInv(d, v)
      /\ LiveInv(d, q, s, v) /\ RowInv(d, q, s, v) /\ SettledInv(q, s, v) /\ IsScheduler(d)
  BY DEF Inv, SchedInv
<1>2. s \in Steps /\ s.cached \in Seq(Req)
  BY <1>1 DEF StepInv, Steps
<1>3. /\ r \in Req /\ r \in Entries(s.cached) /\ Tail(s.cached) \in Seq(Req)
      /\ \A o : o \in Entries(s.cached) <=> o = r \/ o \in Entries(Tail(s.cached))
  BY <1>2, HeadIs
<1>4. /\ z \in Steps /\ z.running /\ z.finished = {} /\ z.new = <<>> /\ z.cached = Tail(s.cached)
      /\ z.rows = s.rows /\ z.start = s.start /\ z.logits = s.logits
  BY <1>2, <1>3 DEF Steps
<1>5. q.plan[r] # None /\ q.plan[r].kind # "new" /\ ~IsNew(q, s, r)
  BY <1>1, <1>3 DEF StepInv, IsNew
<1>6. /\ q.order \in Seq(Req) /\ Entries(q.order) \subseteq Req /\ r \in Entries(q.order)
  BY <1>1, <1>3, <1>5, PlannedIs DEF PlanInv
<1>7. /\ d.status[r] = "running" /\ q.plan[r].num \in Nat /\ q.plan[r].n \in Nat \ {0}
      /\ q.plan[r].blocks \in Seq(Block)
      /\ q.plan[r].num + q.plan[r].n = d.num[r] /\ d.num[r] \in Nat /\ d.num[r] <= Len(Known(d, r))
  BY <1>1, <1>6, PlannedIs
<1> DEFINE K == KnownTokens(d)
           num == q.plan[r].num
           blocks == q.plan[r].blocks
<1>8. K \in [Req -> Seq(Text)] /\ Sound(v, K) /\ Acting(v) /\ OwnerOk(v) /\ Tidy(v) /\ K[r] = Known(d, r)
  BY <1>1, <1>3, KnownTokensIs DEF CachesInv
<1>9. v.req[r] # None
  BY <1>1, <1>3, <1>5, <1>7 DEF LiveInv
<1>10. num \in Nat /\ num <= Len(K[r]) /\ blocks \in Seq(Block) /\ x = ContinueRequest(v, r, num, blocks, resumed)
  <2>1. Len(Known(d, r)) \in Nat
    BY <1>1, <1>3, KnownIs
  <2> QED BY <1>7, <1>8, <2>1
<1> HIDE DEF K, num, blocks
<1>11. Sound(x, K) /\ Moves(v, x, r, num)
  BY <1>3, <1>8, <1>9, <1>10, ContinueIs
<1>12. Acting(x) /\ OwnerOk(x) /\ Tidy(x)
  BY Zenon, <1>3, <1>8, <1>11, MovesActs DEF Sound
<1>13. CachesInv(d, x)
  BY Zenon, <1>11, <1>12 DEF CachesInv, K
<1>14. /\ x.req[r] # None /\ x.req[r].num = q.plan[r].num
       /\ \A o \in Req \ {r} : x.req[o] = v.req[o]
       /\ x.kv = v.kv /\ \A o \in Req : Stored(x, o) => Stored(v, o)
  BY Zenon, <1>11 DEF Moves, num, Stored
<1>15. ~Handled(s) /\ s.rows = q.order
  BY <1>1 DEF StepInv, Handled
<1>16. StepInv(d, q, z)
  BY <1>1, <1>3, <1>4, <1>15 DEF StepInv
<1>17. \A o : (Silent(z, o) <=> Silent(s, o)) /\ (HasStarted(q, z, o) <=> HasStarted(q, s, o))
  BY <1>4 DEF Silent, HasStarted
<1>18. \A o \in Req : ~HasStarted(q, s, o) /\ Silent(s, o)
  BY <1>1, <1>15 DEF HasStarted, LogitsInv
<1>19. LogitsInv(q, z)
  BY Zenon, <1>4, <1>17, <1>18 DEF LogitsInv
<1>20. LiveInv(d, q, z, x)
  <2> SUFFICES ASSUME NEW o \in Req
               PROVE  /\ x.req[o] # None <=> \/ o \in z.finished
                                             \/ /\ d.status[o] \in {"running", "preempted", "finished"}
                                                /\ ~IsNew(q, z, o)
                      /\ d.status[o] = "waiting" \/ IsNew(q, z, o) => ~Stored(x, o) /\ d.out[o] = <<>>
    BY Zenon DEF LiveInv
  <2>1. IsNew(q, z, o) <=> IsNew(q, s, o)
    BY <1>4 DEF IsNew
  <2>2. x.req[o] # None <=> v.req[o] # None
    BY Zenon, <1>9, <1>14
  <2> QED BY Zenon, <1>1, <1>4, <1>14, <2>1, <2>2 DEF LiveInv
<1>21. RowInv(d, q, z, x)
  <2> SUFFICES ASSUME NEW o \in Entries(q.order), o \notin Entries(z.new), o \notin Entries(z.cached)
               PROVE  /\ Silent(z, o) => x.req[o].num = q.plan[o].num
                      /\ ~Silent(z, o) => Finished(z, x, o, Known(d, o), d.num[o])
                      /\ HasStarted(q, z, o) /\ Silent(z, o) => Poised(z, x, o)
    BY Zenon DEF RowInv
  <2>1. o \in Req /\ Silent(s, o) /\ ~HasStarted(q, s, o)
    BY <1>6, <1>18
  <2>2. x.req[o].num = q.plan[o].num
    <3>1. CASE o = r
      BY Zenon, <1>14, <3>1
    <3>2. CASE o # r
      <4>1. o \notin Entries(s.cached) /\ s.new = z.new
        BY <1>3, <1>4, <3>2
      <4>2. o \notin Entries(s.new)
        BY <4>1
      <4>3. v.req[o].num = q.plan[o].num
        BY <1>1, <2>1, <4>1, <4>2 DEF RowInv
      <4> QED BY Zenon, <1>14, <2>1, <3>2, <4>3
    <3> QED BY Zenon, <3>1, <3>2
  <2> QED BY Zenon, <1>17, <2>1, <2>2
<1>22. SettledInv(q, z, x)
  <2> SUFFICES ASSUME NEW o \in Req, Cached(x, o), o \notin Entries(q.order)
               PROVE  HeldTokens(x, o) = x.req[o].num
    BY Zenon, <1>4 DEF SettledInv
  <2>1. o # r /\ x.req[o] = v.req[o] /\ Cached(v, o)
    BY Zenon, <1>6, <1>14 DEF Cached
  <2>2. HeldTokens(v, o) = v.req[o].num
    BY <1>1, <2>1 DEF SettledInv
  <2>3. x.kv.obj[v.req[o].cache] = v.kv.obj[v.req[o].cache]
    BY Zenon, <1>14
  <2>4. HeldTokens(x, o) = HeldTokens(v, o)
    BY Zenon, <2>1, <2>3, HeldSame
  <2> QED BY Zenon, <2>1, <2>2, <2>4
<1> QED BY Zenon, <1>1, <1>13, <1>16, <1>19, <1>20, <1>21, <1>22 DEF Inv

LEMMA ContinueCachedStep ==
  ASSUME Inv(sched, p, step, w), ContinueCached
  PROVE  Inv(sched', p', step', w')
<1> DEFINE r == Head(step.cached)
           resumed == p.plan[r].kind = "resumed"
           x == ContinueRequest(w, r, p.plan[r].num, p.plan[r].blocks, resumed)
           z == [step EXCEPT !.cached = Tail(@)]
<1>1. /\ step.running /\ step.finished = {} /\ step.new = <<>> /\ step.cached # <<>> /\ step' = z /\ sched' = sched /\ p' = p
      /\ w' = x
  BY DEF ContinueCached
<1>2. r = Head(step.cached) /\ x = ContinueRequest(w, r, p.plan[r].num, p.plan[r].blocks, resumed) /\ z = [step EXCEPT !.cached = Tail(@)]
  OBVIOUS
<1> HIDE DEF r, resumed, x, z
<1>3. Inv(sched, p, z, x)
  BY <1>1, <1>2, ContinueKeeps
<1> QED BY <1>1, <1>3

-----------------------------------------------------------------------------
(* A row is started.                                                       *)

LEMMA RunsActs ==
  ASSUME NEW v \in Workers, Slotted(v), Acting(v), OwnerOk(v), NEW r \in Req, NEW n, NEW u, Runs(v, u, r, n)
  PROVE  Acting(u) /\ OwnerOk(u) /\ SlotKey(u, r) = SlotKey(v, r) /\ SlotKey(v, r) \in Slot
<1> DEFINE k == SlotKey(v, r)
<1>1. /\ v.req[r] # None /\ Cached(u, r) /\ u.req[r].slot = v.req[r].slot
      /\ \A o \in Req \ {r} : u.req[o] = v.req[o]
      /\ \A t \in Slot \ {k} : u.kv.owner[t] = v.kv.owner[t] /\ u.active[t] = v.active[t]
      /\ u.active[k] = [req |-> r, cache |-> u.req[r].cache] /\ u.kv.owner[k] = u.req[r].cache
  BY DEF Runs
<1>2. k \in Slot
  BY <1>1, SlotKeyIs
<1>3. SlotKey(u, r) = k
  BY <1>1 DEF SlotKey
<1>4. u.active[k].req = r /\ u.active[k].cache = u.req[r].cache
  BY <1>1
<1>5. OwnerOk(u)
  <2> SUFFICES ASSUME NEW t \in Slot, u.active[t] # None PROVE u.kv.owner[t] \in {None, u.active[t].cache}
    BY DEF OwnerOk
  <2>1. CASE t = k
    BY <1>1, <1>4, <2>1
  <2>2. CASE t # k
    <3>1. u.kv.owner[t] = v.kv.owner[t] /\ u.active[t] = v.active[t]
      BY <1>1, <2>2
    <3> QED BY <3>1 DEF OwnerOk
  <2> QED BY <2>1, <2>2
<1>6. Acting(u)
  <2> SUFFICES ASSUME NEW t \in Slot, u.active[t] # None
               PROVE  /\ u.req[u.active[t].req] # None /\ u.req[u.active[t].req].cache = u.active[t].cache
                      /\ SlotKey(u, u.active[t].req) = t
    BY DEF Acting
  <2>1. CASE t = k
    BY <1>1, <1>3, <1>4, <2>1 DEF Cached
  <2>2. CASE t # k
    <3> DEFINE o == v.active[t].req
    <3>1. u.active[t] = v.active[t]
      BY <1>1, <2>2
    <3>2. v.req[o] # None /\ v.req[o].cache = v.active[t].cache /\ SlotKey(v, o) = t /\ o \in Req
      BY <3>1, WorkerIs DEF Acting
    <3>3. o # r
      BY <2>2, <3>2
    <3>4. u.req[o] = v.req[o]
      BY <1>1, <3>2, <3>3
    <3> HIDE DEF o
    <3>5. SlotKey(u, o) = SlotKey(v, o)
      BY <3>4 DEF SlotKey
    <3> QED BY <3>1, <3>2, <3>4, <3>5 DEF o
  <2> QED BY <2>1, <2>2
<1> QED BY <1>2, <1>3, <1>5, <1>6

\* What starting the row of r leaves of v in x.
Spares(v, x, r) ==
  /\ \A o \in Req \ {r} : x.req[o] = v.req[o]
  /\ \A o \in Req \ {r} : Cached(v, o) => x.kv.obj[v.req[o].cache] = v.kv.obj[v.req[o].cache]
  /\ \A t \in Slot \ {SlotKey(v, r)} : x.active[t] = v.active[t]
  /\ \A t \in Slot \ {SlotKey(v, r)}, o \in Req \ {r} :
        Cached(v, o) /\ v.kv.owner[t] = v.req[o].cache => x.kv.owner[t] = v.kv.owner[t]
  /\ \A o \in Req : Stored(x, o) => Stored(v, o) \/ v.req[o] # None

\* The row of r is on its slot, with n tokens in its cache and num counted.
OnItsSlot(x, r, n, num) ==
  /\ Cached(x, r) /\ x.req[r].num = num
  /\ x.active[SlotKey(x, r)] = [req |-> r, cache |-> x.req[r].cache]
  /\ x.kv.owner[SlotKey(x, r)] = x.req[r].cache
  /\ HeldTokens(x, r) = n

LEMMA RunsSpares ==
  ASSUME NEW v, NEW r \in Req, NEW n, NEW u, Runs(v, u, r, n), SlotKey(u, r) = SlotKey(v, r)
  PROVE  Spares(v, u, r) /\ OnItsSlot(u, r, n, v.req[r].num)
<1>1. Spares(v, u, r)
  BY DEF Runs, Spares
<1>2. OnItsSlot(u, r, n, v.req[r].num)
  BY DEF Runs, OnItsSlot
<1> QED BY <1>1, <1>2

\* Collecting leaves it so.
LEMMA SweptSpares ==
  ASSUME NEW v, NEW u, NEW x, Swept(u, x), NEW r \in Req, NEW n, NEW num,
         Spares(v, u, r), OnItsSlot(u, r, n, num), SlotKey(u, r) \in Slot
  PROVE  Spares(v, x, r) /\ OnItsSlot(x, r, n, num)
<1>1. /\ x.rc = u.rc /\ x.req = u.req /\ x.active = u.active
      /\ \A o \in Req : Cached(u, o) => x.kv.obj[u.req[o].cache] = u.kv.obj[u.req[o].cache]
      /\ \A o \in Req, t \in Slot : Cached(u, o) /\ u.kv.owner[t] = u.req[o].cache =>
           x.kv.owner[t] = u.kv.owner[t]
  BY DEF Swept
<1>2. \A o \in Req \ {r} : Cached(v, o) => Cached(u, o) /\ u.req[o] = v.req[o]
  BY DEF Spares, Cached
<1>3. Spares(v, x, r)
  <2>1. \A o \in Req \ {r} : x.req[o] = v.req[o]
    BY <1>1 DEF Spares
  <2>2. \A o \in Req \ {r} : Cached(v, o) => x.kv.obj[v.req[o].cache] = v.kv.obj[v.req[o].cache]
    <3> SUFFICES ASSUME NEW o \in Req \ {r}, Cached(v, o)
                 PROVE  x.kv.obj[v.req[o].cache] = v.kv.obj[v.req[o].cache]
      OBVIOUS
    <3>1. u.kv.obj[v.req[o].cache] = v.kv.obj[v.req[o].cache]
      BY DEF Spares
    <3>2. Cached(u, o) /\ u.req[o] = v.req[o]
      BY <1>2
    <3> QED BY <1>1, <3>1, <3>2
  <2>3. \A t \in Slot \ {SlotKey(v, r)} : x.active[t] = v.active[t]
    BY <1>1 DEF Spares
  <2>4. \A t \in Slot \ {SlotKey(v, r)}, o \in Req \ {r} :
          Cached(v, o) /\ v.kv.owner[t] = v.req[o].cache => x.kv.owner[t] = v.kv.owner[t]
    <3> SUFFICES ASSUME NEW t \in Slot \ {SlotKey(v, r)}, NEW o \in Req \ {r}, Cached(v, o),
                        v.kv.owner[t] = v.req[o].cache
                 PROVE  x.kv.owner[t] = v.kv.owner[t]
      OBVIOUS
    <3>1. u.kv.owner[t] = v.kv.owner[t]
      BY DEF Spares
    <3>2. Cached(u, o) /\ u.req[o] = v.req[o]
      BY <1>2
    <3> QED BY <1>1, <3>1, <3>2
  <2>5. \A o \in Req : Stored(x, o) => Stored(v, o) \/ v.req[o] # None
    BY <1>1 DEF Spares, Stored
  <2> QED BY <2>1, <2>2, <2>3, <2>4, <2>5 DEF Spares
<1>4. OnItsSlot(x, r, n, num)
  <2>1. SlotKey(x, r) = SlotKey(u, r) /\ Cached(u, r)
    BY <1>1 DEF SlotKey, OnItsSlot
  <2>2. Cached(x, r) /\ x.req[r] = u.req[r] /\ x.kv.obj[u.req[r].cache] = u.kv.obj[u.req[r].cache]
    BY <1>1, <2>1 DEF Cached
  <2>3. HeldTokens(x, r) = HeldTokens(u, r)
    BY <2>1, <2>2, HeldSame
  <2>4. x.kv.owner[SlotKey(u, r)] = u.kv.owner[SlotKey(u, r)]
    BY <1>1, <2>1 DEF OnItsSlot
  <2> QED BY <1>1, <2>1, <2>2, <2>3, <2>4 DEF OnItsSlot
<1> QED BY <1>3, <1>4

\* z is s with the row r started.
NextRow(s, z) ==
  /\ z \in Steps /\ z.running /\ z.finished = {} /\ z.new = <<>> /\ z.cached = <<>>
  /\ z.rows = Tail(s.rows)

\* In a batch, the row of r waits; otherwise it ran.
RowOf(d, q, s, z, r, n, num) ==
  /\ \A o \in Req \ {r} : z.logits[o] = s.logits[o] /\ z.start[o] = s.start[o]
  /\ Batch => z.logits[r] = <<>> /\ num = q.plan[r].num /\ z.start[r] = n /\ n <= num
  /\ ~Batch => z.logits[r] = SubSeq(Known(d, r), 1, num) /\ num = d.num[r] /\ n = num

LEMMA HeldElsewhere ==
  ASSUME NEW v, NEW x, NEW r \in Req, Spares(v, x, r), NEW o \in Req \ {r}, Cached(v, o)
  PROVE  x.req[o] = v.req[o] /\ Cached(x, o) /\ HeldTokens(x, o) = HeldTokens(v, o)
<1>1. x.req[o] = v.req[o] /\ x.kv.obj[v.req[o].cache] = v.kv.obj[v.req[o].cache]
  BY DEF Spares
<1>2. Cached(x, o)
  BY <1>1 DEF Cached
<1> QED BY <1>1, <1>2, HeldSame

\* A row that is poised stays so when another is started.
LEMMA PoisedElsewhere ==
  ASSUME NEW v \in Workers, Slotted(v), RcOk(v.rc), Batch, NEW s, NEW z, NEW r \in Req, v.req[r] # None,
         NEW x, Spares(v, x, r), NEW o \in Req \ {r}, Poised(s, v, o), z.start[o] = s.start[o]
  PROVE  Poised(z, x, o)
<1>1. Cached(v, o) /\ v.req[o] # None
  BY DEF Poised, Cached
<1>2. x.req[o] = v.req[o] /\ Cached(x, o) /\ HeldTokens(x, o) = HeldTokens(v, o)
  BY <1>1, HeldElsewhere
<1>3. SlotKey(x, o) = SlotKey(v, o)
  BY <1>2 DEF SlotKey
<1>4. SlotKey(v, o) \in Slot \ {SlotKey(v, r)}
  BY <1>1, SlotKeyIs, SlotKeysDiffer
<1>5. x.active[SlotKey(v, o)] = v.active[SlotKey(v, o)]
  BY <1>4 DEF Spares
<1>6. v.kv.owner[SlotKey(v, o)] = v.req[o].cache
  BY DEF Poised
<1>7. x.kv.owner[SlotKey(v, o)] = v.kv.owner[SlotKey(v, o)]
  BY <1>1, <1>4, <1>6 DEF Spares
<1> QED BY <1>2, <1>3, <1>5, <1>6, <1>7 DEF Poised

LEMMA StartKeeps ==
  ASSUME NEW d, NEW q, NEW s, NEW v, Inv(d, q, s, v), s.running, Handled(s), s.rows # <<>>,
         NEW r, r = Head(s.rows), NEW x, CachesInv(d, x), Spares(v, x, r), NEW n, NEW num,
         OnItsSlot(x, r, n, num), NEW z, NextRow(s, z), RowOf(d, q, s, z, r, n, num)
  PROVE  Inv(d, q, z, x)
<1>1. /\ SchedInv(d) /\ PlanInv(d, q) /\ StepInv(d, q, s) /\ LogitsInv(q, s) /\ CachesInv(d, v)
      /\ LiveInv(d, q, s, v) /\ RowInv(d, q, s, v) /\ SettledInv(q, s, v) /\ IsScheduler(d)
  BY DEF Inv, SchedInv
<1>2. s \in Steps /\ s.rows \in Seq(Req) /\ Injective(s.rows) /\ Entries(s.rows) \subseteq Entries(q.order)
  BY <1>1 DEF StepInv, Steps
<1>3. /\ r \in Req /\ r \in Entries(s.rows) /\ Tail(s.rows) \in Seq(Req)
      /\ \A o : o \in Entries(s.rows) <=> o = r \/ o \in Entries(Tail(s.rows))
      /\ Injective(Tail(s.rows)) /\ r \notin Entries(Tail(s.rows))
  BY <1>2, HeadIs
<1>4. /\ z \in Steps /\ z.running /\ z.finished = {} /\ z.new = <<>> /\ z.cached = <<>>
      /\ z.rows = Tail(s.rows) /\ Handled(z)
  BY DEF NextRow, Handled
<1>5. /\ q.order \in Seq(Req) /\ Entries(q.order) \subseteq Req /\ r \in Entries(q.order)
  BY <1>1, <1>2, <1>3, PlannedIs
<1>6. /\ d.status[r] = "running" /\ q.plan[r].num \in Nat /\ q.plan[r].n \in Nat \ {0}
      /\ q.plan[r].num + q.plan[r].n = d.num[r] /\ d.num[r] \in Nat /\ d.num[r] <= Len(Known(d, r))
  BY <1>1, <1>5, PlannedIs
<1>7. s.finished = {} /\ s.new = <<>> /\ s.cached = <<>>
  BY DEF Handled
<1>8. \A o : o \notin Entries(<<>>)
  BY DEF Entries
<1>9. \A o : HasStarted(q, z, o) <=> HasStarted(q, s, o) \/ o = r
  BY <1>3, <1>4, <1>5 DEF HasStarted
<1>10. ~HasStarted(q, s, r) /\ Silent(s, r)
  BY <1>1, <1>3 DEF HasStarted, LogitsInv
<1>11. \A o \in Req \ {r} : (Silent(z, o) <=> Silent(s, o)) /\ z.start[o] = s.start[o] /\ z.logits[o] = s.logits[o]
  BY DEF Silent, RowOf
<1>12. Batch => Silent(z, r)
  BY DEF Silent, RowOf
<1>13. ASSUME ~Batch PROVE ~Silent(z, r)
  <2>1. Known(d, r) \in Seq(Text) /\ Len(Known(d, r)) \in Nat
    BY <1>1, <1>3, KnownIs
  <2>2. d.num[r] \in 1 .. Len(Known(d, r)) /\ z.logits[r] = SubSeq(Known(d, r), 1, d.num[r])
    BY <1>6, <1>13, <2>1 DEF RowOf
  <2>3. Len(SubSeq(Known(d, r), 1, d.num[r])) = d.num[r]
    BY <2>1, <2>2, FirstEntries
  <2>4. z.logits[r] # <<>>
    BY <2>2, <2>3
  <2> QED BY <2>4 DEF Silent
<1>14. ASSUME Batch PROVE \A o \in Req : Silent(s, o)
  BY <1>1, <1>14 DEF LogitsInv
<1>15. StepInv(d, q, z)
  <2>1. Injective(z.new) /\ Entries(z.new) = {} /\ Entries(z.cached) = {}
    BY <1>4, <1>8 DEF Injective
  <2>2. Injective(z.rows) /\ Entries(z.rows) \subseteq Entries(q.order)
    BY <1>2, <1>3, <1>4
  <2>3. \A o \in Req : d.status[o] # "finished"
    BY <1>1 DEF StepInv
  <2>4. \A o : o \notin Entries(z.new) /\ o \notin Entries(z.cached) /\ o \notin z.finished
    BY <1>4, <2>1
  <2> QED BY <1>4, <2>1, <2>2, <2>3, <2>4 DEF StepInv
<1>16. LogitsInv(q, z)
  <2>1. \A o \in Req : ~HasStarted(q, z, o) => Silent(z, o)
    BY <1>1, <1>9, <1>11 DEF LogitsInv
  <2>2. ~Batch => \A o \in Req : HasStarted(q, z, o) => ~Silent(z, o)
    BY <1>1, <1>9, <1>11, <1>13 DEF LogitsInv
  <2>3. Batch => \A o \in Req : Silent(z, o)
    BY <1>11, <1>12, <1>14
  <2> QED BY <2>1, <2>2, <2>3 DEF LogitsInv
<1>17. \A o : ~IsNew(q, z, o) /\ ~IsNew(q, s, o)
  BY <1>4, <1>7, <1>8 DEF IsNew
<1>18. v.req[r] # None /\ x.req[r] # None
  BY <1>1, <1>3, <1>6, <1>17 DEF LiveInv, OnItsSlot, Cached
<1>19. LiveInv(d, q, z, x)
  <2> SUFFICES ASSUME NEW o \in Req
               PROVE  /\ x.req[o] # None <=> \/ o \in z.finished
                                             \/ /\ d.status[o] \in {"running", "preempted", "finished"}
                                                /\ ~IsNew(q, z, o)
                      /\ d.status[o] = "waiting" \/ IsNew(q, z, o) => ~Stored(x, o) /\ d.out[o] = <<>>
    BY DEF LiveInv
  <2>1. /\ v.req[o] # None <=> d.status[o] \in {"running", "preempted", "finished"}
        /\ d.status[o] = "waiting" => ~Stored(v, o) /\ d.out[o] = <<>>
    BY <1>1, <1>7, <1>17 DEF LiveInv
  <2>2. x.req[o] # None <=> v.req[o] # None
    BY <1>18 DEF Spares
  <2>3. Stored(x, o) => Stored(v, o) \/ v.req[o] # None
    BY DEF Spares
  <2>4. d.status[o] = "waiting" => ~Stored(x, o) /\ d.out[o] = <<>>
    BY <2>1, <2>3
  <2> QED BY <1>4, <1>17, <2>1, <2>2, <2>4
<1>20. RowInv(d, q, z, x)
  <2> SUFFICES ASSUME NEW o \in Entries(q.order)
               PROVE  /\ Silent(z, o) => x.req[o].num = q.plan[o].num
                      /\ ~Silent(z, o) => Finished(z, x, o, Known(d, o), d.num[o])
                      /\ HasStarted(q, z, o) /\ Silent(z, o) => Poised(z, x, o)
    BY DEF RowInv
  <2>1. o \in Req
    BY <1>5
  <2>2. CASE o = r
    <3>1. CASE Batch
      <4>1. Silent(z, r) /\ x.req[r].num = q.plan[r].num /\ Poised(z, x, r)
        BY <1>12, <3>1 DEF RowOf, OnItsSlot, Poised
      <4> QED BY <2>2, <4>1
    <3>2. CASE ~Batch
      <4>1. ~Silent(z, r)
        BY <1>13, <3>2
      <4>2. Finished(z, x, r, Known(d, r), d.num[r])
        BY <3>2 DEF RowOf, OnItsSlot, Finished
      <4> QED BY <2>2, <4>1, <4>2
    <3> QED BY <3>1, <3>2
  <2>3. CASE o # r
    <3>1. /\ Silent(s, o) => v.req[o].num = q.plan[o].num
          /\ ~Silent(s, o) => Finished(s, v, o, Known(d, o), d.num[o])
          /\ HasStarted(q, s, o) /\ Silent(s, o) => Poised(s, v, o)
      BY <1>1, <1>7, <1>8 DEF RowInv
    <3>2. o \in Req \ {r} /\ x.req[o] = v.req[o]
      BY <2>1, <2>3 DEF Spares
    <3>3. (Silent(z, o) <=> Silent(s, o)) /\ (HasStarted(q, z, o) <=> HasStarted(q, s, o))
          /\ z.start[o] = s.start[o] /\ z.logits[o] = s.logits[o]
      BY <1>9, <1>11, <2>3, <3>2
    <3>4. ASSUME ~Silent(s, o) PROVE Finished(z, x, o, Known(d, o), d.num[o])
      <4>1. Finished(s, v, o, Known(d, o), d.num[o])
        BY <3>1, <3>4
      <4>2. Cached(v, o)
        BY <4>1 DEF Finished
      <4>3. Cached(x, o) /\ HeldTokens(x, o) = HeldTokens(v, o)
        BY <1>3, <3>2, <4>2, HeldElsewhere
      <4> QED BY <3>2, <3>3, <4>1, <4>3 DEF Finished
    <3>5. ASSUME HasStarted(q, s, o), Silent(s, o) PROVE Poised(z, x, o)
      <4>1. Batch /\ Poised(s, v, o)
        BY <1>1, <2>1, <3>1, <3>5 DEF LogitsInv
      <4>2. v \in Workers /\ Slotted(v) /\ RcOk(v.rc)
        BY <1>1 DEF CachesInv, Sound
      <4> QED BY <1>3, <1>18, <3>2, <3>3, <4>1, <4>2, PoisedElsewhere
    <3> QED BY <3>1, <3>2, <3>3, <3>4, <3>5
  <2> QED BY <2>2, <2>3
<1>21. SettledInv(q, z, x)
  <2> SUFFICES ASSUME NEW o \in Req, Cached(x, o), o \notin Entries(q.order)
               PROVE  HeldTokens(x, o) = x.req[o].num
    BY <1>4 DEF SettledInv
  <2>1. o \in Req \ {r} /\ x.req[o] = v.req[o]
    BY <1>5 DEF Spares
  <2>2. Cached(v, o)
    BY <2>1 DEF Cached
  <2>3. HeldTokens(v, o) = v.req[o].num
    BY <1>1, <2>2 DEF SettledInv
  <2>4. HeldTokens(x, o) = HeldTokens(v, o)
    BY <1>3, <2>1, <2>2, HeldElsewhere
  <2> QED BY <2>1, <2>3, <2>4
<1> QED BY <1>1, <1>15, <1>16, <1>19, <1>20, <1>21 DEF Inv

\* The rows of R are on the slots they were on, with the caches they had.
KeepsPlaces(v, y) ==
  \A o \in Req : /\ y.req[o] # None <=> v.req[o] # None
                 /\ v.req[o] # None => y.req[o].cache = v.req[o].cache /\ y.req[o].slot = v.req[o].slot

LEMMA RanActs ==
  ASSUME NEW v \in Workers, Acting(v), OwnerOk(v), NEW K, NEW R, NEW start, NEW end,
         Ready(v, R, start, end, K), NEW x, Ran(v, x, R, end, K), NEW y, Ends(x, y, R, end)
  PROVE  Acting(y) /\ OwnerOk(y) /\ KeepsPlaces(v, y)
<1>0. \A r \in R : v.req[r] # None
  BY DEF Ready, Cached
<1>1. /\ y.active = v.active /\ y.kv.owner = v.kv.owner
      /\ \A o \in Req : /\ y.req[o] # None <=> v.req[o] # None
                        /\ v.req[o] # None => y.req[o].cache = v.req[o].cache /\ y.req[o].slot = v.req[o].slot
  <2>1. x.req = v.req /\ x.active = v.active /\ x.kv.owner = v.kv.owner
    BY DEF Ran
  <2>2. y.active = x.active /\ y.kv = x.kv
    BY DEF Ends
  <2>3. ASSUME NEW o \in Req
        PROVE  /\ y.req[o] # None <=> v.req[o] # None
               /\ v.req[o] # None => y.req[o].cache = v.req[o].cache /\ y.req[o].slot = v.req[o].slot
    <3>1. CASE o \in R
      BY <1>0, <2>1, <3>1 DEF Ends
    <3>2. CASE o \notin R
      BY <2>1, <3>2 DEF Ends
    <3> QED BY <3>1, <3>2
  <2> QED BY <2>1, <2>2, <2>3
<1>2. OwnerOk(y)
  BY <1>1 DEF OwnerOk
<1>3. \A o \in Req : v.req[o] # None => SlotKey(y, o) = SlotKey(v, o)
  BY <1>1 DEF SlotKey
<1>4. Acting(y)
  <2> SUFFICES ASSUME NEW t \in Slot, y.active[t] # None
               PROVE  /\ y.req[y.active[t].req] # None /\ y.req[y.active[t].req].cache = y.active[t].cache
                      /\ SlotKey(y, y.active[t].req) = t
    BY DEF Acting
  <2> DEFINE o == v.active[t].req
  <2>1. v.req[o] # None /\ v.req[o].cache = v.active[t].cache /\ SlotKey(v, o) = t /\ o \in Req
        /\ y.active[t] = v.active[t]
    BY <1>1, WorkerIs DEF Acting
  <2> HIDE DEF o
  <2> QED BY <1>1, <1>3, <2>1 DEF o
<1> QED BY <1>1, <1>2, <1>4 DEF KeepsPlaces

\* z is s with the row r started at n.
StartsAt(s, z, r, n, start, logits, warned) ==
  /\ start = [s.start EXCEPT ![r] = n]
  /\ z = [s EXCEPT !.rows = Tail(@), !.start = start, !.logits = logits, !.warned = warned]

HasRow(s, z, r, n, logits) ==
  /\ NextRow(s, z) /\ z.logits = logits
  /\ z.start[r] = n /\ \A o \in Req \ {r} : z.start[o] = s.start[o]

LEMMA NextRowIs ==
  ASSUME NEW s \in Steps, Handled(s), s.running, Tail(s.rows) \in Seq(Req), NEW r \in Req, NEW n \in Nat,
         NEW logits \in [Req -> Seq(Text)], NEW warned \in SUBSET Req,
         NEW start, NEW z, StartsAt(s, z, r, n, start, logits, warned)
  PROVE  HasRow(s, z, r, n, logits)
<1>0. start = [s.start EXCEPT ![r] = n]
  BY DEF StartsAt
<1>1. start \in [Req -> Nat \cup {None}] /\ start[r] = n /\ \A o \in Req \ {r} : start[o] = s.start[o]
  BY <1>0 DEF Steps
<1>2. /\ z \in Steps /\ z.running /\ z.finished = s.finished /\ z.new = s.new /\ z.cached = s.cached
      /\ z.rows = Tail(s.rows) /\ z.logits = logits /\ z.start = start
  BY <1>1 DEF Steps, StartsAt
<1>3. NextRow(s, z)
  BY <1>2 DEF NextRow, Handled
<1> QED BY <1>1, <1>2, <1>3 DEF HasRow

\* u is v with r started from load.
Starting(v, u, load, r, cost) ==
  load \in LoadSnapshotIfNeeded(v, r, cost) /\ u = StartRequestStep(load.w, r, load.start, cost)

Started(d, q, v, u, r, n) ==
  /\ Sound(u, KnownTokens(d)) /\ Acting(u) /\ OwnerOk(u) /\ Saves(v, u)
  /\ Spares(v, u, r) /\ OnItsSlot(u, r, n, q.plan[r].num)
  /\ SlotKey(u, r) = SlotKey(v, r) /\ SlotKey(u, r) \in Slot
  /\ n \in Nat /\ n <= q.plan[r].num /\ v \in Workers

LEMMA RowStarts ==
  ASSUME NEW d, NEW q, NEW s, NEW v, Inv(d, q, s, v), s.running, Handled(s), s.rows # <<>>,
         NEW r, r = Head(s.rows), NEW cost, NEW load, NEW u, Starting(v, u, load, r, cost),
         NEW n, n = load.start
  PROVE  Started(d, q, v, u, r, n)
<1>0. load \in LoadSnapshotIfNeeded(v, r, cost) /\ u = StartRequestStep(load.w, r, n, cost)
  BY DEF Starting
<1>1. /\ SchedInv(d) /\ PlanInv(d, q) /\ StepInv(d, q, s) /\ LogitsInv(q, s) /\ CachesInv(d, v)
      /\ LiveInv(d, q, s, v) /\ RowInv(d, q, s, v) /\ SettledInv(q, s, v) /\ IsScheduler(d)
  BY DEF Inv, SchedInv
<1>2. s \in Steps /\ s.rows \in Seq(Req) /\ Entries(s.rows) \subseteq Entries(q.order)
  BY <1>1 DEF StepInv, Steps
<1>3. r \in Req /\ r \in Entries(s.rows)
  BY <1>2, HeadIs
<1>4. r \in Entries(q.order) /\ d.status[r] = "running"
  BY <1>1, <1>2, <1>3, PlannedIs
<1>5. s.finished = {} /\ s.new = <<>> /\ s.cached = <<>>
  BY DEF Handled
<1>6. \A o : o \notin Entries(<<>>)
  BY DEF Entries
<1>7. v.req[r] # None
  BY <1>1, <1>3, <1>4, <1>5, <1>6 DEF LiveInv, IsNew
<1>8. v.req[r].num = q.plan[r].num
  <2>1. Silent(s, r)
    BY <1>1, <1>3 DEF HasStarted, LogitsInv
  <2> QED BY <1>1, <1>4, <1>5, <1>6, <2>1 DEF RowInv
<1> DEFINE K == KnownTokens(d)
<1>9. /\ K \in [Req -> Seq(Text)] /\ IsText(K) /\ Sound(v, K) /\ Acting(v) /\ OwnerOk(v) /\ Tidy(v)
  BY <1>1, KnownTokensIs DEF CachesInv
<1> HIDE DEF K
<1>10. SpareThree(v.kv, 1)
  <2>1. Room(v.kv, 4)
    BY <1>9, TidyHasRoom
  <2> QED BY <2>1 DEF SpareThree
<1>11. Loads(v, load, r, K) /\ Room(load.w.kv, 1)
  BY <1>0, <1>3, <1>7, <1>9, <1>10, LoadSnapshotIfNeededIs
<1> DEFINE a == load.w
<1>12. /\ Sound(a, K) /\ Loaded(v, a, r) /\ n \in Nat /\ n <= v.req[r].num /\ n <= HeldTokens(a, r)
       /\ u = StartRequestStep(a, r, n, cost)
  BY <1>0, <1>11 DEF Loads
<1>13. Spare(a.kv, 0)
  BY <1>11 DEF Spare
<1> HIDE DEF a
<1>14. Sound(u, K) /\ Runs(v, u, r, n) /\ Saves(v, u)
  BY <1>3, <1>7, <1>9, <1>12, <1>13, StartRequestStepIs
<1>15. v \in Workers /\ Slotted(v)
  BY <1>9 DEF Sound
<1>16. Acting(u) /\ OwnerOk(u) /\ SlotKey(u, r) = SlotKey(v, r) /\ SlotKey(v, r) \in Slot
  BY <1>3, <1>9, <1>14, <1>15, RunsActs
<1>17. Spares(v, u, r) /\ OnItsSlot(u, r, n, v.req[r].num)
  BY <1>3, <1>14, <1>16, RunsSpares
<1>18. Sound(u, KnownTokens(d))
  BY <1>14 DEF K
<1> QED BY <1>8, <1>12, <1>14, <1>15, <1>16, <1>17, <1>18 DEF Started

\* The row of r goes from n to e, of num and those scheduled, in t.
Extent(r, n, num, e, t) ==
  /\ n \in Nat /\ num \in Nat /\ e \in Nat
  /\ num + p.plan[r].n = e /\ n <= e /\ e <= Len(t)

\* The row of r, once it ran to the end.
RanTo(v, y, r, e, ran, t) ==
  /\ Acting(y) /\ OwnerOk(y)
  /\ Spares(v, y, r) /\ OnItsSlot(y, r, e, e) /\ SlotKey(y, r) \in Slot
  /\ LogitsOf(ran, {r})[r] = SubSeq(t, 1, e)
  /\ \A o \in Req \ {r} : LogitsOf(ran, {r})[o] = step.logits[o]

LEMMA RanAlone ==
  ASSUME NEW K \in [Req -> Seq(Text)], NEW v \in Workers, NEW u, Sound(u, K), Acting(u), OwnerOk(u),
         NEW r \in Req, NEW n, NEW num, NEW e, NEW t, t = K[r], Extent(r, n, num, e, t),
         Spares(v, u, r), OnItsSlot(u, r, n, num), SlotKey(u, r) \in Slot,
         NEW start, start[r] = n, NEW ran, ran = Infer(u, start, {r}), NEW y, CountsOne(ran, y, r, e)
  PROVE  Sound(y, K) /\ RanTo(v, y, r, e, ran, t)
<1> DEFINE end == [o \in Req |-> e]
<1>0. /\ end[r] = num + p.plan[r].n /\ end[r] \in Nat /\ n <= end[r] /\ end[r] <= Len(K[r])
      /\ end[r] = e /\ n \in Nat /\ num \in Nat
  BY DEF Extent
<1> HIDE DEF end
<1> DEFINE R == {r}
<1>1. R \in SUBSET Req /\ r \in R /\ \A o : o \in R <=> o = r
  OBVIOUS
<1>2. u \in Workers /\ Cached(u, r) /\ u.req[r] # None
  BY DEF Sound, OnItsSlot, Cached
<1>3. /\ u.active[SlotKey(u, r)].cache = u.req[r].cache /\ u.active[SlotKey(u, r)].req = r
      /\ u.req[r].num = num /\ u.kv.owner[SlotKey(u, r)] = u.req[r].cache
      /\ Len(u.kv.obj[u.req[r].cache].tokens) = n
  BY <1>2 DEF OnItsSlot, HeldTokens, CacheOf, SeqLength, Cached
<1>4. Ready(u, R, start, end, K)
  BY <1>0, <1>1, <1>2, <1>3 DEF Ready
<1>5. ran = Infer(u, start, R) /\ CountsOne(ran, y, r, end[r])
  BY <1>0
<1>6. Ran(u, ran, R, end, K)
  BY <1>4, <1>5, InferIs
<1>7. /\ ran \in Workers /\ ran.req = u.req /\ ran.active = u.active /\ ran.rc = u.rc
      /\ ran.kv.obj[u.req[r].cache].tokens = SubSeq(K[r], 1, end[r])
      /\ \A c \in Cache : (\A o \in R : u.req[o].cache # c) => ran.kv.obj[c] = u.kv.obj[c]
      /\ ran.kv.owner = u.kv.owner
  BY Zenon, <1>6 DEF Ran
<1>8. Ends(ran, y, {r}, end)
  BY Zenon, <1>0, <1>2, <1>5, <1>7, CountsOneEnds
<1>9. Ends(ran, y, R, end)
  BY <1>8
<1>10. Sound(y, K)
  BY <1>4, <1>6, <1>9, RanKeeps
<1> HIDE DEF R
<1>11. Acting(y) /\ OwnerOk(y) /\ KeepsPlaces(u, y)
  BY <1>2, <1>4, <1>6, <1>9, RanActs
<1>12. /\ Acting(y) /\ OwnerOk(y)
       /\ \A o \in Req : /\ y.req[o] # None <=> u.req[o] # None
                         /\ u.req[o] # None => /\ y.req[o].cache = u.req[o].cache
                                               /\ y.req[o].slot = u.req[o].slot
  BY <1>11 DEF KeepsPlaces
<1>13. /\ y.kv = ran.kv /\ y.active = u.active /\ y.rc = u.rc /\ \A o \in Req \ R : y.req[o] = u.req[o]
       /\ y.req[r] # None /\ y.req[r].num = end[r]
  BY Zenon, <1>1, <1>7, <1>9 DEF Ends
<1>14. SlotKey(y, r) = SlotKey(u, r) /\ Cached(y, r) /\ y.req[r].cache = u.req[r].cache
  BY <1>2, <1>12 DEF SlotKey, Cached
<1>15. end[r] \in 0 .. Len(K[r]) /\ K[r] \in Seq(Text)
  BY <1>0
<1>16. Len(SubSeq(K[r], 1, end[r])) = end[r]
  BY <1>15, FirstEntries
<1>17. OnItsSlot(y, r, end[r], end[r])
  <2>1. HeldTokens(y, r) = end[r]
    BY Zenon, <1>7, <1>13, <1>14, <1>16 DEF HeldTokens, CacheOf, SeqLength, Cached
  <2>2. y.active[SlotKey(y, r)] = [req |-> r, cache |-> y.req[r].cache]
    BY <1>13, <1>14 DEF OnItsSlot
  <2>3. y.kv.owner[SlotKey(y, r)] = y.req[r].cache
    BY Zenon, <1>3, <1>7, <1>13, <1>14
  <2> QED BY <1>13, <1>14, <2>1, <2>2, <2>3 DEF OnItsSlot
<1>18. Spares(v, y, r)
  <2>1. \A o \in Req \ {r} : y.req[o] = v.req[o]
    BY <1>1, <1>13 DEF Spares
  <2>2. \A o \in Req \ {r} : Cached(v, o) => y.kv.obj[v.req[o].cache] = v.kv.obj[v.req[o].cache]
    <3> SUFFICES ASSUME NEW o \in Req \ {r}, Cached(v, o)
                 PROVE  y.kv.obj[v.req[o].cache] = v.kv.obj[v.req[o].cache]
      OBVIOUS
    <3>1. u.kv.obj[v.req[o].cache] = v.kv.obj[v.req[o].cache] /\ u.req[o] = v.req[o]
      BY DEF Spares
    <3>2. Cached(u, o) /\ u.req[o].cache \in Cache
      BY <1>2, <3>1, WorkerIs DEF Cached
    <3>3. u.req[r].cache # u.req[o].cache
      BY <1>2, <3>2 DEF Sound, Owned
    <3>4. ran.kv.obj[u.req[o].cache] = u.kv.obj[u.req[o].cache]
      <4>1. \A a \in R : u.req[a].cache # u.req[o].cache
        BY <1>1, <3>3
      <4> QED BY Zenon, <1>7, <3>2, <4>1
    <3> QED BY <1>13, <3>1, <3>4
  <2>3. \A k \in Slot \ {SlotKey(v, r)} : y.active[k] = v.active[k]
    BY <1>13 DEF Spares
  <2>4. \A k \in Slot \ {SlotKey(v, r)}, o \in Req \ {r} :
          Cached(v, o) /\ v.kv.owner[k] = v.req[o].cache => y.kv.owner[k] = v.kv.owner[k]
    <3>1. y.kv.owner = u.kv.owner
      BY Zenon, <1>7, <1>13
    <3> QED BY <3>1 DEF Spares
  <2>5. \A o \in Req : Stored(y, o) => Stored(v, o) \/ v.req[o] # None
    BY <1>13 DEF Spares, Stored
  <2> QED BY <2>1, <2>2, <2>3, <2>4, <2>5 DEF Spares
<1>19. LogitsOf(ran, {r})[r] = SubSeq(K[r], 1, end[r])
  <2>1. SlotKey(ran, r) = SlotKey(u, r)
    BY Zenon, <1>7 DEF SlotKey
  <2>2. LogitsOf(ran, {r})[r] = ran.kv.obj[ran.active[SlotKey(ran, r)].cache].tokens
    BY DEF LogitsOf
  <2> QED BY Zenon, <1>3, <1>7, <2>1, <2>2
<1>20. \A o \in Req \ {r} : LogitsOf(ran, {r})[o] = step.logits[o]
  BY DEF LogitsOf
<1> QED BY <1>0, <1>10, <1>12, <1>14, <1>17, <1>18, <1>19, <1>20 DEF RanTo

LEMMA StartRowStep ==
  ASSUME Inv(sched, p, step, w), NEW cost, StartRow(cost)
  PROVE  Inv(sched', p', step', w')
<1> DEFINE r == Head(step.rows)
<1>1. /\ step.running /\ Handled(step) /\ step.rows # <<>> /\ sched' = sched /\ p' = p
      /\ r = Head(step.rows)
  BY DEF StartRow, Admitted, Handled
<1>2. PICK load \in LoadSnapshotIfNeeded(w, r, cost) :
        /\ w' = Collected(IF Batch THEN StartRequestStep(load.w, r, load.start, cost)
                          ELSE [Infer(StartRequestStep(load.w, r, load.start, cost),
                                      [step.start EXCEPT ![r] = load.start], {r})
                                  EXCEPT !.req[r].num = ScheduledEnd(r)])
        /\ step' = [step EXCEPT
              !.rows = Tail(@), !.start = [step.start EXCEPT ![r] = load.start],
              !.logits = IF Batch THEN @
                         ELSE LogitsOf(Infer(StartRequestStep(load.w, r, load.start, cost),
                                             [step.start EXCEPT ![r] = load.start], {r}), {r}),
              !.warned = IF /\ LivePrefixIncomplete(w, r)
                            /\ ~RecomputesPromptLogprobs(w, r)
                         THEN @ \cup {r} ELSE @]
  BY Zenon DEF StartRow
<1> DEFINE u      == StartRequestStep(load.w, r, load.start, cost)
           start  == [step.start EXCEPT ![r] = load.start]
           ran    == Infer(u, start, {r})
           end    == sched.num
           counts == [ran EXCEPT !.req[r].num = end[r]]
           logits == IF Batch THEN step.logits ELSE LogitsOf(ran, {r})
           warned == IF LivePrefixIncomplete(w, r) /\ ~RecomputesPromptLogprobs(w, r)
                     THEN step.warned \cup {r} ELSE step.warned
           z      == [step EXCEPT !.rows = Tail(@), !.start = start, !.logits = logits, !.warned = warned]
           y      == IF Batch THEN u ELSE counts
           x      == Collected(y)
           m      == load.start
           K      == KnownTokens(sched)
           num    == IF Batch THEN p.plan[r].num ELSE end[r]
           n      == IF Batch THEN m ELSE end[r]
<1>3. /\ Starting(w, u, load, r, cost) /\ StartsAt(step, z, r, m, start, logits, warned)
      /\ m = load.start
      /\ ran = Infer(u, start, {r}) /\ CountsOne(ran, counts, r, end[r]) /\ x = Collected(y)
      /\ K = KnownTokens(sched) /\ end = sched.num
      /\ Batch => y = u /\ num = p.plan[r].num /\ n = m /\ logits = step.logits
      /\ ~Batch => y = counts /\ num = end[r] /\ n = end[r] /\ logits = LogitsOf(ran, {r})
  BY DEF CountsOne, Starting, StartsAt
<1>4. /\ SchedInv(sched) /\ PlanInv(sched, p) /\ StepInv(sched, p, step) /\ LogitsInv(p, step)
      /\ RowInv(sched, p, step, w) /\ IsScheduler(sched) /\ step \in Steps
  BY <1>1 DEF Inv, SchedInv, StepInv
<1>5. /\ step.rows \in Seq(Req) /\ step.start \in [Req -> Nat \cup {None}] /\ step.logits \in [Req -> Seq(Text)]
      /\ step.warned \in SUBSET Req
  BY <1>4 DEF Steps
<1>6. r \in Req /\ r \in Entries(step.rows) /\ Tail(step.rows) \in Seq(Req)
  BY <1>1, <1>5, HeadIs
<1>7. r \in Entries(p.order)
  BY <1>1, <1>4, <1>6 DEF StepInv
<1>8. /\ p.plan[r].num \in Nat /\ p.plan[r].n \in Nat /\ p.plan[r].num + p.plan[r].n = sched.num[r]
      /\ sched.num[r] \in Nat /\ sched.num[r] <= Len(Known(sched, r))
  BY <1>4, <1>7, PlannedIs
<1>9. w.req[r].num = p.plan[r].num
  <2>1. ~HasStarted(p, step, r)
    BY <1>6 DEF HasStarted
  <2>2. Silent(step, r)
    BY <1>1, <1>4, <1>6, <2>1 DEF LogitsInv
  <2>3. r \notin Entries(step.new) /\ r \notin Entries(step.cached)
    BY <1>1 DEF Handled, Entries
  <2> QED BY <1>1, <1>4, <1>7, <2>2, <2>3 DEF RowInv
<1>10. ScheduledEnd(r) = end[r]
  BY <1>8, <1>9 DEF ScheduledEnd
<1>11. w' = x /\ step' = z
  <2>1. w' = x
    BY Zenon, <1>2, <1>10
  <2>2. step' = z
    BY <1>2
  <2> QED BY <2>1, <2>2
<1> HIDE DEF r, u, start, ran, end, counts, logits, warned, z, y, x, m, K, num, n
<1>12. /\ Sound(u, KnownTokens(sched)) /\ Acting(u) /\ OwnerOk(u)
       /\ Spares(w, u, r) /\ OnItsSlot(u, r, m, p.plan[r].num)
       /\ SlotKey(u, r) = SlotKey(w, r) /\ SlotKey(u, r) \in Slot
       /\ m \in Nat /\ m <= p.plan[r].num
       /\ w \in Workers
  <2>1. Started(sched, p, w, u, r, m)
    BY <1>1, <1>3, RowStarts
  <2> QED BY <2>1 DEF Started
<1>13. K \in [Req -> Seq(Text)] /\ K[r] = Known(sched, r)
  BY <1>3, <1>4, <1>6, KnownTokensIs
<1>14. /\ Sound(y, KnownTokens(sched)) /\ Acting(y) /\ OwnerOk(y) /\ Spares(w, y, r)
       /\ OnItsSlot(y, r, n, num) /\ SlotKey(y, r) \in Slot
       /\ logits \in [Req -> Seq(Text)]
       /\ \A o \in Req \ {r} : logits[o] = step.logits[o]
       /\ Batch => logits[r] = step.logits[r]
       /\ ~Batch => logits[r] = SubSeq(Known(sched, r), 1, num)
  <2>1. CASE Batch
    BY <1>3, <1>5, <1>12, <2>1
  <2>2. CASE ~Batch
    <3> DEFINE from == p.plan[r].num
               t == K[r]
               e == end[r]
    <3>1. start[r] = m
      BY <1>3, <1>5, <1>6 DEF StartsAt
    <3>2. /\ Sound(u, K) /\ OnItsSlot(u, r, m, from) /\ t = K[r] /\ Extent(r, m, from, e, t)
          /\ CountsOne(ran, counts, r, e)
      BY <1>3, <1>8, <1>12, <1>13 DEF Extent
    <3> HIDE DEF from, t, e
    <3>3. /\ Sound(counts, K) /\ Acting(counts) /\ OwnerOk(counts)
          /\ Spares(w, counts, r) /\ OnItsSlot(counts, r, end[r], end[r]) /\ SlotKey(counts, r) \in Slot
          /\ LogitsOf(ran, {r})[r] = SubSeq(K[r], 1, end[r])
          /\ \A o \in Req \ {r} : LogitsOf(ran, {r})[o] = step.logits[o]
      <4>1. Sound(counts, K) /\ RanTo(w, counts, r, e, ran, t)
        BY <1>3, <1>6, <1>12, <1>13, <3>1, <3>2, RanAlone
      <4> QED BY <4>1 DEF RanTo, e, t
    <3>4. end[r] \in 0 .. Len(K[r])
      BY <1>3, <1>8, <1>13
    <3>5. K[r] \in Seq(Text)
      BY <1>6, <1>13
    <3>6. SubSeq(K[r], 1, end[r]) \in Seq(Text)
      BY <3>4, <3>5, FirstEntries
    <3>7. logits \in [Req -> Seq(Text)]
      <4>1. \A o \in Req : logits[o] \in Seq(Text)
        BY <1>3, <1>5, <2>2, <3>3, <3>6
      <4>2. logits = [o \in Req |-> logits[o]]
        BY <1>3, <2>2 DEF LogitsOf
      <4> QED BY <4>1, <4>2
    <3>8. logits[r] = SubSeq(Known(sched, r), 1, num)
      BY <1>3, <1>13, <2>2, <3>3
    <3>9. \A o \in Req \ {r} : logits[o] = step.logits[o]
      BY <1>3, <2>2, <3>3
    <3>10. y = counts /\ n = end[r] /\ num = end[r] /\ K = KnownTokens(sched)
      BY <1>3, <2>2
    <3> QED BY <2>2, <3>3, <3>7, <3>8, <3>9, <3>10
  <2> QED BY <2>1, <2>2
<1>15. CachesInv(sched, x) /\ Swept(y, x)
  BY <1>3, <1>4, <1>14, CollectedKeeps
<1>16. Spares(w, x, r) /\ OnItsSlot(x, r, n, num)
  BY <1>6, <1>14, <1>15, SweptSpares
<1>17. warned \in SUBSET Req
  BY <1>5, <1>6 DEF warned
<1>19. /\ NextRow(step, z) /\ z.logits = logits
       /\ z.start[r] = m /\ \A o \in Req \ {r} : z.start[o] = step.start[o]
  <2>1. HasRow(step, z, r, m, logits)
    BY <1>1, <1>3, <1>4, <1>6, <1>12, <1>14, <1>17, NextRowIs
  <2> QED BY <2>1 DEF HasRow
<1>20. RowOf(sched, p, step, z, r, n, num)
  <2>1. Silent(step, r)
    <3>1. ~HasStarted(p, step, r)
      BY <1>6 DEF HasStarted
    <3> QED BY <1>1, <1>4, <1>6, <3>1 DEF LogitsInv
  <2>2. \A o \in Req \ {r} : z.logits[o] = step.logits[o] /\ z.start[o] = step.start[o]
    BY <1>14, <1>19
  <2>3. Batch => z.logits[r] = <<>> /\ num = p.plan[r].num /\ z.start[r] = n /\ n <= num
    BY <1>3, <1>12, <1>14, <1>19, <2>1 DEF Silent
  <2>4. ~Batch => z.logits[r] = SubSeq(Known(sched, r), 1, num) /\ num = sched.num[r] /\ n = num
    BY <1>3, <1>14, <1>19
  <2> QED BY <2>2, <2>3, <2>4 DEF RowOf
<1>21. Inv(sched, p, z, x)
  BY <1>1, <1>6, <1>15, <1>16, <1>19, <1>20, StartKeeps
<1> QED BY SMTT(30), <1>1, <1>11, <1>21

-----------------------------------------------------------------------------
(* The rows of a batch run.                                                *)

\* The rows of R ran, to end in K, and y counts it.
BatchRan(d, q, s, v, x, y, R, end, K) ==
  /\ R = Entries(q.order) /\ end = d.num /\ K = KnownTokens(d)
  /\ Ready(v, R, s.start, end, K) /\ Ran(v, x, R, end, K) /\ Ends(x, y, R, end)

LEMMA RanTidy ==
  ASSUME NEW v \in Workers, Tidy(v), NEW R, NEW end, NEW K, NEW start, Ready(v, R, start, end, K),
         NEW x, Ran(v, x, R, end, K), NEW y, Ends(x, y, R, end), KeepsPlaces(v, y)
  PROVE  Tidy(y)
<1> SUFFICES ASSUME NEW c \in Cache, y.kv.obj[c] # Unused
             PROVE  \/ \E r \in Req : Cached(y, r) /\ y.req[r].cache = c
                    \/ \E o \in Req : Stored(y, o) /\ y.rc.snapshots[o].cache = c
  BY DEF Tidy
<1>1. y.kv = x.kv /\ y.rc = v.rc
  BY DEF Ends, Ran
<1>2. \A r \in Req : Cached(v, r) => Cached(y, r) /\ y.req[r].cache = v.req[r].cache
  BY DEF KeepsPlaces, Cached
<1>3. CASE \E r \in R : v.req[r].cache = c
  <2>1. PICK r \in R : v.req[r].cache = c
    BY <1>3
  <2>2. r \in Req /\ Cached(v, r)
    BY DEF Ready
  <2> QED BY <1>2, <2>1, <2>2
<1>4. CASE \A r \in R : v.req[r].cache # c
  <2>1. v.kv.obj[c] # Unused
    BY <1>1, <1>4 DEF Ran
  <2>2. \/ \E r \in Req : Cached(v, r) /\ v.req[r].cache = c
        \/ \E o \in Req : Stored(v, o) /\ v.rc.snapshots[o].cache = c
    BY <2>1 DEF Tidy
  <2> QED BY <1>1, <1>2, <2>2 DEF Stored
<1> QED BY <1>3, <1>4

\* z is s with the logits of the rows of R.
HasLogits(s, z, R, K, end) ==
  /\ z \in Steps /\ z.running /\ Handled(z) /\ z.rows = <<>>
  /\ \A r \in R : z.logits[r] = SubSeq(K[r], 1, end[r])
  /\ \A r \in Req \ R : z.logits[r] = s.logits[r]

LEMMA BatchRanKeeps ==
  ASSUME NEW d, NEW q, NEW s, NEW v, Inv(d, q, s, v), s.running, Handled(s), s.rows = <<>>,
         NEW x, NEW y, NEW R, NEW end, NEW K, BatchRan(d, q, s, v, x, y, R, end, K),
         NEW z, HasLogits(s, z, R, K, end)
  PROVE  Inv(d, q, z, y)
<1>1. /\ SchedInv(d) /\ PlanInv(d, q) /\ StepInv(d, q, s) /\ LogitsInv(q, s) /\ CachesInv(d, v)
      /\ LiveInv(d, q, s, v) /\ RowInv(d, q, s, v) /\ SettledInv(q, s, v) /\ IsScheduler(d)
  BY DEF Inv, SchedInv
<1>2. /\ R = Entries(q.order) /\ end = d.num /\ K = KnownTokens(d)
      /\ Ready(v, R, s.start, end, K) /\ Ran(v, x, R, end, K) /\ Ends(x, y, R, end)
  BY DEF BatchRan
<1>3. /\ z \in Steps /\ z.running /\ Handled(z) /\ z.rows = <<>>
      /\ \A r \in R : z.logits[r] = SubSeq(K[r], 1, end[r])
      /\ \A r \in Req \ R : z.logits[r] = s.logits[r]
  BY DEF HasLogits
<1>4. /\ s.finished = {} /\ s.new = <<>> /\ s.cached = <<>>
      /\ z.finished = {} /\ z.new = <<>> /\ z.cached = <<>>
  BY <1>3 DEF Handled
<1>5. \A o : o \notin Entries(<<>>)
  BY DEF Entries
<1>6. \A o : (HasStarted(q, s, o) <=> o \in R) /\ (HasStarted(q, z, o) <=> o \in R)
  BY <1>2, <1>3, <1>5 DEF HasStarted
<1>7. K \in [Req -> Seq(Text)] /\ \A r \in Req : K[r] = Known(d, r)
  BY <1>1, <1>2, KnownTokensIs
<1>8. /\ R \subseteq Req
      /\ \A r \in R : end[r] \in Nat \ {0} /\ end[r] <= Len(K[r]) /\ end[r] = d.num[r]
  <2>1. R \subseteq Req /\ \A r \in R : /\ q.plan[r].num \in Nat /\ q.plan[r].n \in Nat \ {0}
                                        /\ q.plan[r].num + q.plan[r].n = d.num[r] /\ d.num[r] \in Nat
                                        /\ d.num[r] <= Len(Known(d, r))
    BY <1>1, <1>2, PlannedIs
  <2>2. R \subseteq Req /\ \A r \in R : d.num[r] \in Nat \ {0} /\ d.num[r] <= Len(Known(d, r))
    BY <2>1
  <2> QED BY <1>2, <1>7, <2>2
<1>9. \A r \in R : SubSeq(K[r], 1, end[r]) \in Seq(Text) /\ Len(SubSeq(K[r], 1, end[r])) = end[r]
  <2> SUFFICES ASSUME NEW r \in R
               PROVE  SubSeq(K[r], 1, end[r]) \in Seq(Text) /\ Len(SubSeq(K[r], 1, end[r])) = end[r]
    OBVIOUS
  <2>1. end[r] \in 0 .. Len(K[r]) /\ K[r] \in Seq(Text)
    BY <1>7, <1>8
  <2> QED BY <2>1, FirstEntries
<1>10. \A r \in R : ~Silent(z, r)
  BY <1>3, <1>8, <1>9 DEF Silent
<1>11. v \in Workers /\ Sound(v, K) /\ Acting(v) /\ OwnerOk(v) /\ Tidy(v) /\ Owned(v) /\ R \in SUBSET Req
  BY <1>1, <1>2, <1>8 DEF CachesInv, Sound
<1>12. Sound(y, K) /\ Acting(y) /\ OwnerOk(y) /\ KeepsPlaces(v, y)
  BY <1>2, <1>7, <1>11, RanKeeps, RanActs
<1>13. Tidy(y)
  BY <1>2, <1>11, <1>12, RanTidy
<1>14. CachesInv(d, y)
  BY SMTT(30), <1>2, <1>12, <1>13 DEF CachesInv
<1>15. /\ \A o \in Req \ R : y.req[o] = v.req[o]
       /\ \A r \in R : y.req[r] # None /\ y.req[r].num = end[r]
       /\ y.kv = x.kv /\ y.rc = v.rc
       /\ \A r \in R : x.kv.obj[v.req[r].cache].tokens = SubSeq(K[r], 1, end[r])
       /\ \A c \in Cache : (\A r \in R : v.req[r].cache # c) => x.kv.obj[c] = v.kv.obj[c]
  BY <1>2 DEF Ends, Ran
<1>16. \A o \in Req : /\ y.req[o] # None <=> v.req[o] # None
                      /\ v.req[o] # None => y.req[o].cache = v.req[o].cache
  BY <1>12 DEF KeepsPlaces
<1>17. \A r \in R : Cached(v, r)
  BY <1>2 DEF Ready
<1>18. StepInv(d, q, z)
  <2>1. \A r \in Req : d.status[r] # "finished"
    BY <1>1 DEF StepInv
  <2>2. Entries(<<>>) = {} /\ Injective(<<>>)
    BY DEF Entries, Injective
  <2> QED BY <1>3, <1>4, <2>1, <2>2 DEF StepInv
<1>19. LogitsInv(q, z)
  <2>1. \A r \in Req : ~HasStarted(q, z, r) => Silent(z, r)
    BY <1>1, <1>3, <1>6 DEF LogitsInv, Silent
  <2>2. \A r \in Req : HasStarted(q, z, r) => ~Silent(z, r)
    BY <1>6, <1>10
  <2>3. \A r \in Entries(q.order) : ~Silent(z, r)
    BY <1>2, <1>10
  <2> QED BY <1>3, <2>1, <2>2, <2>3 DEF LogitsInv
<1>20. LiveInv(d, q, z, y)
  <2> SUFFICES ASSUME NEW o \in Req
               PROVE  /\ y.req[o] # None <=>
                           \/ o \in z.finished
                           \/ d.status[o] \in {"running", "preempted", "finished"} /\ ~IsNew(q, z, o)
                      /\ d.status[o] = "waiting" \/ IsNew(q, z, o) => ~Stored(y, o) /\ d.out[o] = <<>>
    BY DEF LiveInv
  <2>1. IsNew(q, z, o) <=> IsNew(q, s, o)
    BY <1>3, <1>4 DEF IsNew
  <2>2. Stored(y, o) <=> Stored(v, o)
    BY <1>15 DEF Stored
  <2> QED BY <1>1, <1>4, <1>16, <2>1, <2>2 DEF LiveInv
<1>21. RowInv(d, q, z, y)
  <2> SUFFICES ASSUME NEW r \in R
               PROVE  Finished(z, y, r, Known(d, r), d.num[r])
    BY <1>2, <1>10 DEF RowInv
  <2>1. r \in Req /\ Cached(v, r) /\ y.req[r] # None /\ y.req[r].num = end[r] /\ end[r] = d.num[r]
    BY <1>8, <1>15, <1>17
  <2>2. Cached(y, r) /\ y.req[r].cache = v.req[r].cache
    BY <1>16, <2>1 DEF Cached
  <2>3. HeldTokens(y, r) = end[r]
    BY SMTT(30), <1>9, <1>15, <2>1, <2>2 DEF HeldTokens, CacheOf, SeqLength, Cached
  <2>4. z.logits[r] = SubSeq(Known(d, r), 1, d.num[r])
    BY <1>3, <1>7, <2>1
  <2> QED BY <2>1, <2>2, <2>3, <2>4 DEF Finished
<1>22. SettledInv(q, z, y)
  <2> SUFFICES ASSUME NEW o \in Req, Cached(y, o), o \notin Entries(q.order)
               PROVE  HeldTokens(y, o) = y.req[o].num
    BY <1>3 DEF SettledInv
  <2>1. o \in Req \ R /\ y.req[o] = v.req[o] /\ Cached(v, o)
    BY <1>2, <1>15 DEF Cached
  <2>2. HeldTokens(v, o) = v.req[o].num
    BY <1>1, <2>1 DEF SettledInv
  <2>3. v.req[o].cache \in Cache /\ \A r \in R : v.req[r].cache # v.req[o].cache
    BY <1>8, <1>11, <1>17, <2>1, WorkerIs DEF Owned
  <2>4. y.kv.obj[v.req[o].cache] = v.kv.obj[v.req[o].cache]
    BY <1>15, <2>3
  <2>5. HeldTokens(y, o) = HeldTokens(v, o)
    BY <2>1, <2>4, HeldSame
  <2> QED BY <2>1, <2>2, <2>5
<1> QED BY <1>1, <1>14, <1>18, <1>19, <1>20, <1>21, <1>22 DEF Inv

LEMMA LogitsOfIs ==
  ASSUME NEW K \in [Req -> Seq(Text)], NEW v, NEW R \in SUBSET Req, NEW end, NEW start,
         Ready(v, R, start, end, K), NEW x, Ran(v, x, R, end, K), NEW z,
         step \in Steps, step.running, Handled(step), step.rows = <<>>,
         z = [step EXCEPT !.logits = LogitsOf(x, R)]
  PROVE  HasLogits(step, z, R, K, end)
<1> DEFINE logits == LogitsOf(x, R)
<1>1. \A r \in R : logits[r] = SubSeq(K[r], 1, end[r])
  <2> SUFFICES ASSUME NEW r \in R
               PROVE  logits[r] = SubSeq(K[r], 1, end[r])
    OBVIOUS
  <2>1. v.active[SlotKey(v, r)].cache = v.req[r].cache
    BY SMTT(30) DEF Ready
  <2>2. x.active = v.active /\ SlotKey(x, r) = SlotKey(v, r) /\ x.kv.obj[v.req[r].cache].tokens = SubSeq(K[r], 1, end[r])
    BY SMTT(30) DEF Ran, SlotKey
  <2>3. logits[r] = x.kv.obj[x.active[SlotKey(x, r)].cache].tokens
    BY DEF LogitsOf
  <2> QED BY Zenon, <2>1, <2>2, <2>3
<1>2. \A r \in Req \ R : logits[r] = step.logits[r]
  BY DEF LogitsOf
<1>3. logits = [r \in Req |-> logits[r]]
  BY DEF LogitsOf
<1>4. \A r \in R : SubSeq(K[r], 1, end[r]) \in Seq(Text)
  <2> SUFFICES ASSUME NEW r \in R
               PROVE  SubSeq(K[r], 1, end[r]) \in Seq(Text)
    OBVIOUS
  <2>1. end[r] \in 0 .. Len(K[r]) /\ K[r] \in Seq(Text)
    BY DEF Ready
  <2> QED BY <2>1, FirstEntries
<1>5. step.logits \in [Req -> Seq(Text)] /\ z = [step EXCEPT !.logits = logits]
  BY DEF Steps
<1> HIDE DEF logits
<1>6. \A r \in Req : logits[r] \in Seq(Text)
  <2>1. \A r \in R : logits[r] \in Seq(Text)
    BY <1>1, <1>4
  <2>2. \A r \in Req \ R : logits[r] \in Seq(Text)
    BY <1>2, <1>5
  <2> QED BY <2>1, <2>2
<1>7. logits \in [Req -> Seq(Text)]
  BY <1>3, <1>6
<1>8. /\ z \in Steps /\ z.running = step.running /\ z.finished = step.finished /\ z.new = step.new
      /\ z.cached = step.cached /\ z.rows = step.rows /\ z.logits = logits
  BY <1>5, <1>7 DEF Steps
<1> QED BY <1>1, <1>2, <1>8 DEF HasLogits, Handled

LEMMA BatchIsReady ==
  ASSUME NEW K, K = KnownTokens(sched), Inv(sched, p, step, w), step.running, Handled(step), step.rows = <<>>, Batch,
         NEW R, R = Entries(p.order), \E r \in R : Silent(step, r), NEW end, end = sched.num
  PROVE  /\ Ready(w, R, step.start, end, K) /\ R \in SUBSET Req
         /\ \A r \in R : w.req[r] # None /\ ScheduledEnd(r) = end[r] /\ end[r] \in Nat
<1>1. /\ SchedInv(sched) /\ PlanInv(sched, p) /\ LogitsInv(p, step) /\ RowInv(sched, p, step, w) /\ IsScheduler(sched)
  BY DEF Inv, SchedInv
<1>2. /\ R \subseteq Req
      /\ \A r \in R : /\ p.plan[r].num \in Nat /\ p.plan[r].n \in Nat
                      /\ p.plan[r].num + p.plan[r].n = sched.num[r] /\ sched.num[r] \in Nat
                      /\ sched.num[r] <= Len(Known(sched, r))
  BY <1>1, PlannedIs
<1>3. \A o : o \notin Entries(<<>>)
  BY DEF Entries
<1>4. \A r \in R : HasStarted(p, step, r) /\ r \notin Entries(step.new) /\ r \notin Entries(step.cached)
  BY <1>3 DEF HasStarted, Handled
<1>5. \A r \in R : Silent(step, r)
  BY <1>1, <1>2 DEF LogitsInv
<1>6. \A r \in R : w.req[r].num = p.plan[r].num /\ Poised(step, w, r)
  BY <1>1, <1>4, <1>5 DEF RowInv
<1>7. \A r \in Req : K[r] = Known(sched, r)
  BY <1>1, KnownTokensIs
<1>8. \A r \in R :
       /\ Cached(w, r) /\ w.active[SlotKey(w, r)].cache = w.req[r].cache
       /\ Len(w.kv.obj[w.req[r].cache].tokens) = step.start[r]
       /\ w.req[r] # None /\ step.start[r] <= w.req[r].num
  <2> SUFFICES ASSUME NEW r \in R
               PROVE  /\ Cached(w, r) /\ w.active[SlotKey(w, r)].cache = w.req[r].cache
                      /\ Len(w.kv.obj[w.req[r].cache].tokens) = step.start[r]
                      /\ w.req[r] # None /\ step.start[r] <= w.req[r].num
    OBVIOUS
  <2>1. Poised(step, w, r)
    BY <1>6
  <2>2. /\ Cached(w, r) /\ w.req[r] # None /\ w.req[r].cache # None /\ HeldTokens(w, r) = step.start[r] /\ step.start[r] <= w.req[r].num
        /\ w.active[SlotKey(w, r)] = [req |-> r, cache |-> w.req[r].cache]
    BY <2>1 DEF Poised, Cached
  <2> QED BY <2>2 DEF HeldTokens, CacheOf, SeqLength
<1>9. \A r \in R : /\ w.req[r].num + p.plan[r].n = end[r] /\ end[r] \in Nat
                   /\ end[r] <= Len(K[r])
  BY <1>2, <1>6, <1>7
<1>10. step.start \in [Req -> Nat \cup {None}]
  BY DEF Inv, StepInv, Steps
<1>11. w \in Workers /\ Placed(w) /\ Slotted(w)
  BY DEF Inv, CachesInv, Sound
<1>12. \A r \in R : step.start[r] <= end[r]
  <2> SUFFICES ASSUME NEW r \in R
               PROVE  step.start[r] <= end[r]
    OBVIOUS
  <2>1. Len(w.kv.obj[w.req[r].cache].tokens) \in Nat
    BY <1>2, <1>8, <1>11, CachesInUse
  <2>2. step.start[r] \in Nat
    BY <1>8, <2>1
  <2> QED BY <1>2, <1>6, <1>8, <1>9, <2>2
<1>13. Ready(w, R, step.start, end, K)
  BY <1>2, <1>8, <1>9, <1>12 DEF Ready
<1> QED BY <1>2, <1>8, <1>9, <1>13 DEF ScheduledEnd

LEMMA ForwardStep ==
  ASSUME Inv(sched, p, step, w), Forward
  PROVE  Inv(sched', p', step', w')
<1> DEFINE R == Entries(p.order)
           x == Infer(w, step.start, R)
           z == [step EXCEPT !.logits = LogitsOf(x, R)]
           y == [x EXCEPT !.req = [r \in Req |-> IF r \in R THEN [x.req[r] EXCEPT !.num = ScheduledEnd(r)]
                                                 ELSE x.req[r]]]
           K == KnownTokens(sched)
           end == sched.num
           start == step.start
<1>1. /\ step.running /\ Handled(step) /\ step.rows = <<>> /\ Batch /\ sched' = sched /\ p' = p
      /\ \E r \in R : Silent(step, r)
  BY DEF Forward, RowsStarted, Admitted, Handled, Waiting, Silent
<1>2. step' = z
  BY DEF Forward
<1>3. w' = [x EXCEPT !.req = [r \in Req |-> IF r \in R THEN [@[r] EXCEPT !.num = ScheduledEnd(r)] ELSE @[r]]]
  BY DEF Forward
<1>4. w' = y
  BY <1>3
<1>5. /\ R = Entries(p.order) /\ x = Infer(w, start, R) /\ z = [step EXCEPT !.logits = LogitsOf(x, R)]
      /\ K = KnownTokens(sched) /\ end = sched.num /\ start = step.start
  OBVIOUS
<1>6. Sound(w, K) /\ K \in [Req -> Seq(Text)] /\ step \in Steps
  BY <1>1, KnownTokensIs DEF Inv, CachesInv, StepInv, SchedInv
<1> HIDE DEF K, end, start, z, R
<1>7. /\ Ready(w, R, start, end, K) /\ R \in SUBSET Req
      /\ \A r \in R : w.req[r] # None /\ ScheduledEnd(r) = end[r] /\ end[r] \in Nat
  BY <1>1, <1>5, BatchIsReady
<1>8. Ran(w, x, R, end, K)
  BY <1>5, <1>6, <1>7, InferIs
<1>9. CountsAll(x, y, R, end)
  BY <1>7 DEF CountsAll
<1> HIDE DEF x, y
<1>10. x \in Workers /\ x.req = w.req
  BY <1>8 DEF Ran
<1>11. Ends(x, y, R, end)
  BY <1>7, <1>9, <1>10, CountsAllEnds
<1>12. BatchRan(sched, p, step, w, x, y, R, end, K)
  BY <1>5, <1>7, <1>8, <1>11 DEF BatchRan
<1>13. HasLogits(step, z, R, K, end)
  BY <1>1, <1>5, <1>6, <1>7, <1>8, LogitsOfIs
<1>14. Inv(sched, p, z, y)
  BY <1>1, <1>12, <1>13, BatchRanKeeps
<1> QED BY <1>1, <1>2, <1>4, <1>14

-----------------------------------------------------------------------------
(* The rows are sampled.                                                   *)

LEMMA NoStepIs ==
  /\ NoStep \in Steps /\ ~NoStep.running /\ NoStep.finished = {} /\ NoStep.new = <<>>
  /\ \A r \in Req : NoPlan.plan[r] = None
BY DEF NoStep, Steps, NoPlan

\* Nothing of the placement of caches differs.
SamePlaces(v, y) ==
  /\ y.active = v.active /\ y.rc = v.rc /\ y.kv.obj = v.kv.obj /\ y.kv.owner = v.kv.owner
  /\ \A o \in Req : /\ y.req[o] # None <=> v.req[o] # None
                    /\ v.req[o] # None => /\ y.req[o].cache = v.req[o].cache
                                          /\ y.req[o].slot = v.req[o].slot
                                          /\ y.req[o].num = v.req[o].num

LEMMA SampledPlaces ==
  ASSUME NEW v, NEW y, NEW R \in SUBSET Req, NEW D, NEW token, Sampled(v, y, R, D, token)
  PROVE  SamePlaces(v, y)
<1>1. /\ y.active = v.active /\ y.rc = v.rc /\ y.kv.obj = v.kv.obj /\ y.kv.owner = v.kv.owner
      /\ \A o \in Req \ R : y.req[o] = v.req[o]
      /\ \A r \in R : /\ v.req[r] # None /\ y.req[r] # None /\ y.req[r].num = v.req[r].num
                      /\ y.req[r].slot = v.req[r].slot /\ y.req[r].cache = v.req[r].cache
  BY DEF Sampled
<1> SUFFICES ASSUME NEW o \in Req
             PROVE  /\ y.req[o] # None <=> v.req[o] # None
                    /\ v.req[o] # None => /\ y.req[o].cache = v.req[o].cache
                                          /\ y.req[o].slot = v.req[o].slot
                                          /\ y.req[o].num = v.req[o].num
  BY <1>1 DEF SamePlaces
<1>2. CASE o \in R
  BY <1>1, <1>2
<1>3. CASE o \notin R
  BY <1>1, <1>3
<1> QED BY <1>2, <1>3

LEMMA SamePlacesKeep ==
  ASSUME NEW v \in Workers, Acting(v), OwnerOk(v), Tidy(v), NEW y, SamePlaces(v, y)
  PROVE  /\ Acting(y) /\ OwnerOk(y) /\ Tidy(y)
         /\ \A o \in Req : Cached(y, o) => Cached(v, o) /\ HeldTokens(y, o) = HeldTokens(v, o)
<1>1. /\ y.active = v.active /\ y.rc = v.rc /\ y.kv.obj = v.kv.obj /\ y.kv.owner = v.kv.owner
      /\ \A o \in Req : /\ y.req[o] # None <=> v.req[o] # None
                        /\ v.req[o] # None => /\ y.req[o].cache = v.req[o].cache
                                              /\ y.req[o].slot = v.req[o].slot
                                              /\ y.req[o].num = v.req[o].num
  BY DEF SamePlaces
<1>2. Acting(y)
  <2> SUFFICES ASSUME NEW t \in Slot, y.active[t] # None
               PROVE  /\ y.req[y.active[t].req] # None /\ y.req[y.active[t].req].cache = y.active[t].cache
                      /\ SlotKey(y, y.active[t].req) = t
    BY DEF Acting
  <2>1. /\ v.active[t] # None /\ v.active[t].req \in Req
        /\ v.req[v.active[t].req] # None /\ v.req[v.active[t].req].cache = v.active[t].cache
        /\ SlotKey(v, v.active[t].req) = t
    BY <1>1, WorkerIs DEF Acting
  <2> QED BY <1>1, <2>1 DEF SlotKey
<1>3. OwnerOk(y)
  BY <1>1 DEF OwnerOk
<1>4. \A o \in Req : Cached(y, o) <=> Cached(v, o)
  BY <1>1 DEF Cached
<1>5. Tidy(y)
  <2> SUFFICES ASSUME NEW c \in Cache, y.kv.obj[c] # Unused
               PROVE  \/ \E r \in Req : Cached(y, r) /\ y.req[r].cache = c
                      \/ \E o \in Req : Stored(y, o) /\ y.rc.snapshots[o].cache = c
    BY DEF Tidy
  <2>1. \/ \E r \in Req : Cached(v, r) /\ v.req[r].cache = c
        \/ \E o \in Req : Stored(v, o) /\ v.rc.snapshots[o].cache = c
    BY <1>1 DEF Tidy
  <2>2. CASE \E r \in Req : Cached(v, r) /\ v.req[r].cache = c
    BY <1>1, <1>4, <2>2 DEF Cached
  <2>3. CASE \E o \in Req : Stored(v, o) /\ v.rc.snapshots[o].cache = c
    BY <1>1, <2>3 DEF Stored
  <2> QED BY <2>1, <2>2, <2>3
<1>6. \A o \in Req : Cached(y, o) => HeldTokens(y, o) = HeldTokens(v, o)
  BY <1>1, <1>4 DEF HeldTokens, CacheOf, SeqLength, Cached
<1> QED BY <1>2, <1>3, <1>4, <1>5, <1>6

\* The requests of a plan that get a token.
SampledRows(d, q, D) == D = {r \in Entries(q.order) : d.num[r] >= Len(Prompt[r])}

LEMMA KnownGrows ==
  ASSUME NEW d, IsScheduler(d), NEW e, IsScheduler(e), NEW D \in SUBSET Req, NEW token \in [D -> Tok],
         Returned(d, e, D, token), NEW K, K = KnownTokens(d), NEW L, L = KnownTokens(e)
  PROVE  Longer(K, L, D, token)
<1> SUFFICES ASSUME NEW r \in Req
             PROVE  L[r] = IF r \in D THEN Append(K[r], token[r]) ELSE K[r]
  BY DEF Longer
<1>1. K[r] = Prompt[r] \o d.out[r] /\ L[r] = Prompt[r] \o e.out[r]
  BY KnownTokensIs DEF Known
<1>2. e.out[r] = IF r \in D THEN Append(d.out[r], token[r]) ELSE d.out[r]
  BY DEF Returned
<1>3. CASE r \in D
  <2>1. Prompt[r] \in Seq(Text) /\ d.out[r] \in Seq(Text) /\ token[r] \in Text
    BY <1>3, PromptAssumption DEF IsScheduler, Text
  <2>2. Prompt[r] \o Append(d.out[r], token[r]) = Append(Prompt[r] \o d.out[r], token[r])
    BY <2>1, AppendLast
  <2> QED BY <1>1, <1>2, <1>3, <2>2
<1>4. CASE r \notin D
  BY <1>1, <1>2, <1>4
<1> QED BY <1>3, <1>4

\* v is w once the rows of R are sampled.
Sampling(v, R, token) ==
  v = [w EXCEPT !.req = [r \in Req |-> IF r \in R THEN Answered(r, token) ELSE @[r]], !.kv.dumps = {}]

LEMMA AnsweredIs ==
  ASSUME w \in Workers, NEW r \in Req, w.req[r] # None, NextLogprobPos(r) \in Nat,
         NEW D \in SUBSET Req, NEW token \in [D -> Tok], NEW state, state = Answered(r, token)
  PROVE  /\ state \in RequestStates /\ state # None /\ state.num = w.req[r].num
         /\ state.out = IF r \in D THEN Append(w.req[r].out, token[r]) ELSE w.req[r].out
         /\ state.slot = w.req[r].slot /\ state.cache = w.req[r].cache
         /\ state.blocks = w.req[r].blocks
<1> DEFINE q   == w.req[r]
           out == IF r \in D THEN Append(q.out, token[r]) ELSE q.out
           pos == NextLogprobPos(r)
<1>1. q \in RequestStates /\ pos \in Nat
  BY WorkerIs
<1>2. q.out \in Seq(Tok)
  BY <1>1 DEF RequestStates
<1>3. state = [q EXCEPT !.out = out, !.pos = pos]
  BY DEF Answered
<1> HIDE DEF q, pos
<1>4. out \in Seq(Tok)
  <2>1. CASE r \in D
    BY <1>2, <2>1
  <2>2. CASE r \notin D
    BY <1>2, <2>2
  <2> QED BY <2>1, <2>2
<1> HIDE DEF out
<1>5. /\ state \in RequestStates /\ state.num = q.num /\ state.out = out
      /\ state.slot = q.slot /\ state.cache = q.cache /\ state.blocks = q.blocks
  BY <1>1, <1>3, <1>4 DEF RequestStates
<1> QED BY <1>5, RecordAssumption DEF q, out

LEMMA SamplingIs ==
  ASSUME w \in Workers, NEW R \in SUBSET Req, NEW D \in SUBSET R, NEW token \in [D -> Tok],
         NEW v, Sampling(v, R, token), \A r \in R : w.req[r] # None /\ NextLogprobPos(r) \in Nat
  PROVE  Sampled(w, v, R, D, token)
<1> DEFINE req == [r \in Req |-> IF r \in R THEN Answered(r, token) ELSE w.req[r]]
           kv  == [w.kv EXCEPT !.dumps = {}]
<1>1. v = [w EXCEPT !.req = req, !.kv = kv]
  BY DEF Sampling
<1>2. /\ \A r \in Req \ R : req[r] = w.req[r]
      /\ \A r \in R : req[r] = Answered(r, token)
      /\ req = [r \in Req |-> req[r]]
  OBVIOUS
<1> HIDE DEF req
<1>3. \A r \in R : /\ req[r] \in RequestStates /\ req[r] # None /\ req[r].num = w.req[r].num
                   /\ req[r].out = IF r \in D THEN Append(w.req[r].out, token[r]) ELSE w.req[r].out
                   /\ req[r].slot = w.req[r].slot /\ req[r].cache = w.req[r].cache
                   /\ req[r].blocks = w.req[r].blocks
  BY SMTT(30), <1>2, AnsweredIs
<1>4. req \in [Req -> RequestStates \cup {None}]
  <2>1. \A r \in Req : req[r] \in RequestStates \cup {None}
    BY <1>2, <1>3, WorkerIs
  <2> QED BY <1>2, <2>1
<1>5. kv \in Kvs /\ kv.obj = w.kv.obj /\ kv.owner = w.kv.owner /\ kv.dumps = {}
  BY DEF Kvs, Workers
<1> HIDE DEF kv
<1>6. /\ v \in Workers /\ v.rc = w.rc /\ v.active = w.active /\ v.offload = w.offload
      /\ v.req = req /\ v.kv = kv
  BY <1>1, <1>4, <1>5 DEF Workers
<1> QED BY <1>2, <1>3, <1>5, <1>6 DEF Sampled

LEMMA SampledPlan ==
  ASSUME NEW d, SchedInv(d), NEW q, PlanInv(d, q), NEW R, R = Entries(q.order), NEW D, SampledRows(d, q, D),
         NEW e, NEW token \in [D -> Tok], Returned(d, e, D, token), D \in SUBSET R
  PROVE  PlanInv(e, NoPlan)
<1>1. IsScheduler(d) /\ IsScheduler(e) /\ e.num = d.num
  BY DEF SchedInv, Returned
<1>2. R \subseteq Req /\ \A r \in R : d.num[r] \in Nat /\ d.num[r] <= Len(Known(d, r))
  BY PlannedIs
<1> SUFFICES ASSUME NEW r \in Req, e.status[r] = "running"
             PROVE  e.num[r] < Len(Known(e, r))
  BY <1>1, NoPlanIs
<1>3. d.status[r] = "running"
  BY DEF Returned
<1>4. /\ Len(Known(d, r)) = Len(Prompt[r]) + Len(d.out[r]) /\ Len(Known(e, r)) = Len(Prompt[r]) + Len(e.out[r])
      /\ Len(Prompt[r]) \in Nat /\ Len(d.out[r]) \in Nat /\ Len(e.out[r]) \in Nat
  BY <1>1, KnownIs
<1> DEFINE a == Len(Prompt[r])
           b == Len(d.out[r])
           c == Len(e.out[r])
           K == Len(Known(d, r))
           L == Len(Known(e, r))
<1>a. /\ a \in Nat /\ b \in Nat /\ c \in Nat /\ K = a + b /\ L = a + c
      /\ a = Len(Prompt[r]) /\ b = Len(d.out[r]) /\ c = Len(e.out[r])
      /\ K = Len(Known(d, r)) /\ L = Len(Known(e, r))
  BY <1>4
<1> HIDE DEF a, b, c, K, L
<1>5. e.out[r] = IF r \in D THEN Append(d.out[r], token[r]) ELSE d.out[r]
  BY DEF Returned
<1>6. CASE r \in D
  <2>1. d.out[r] \in Seq(Tok) /\ token[r] \in Tok
    BY <1>1, <1>6 DEF IsScheduler
  <2>2. Len(e.out[r]) = Len(d.out[r]) + 1
    BY <1>5, <1>6, <2>1
  <2>3. d.num[r] \in Nat /\ d.num[r] <= Len(Known(d, r))
    BY <1>2, <1>6
  <2>4. c = b + 1
    BY <1>a, <2>2
  <2>5. d.num[r] <= K
    BY <1>a, <2>3
  <2>6. d.num[r] < L
    <3> DEFINE n == d.num[r]
    <3>1. n \in Nat /\ n <= K /\ a \in Nat /\ b \in Nat /\ K = a + b /\ L = a + c /\ c = b + 1
      BY <1>a, <2>3, <2>4, <2>5
    <3> HIDE DEF n
    <3>2. n < L
      BY <3>1
    <3> QED BY <3>2 DEF n
  <2> QED BY <1>1, <1>a, <2>6
<1>7. CASE r \in R /\ r \notin D
  <2>1. d.num[r] \in Nat /\ ~(d.num[r] >= Len(Prompt[r]))
    BY <1>2, <1>7 DEF SampledRows
  <2>2. e.out[r] = d.out[r]
    BY <1>5, <1>7
  <2>3. c = b
    BY <1>a, <2>2
  <2>4. d.num[r] < a
    BY <1>a, <2>1
  <2>5. d.num[r] < L
    <3> DEFINE n == d.num[r]
    <3>1. n \in Nat /\ n < a /\ a \in Nat /\ b \in Nat /\ L = a + c /\ c = b
      BY <1>a, <2>1, <2>3, <2>4
    <3> HIDE DEF n
    <3>2. n < L
      BY <3>1
    <3> QED BY <3>2 DEF n
  <2> QED BY <1>1, <1>a, <2>5
<1>8. CASE r \notin R
  <2>1. q.plan[r] = None
    BY <1>8 DEF PlanInv
  <2>2. d.num[r] < Len(Known(d, r))
    BY <1>3, <2>1 DEF PlanInv
  <2>3. e.out[r] = d.out[r]
    BY <1>5, <1>8
  <2> QED BY <1>1, <1>4, <2>2, <2>3
<1> QED BY <1>6, <1>7, <1>8

LEMMA SampleKeeps ==
  ASSUME NEW d, NEW q, NEW s, NEW v, Inv(d, q, s, v), s.running, Handled(s),
         NEW R, R = Entries(q.order), \A r \in R : ~Silent(s, r),
         NEW D, SampledRows(d, q, D), D \in SUBSET R, NEW token \in [D -> Tok],
         NEW e, Returned(d, e, D, token), NEW y, Sampled(v, y, R, D, token)
  PROVE  Inv(e, NoPlan, NoStep, y)
<1> DEFINE K == KnownTokens(d)
           L == KnownTokens(e)
<1>1. /\ SchedInv(d) /\ PlanInv(d, q) /\ CachesInv(d, v)
      /\ LiveInv(d, q, s, v) /\ RowInv(d, q, s, v) /\ SettledInv(q, s, v) /\ IsScheduler(d)
      /\ SchedInv(e) /\ IsScheduler(e)
  BY DEF Inv, SchedInv, Returned
<1>2. /\ R \in SUBSET Req /\ \A r \in R : d.status[r] = "running"
      /\ D \in SUBSET Req
  BY <1>1, PlannedIs
<1>3. /\ K \in [Req -> Seq(Text)] /\ L \in [Req -> Seq(Text)] /\ K = KnownTokens(d) /\ L = KnownTokens(e)
      /\ v \in Workers /\ Sound(v, K) /\ Acting(v) /\ OwnerOk(v) /\ Tidy(v)
  BY <1>1, KnownTokensIs DEF CachesInv, Sound
<1> HIDE DEF K, L
<1>4. Longer(K, L, D, token)
  BY <1>1, <1>2, <1>3, KnownGrows
<1>5. Sound(y, L)
  BY <1>2, <1>3, <1>4, SampledKeeps
<1>6. SamePlaces(v, y)
  BY <1>2, SampledPlaces
<1>7. /\ Acting(y) /\ OwnerOk(y) /\ Tidy(y)
      /\ \A o \in Req : Cached(y, o) => Cached(v, o) /\ HeldTokens(y, o) = HeldTokens(v, o)
  BY <1>3, <1>6, SamePlacesKeep
<1>8. CachesInv(e, y)
  BY <1>3, <1>5, <1>7 DEF CachesInv
<1>9. PlanInv(e, NoPlan)
  BY <1>1, SampledPlan
<1>10. StepInv(e, NoPlan, NoStep) /\ LogitsInv(NoPlan, NoStep) /\ RowInv(e, NoPlan, NoStep, y)
  BY NoStepIs DEF StepInv, LogitsInv, RowInv
<1>11. s.finished = {} /\ s.new = <<>> /\ \A o : o \notin Entries(<<>>)
  BY DEF Handled, Entries
<1>12. LiveInv(e, NoPlan, NoStep, y)
  <2> SUFFICES ASSUME NEW o \in Req
               PROVE  /\ y.req[o] # None <=>
                           \/ o \in NoStep.finished
                           \/ e.status[o] \in {"running", "preempted", "finished"} /\ ~IsNew(NoPlan, NoStep, o)
                      /\ e.status[o] = "waiting" \/ IsNew(NoPlan, NoStep, o) => ~Stored(y, o) /\ e.out[o] = <<>>
    BY DEF LiveInv
  <2>1. ~IsNew(NoPlan, NoStep, o) /\ ~IsNew(q, s, o)
    BY <1>11, NoStepIs DEF IsNew
  <2>2. e.status[o] = d.status[o] \/ (e.status[o] = "finished" /\ d.status[o] = "running")
    BY <1>2 DEF Returned
  <2>3. y.req[o] # None <=> v.req[o] # None
    BY <1>6 DEF SamePlaces
  <2>4. Stored(y, o) <=> Stored(v, o)
    BY <1>6 DEF SamePlaces, Stored
  <2>5. d.status[o] = "waiting" => e.out[o] = d.out[o]
    BY <1>2 DEF Returned
  <2>6. y.req[o] # None <=> \/ o \in NoStep.finished
                            \/ e.status[o] \in {"running", "preempted", "finished"} /\ ~IsNew(NoPlan, NoStep, o)
    BY <1>1, <1>11, <2>1, <2>2, <2>3, NoStepIs DEF LiveInv
  <2>7. e.status[o] = "waiting" \/ IsNew(NoPlan, NoStep, o) => ~Stored(y, o) /\ e.out[o] = <<>>
    BY <1>1, <2>1, <2>2, <2>4, <2>5 DEF LiveInv
  <2> QED BY <2>6, <2>7
<1>13. SettledInv(NoPlan, NoStep, y)
  <2> SUFFICES ASSUME NEW o \in Req, Cached(y, o)
               PROVE  HeldTokens(y, o) = y.req[o].num
    BY DEF SettledInv
  <2>1. Cached(v, o) /\ HeldTokens(y, o) = HeldTokens(v, o) /\ y.req[o].num = v.req[o].num
    BY <1>6, <1>7 DEF SamePlaces, Cached
  <2>2. HeldTokens(v, o) = v.req[o].num
    <3>1. CASE o \in R
      <4>1. o \notin Entries(s.new) /\ o \notin Entries(s.cached)
        BY <1>11 DEF Handled
      <4>2. Finished(s, v, o, Known(d, o), d.num[o])
        BY <1>1, <3>1, <4>1 DEF RowInv
      <4> QED BY <4>2 DEF Finished
    <3>2. CASE o \notin R
      BY <1>1, <2>1, <3>2 DEF SettledInv
    <3> QED BY <3>1, <3>2
  <2> QED BY <2>1, <2>2
<1> QED BY <1>1, <1>8, <1>9, <1>10, <1>12, <1>13 DEF Inv

LEMMA SampleStep ==
  ASSUME Inv(sched, p, step, w), Sample
  PROVE  Inv(sched', p', step', w')
<1> DEFINE R == Entries(p.order)
           D == {r \in R : Samples(r)}
<1>1. /\ step.running /\ Handled(step) /\ step.rows = <<>> /\ \A r \in R : ~Silent(step, r)
      /\ step' = NoStep /\ p' = NoPlan
  BY DEF Sample, RowsStarted, Admitted, Handled, Waiting, Silent
<1>2. PICK token \in [D -> Tok] : Sampling(w', R, token) /\ sched' = ReturnAll(sched, p.order, token)
  BY Zenon DEF Sample, Sampling
<1> DEFINE e == ReturnAll(sched, p.order, token)
<1>3. e = ReturnAll(sched, p.order, token) /\ R = Entries(p.order) /\ sched' = e
  BY <1>2
<1>4. /\ SchedInv(sched) /\ PlanInv(sched, p) /\ IsScheduler(sched) /\ RowInv(sched, p, step, w) /\ w \in Workers
      /\ D \in SUBSET R
  BY DEF Inv, SchedInv, CachesInv, Sound
<1>5. /\ p.order \in Seq(Req) /\ Injective(p.order) /\ R \in SUBSET Req
      /\ \A r \in Entries(p.order) : sched.status[r] = "running"
  BY <1>4, PlannedIs
<1>6. \A r \in R : Finished(step, w, r, Known(sched, r), sched.num[r])
  <2>1. \A r \in R : r \notin Entries(step.new) /\ r \notin Entries(step.cached)
    BY <1>1 DEF Handled, Entries
  <2> QED BY <1>1, <1>4, <2>1 DEF RowInv
<1>7. \A r \in R : w.req[r] # None /\ w.req[r].num = sched.num[r]
  BY <1>6 DEF Finished, Cached
<1>8. \A r \in R : NextLogprobPos(r) \in Nat
  <2> SUFFICES ASSUME NEW r \in R
               PROVE  NextLogprobPos(r) \in Nat
    OBVIOUS
  <2>1. w.req[r].pos \in Nat /\ w.req[r].num \in Nat
    BY <1>4, <1>5, <1>7, WorkerIs
  <2>2. Len(Prompt[r]) \in Nat
    BY <1>4, <1>5, KnownIs
  <2> DEFINE a == w.req[r].pos
             b == Least(w.req[r].num + 1, Len(Prompt[r]))
  <2>3. a \in Nat /\ b \in Nat
    BY <2>1, <2>2 DEF Least
  <2>4. NextLogprobPos(r) = IF r \in LogprobReqs THEN MaxOf({a, b}) ELSE a
    BY DEF NextLogprobPos
  <2> HIDE DEF a, b
  <2>5. {a, b} \in SUBSET (0 .. a + b) /\ {a, b} # {} /\ a + b \in Nat
    BY <2>3
  <2>6. MaxOf({a, b}) \in {a, b}
    BY <2>5, MaxOfIs
  <2> QED BY <2>3, <2>4, <2>6
<1>9. SampledRows(sched, p, D)
  BY <1>7 DEF SampledRows, Samples
<1> DEFINE y == w'
<1>10. Sampling(y, R, token)
  BY <1>2
<1> HIDE DEF R, D, e, y
<1>11. Sampled(w, y, R, D, token)
  BY <1>4, <1>5, <1>7, <1>8, <1>10, SamplingIs
<1>12. Returned(sched, e, D, token)
  BY <1>3, <1>4, <1>5, ReturnAllIs
<1>13. Inv(e, NoPlan, NoStep, y)
  BY <1>1, <1>3, <1>4, <1>9, <1>11, <1>12, SampleKeeps
<1> QED BY <1>1, <1>3, <1>13 DEF y

-----------------------------------------------------------------------------
(* The invariant holds initially, and of every step.                       *)

LEMMA IdleIs == SchedInv(Idle) /\ PlanInv(Idle, NoPlan)
<1>1. IsScheduler(Idle)
  BY AllBlocksType DEF IsScheduler, Idle, Statuses
<1>2. /\ Idle.running = <<>> /\ Idle.preempted = <<>>
      /\ \A r \in Req : Idle.status[r] = "waiting" /\ Idle.num[r] = 0 /\ Idle.out[r] = <<>>
  BY DEF Idle
<1>3. Entries(<<>>) = {} /\ Injective(<<>>) /\ Len(<<>>) = 0
  BY DEF Entries, Injective
<1>4. {MaxOut, MaxSeqs} \subseteq Nat \ {0}
  BY BoundsAssumption
<1> HIDE DEF Idle
<1>5. QueueInv(Idle)
  BY <1>2, <1>3, <1>4 DEF QueueInv
<1>6. ProgressInv(Idle)
  <2> SUFFICES ASSUME NEW r \in Req
               PROVE  /\ Idle.num[r] <= Len(Known(Idle, r)) /\ Len(Idle.out[r]) <= MaxOut
                      /\ Len(Idle.out[r]) < MaxOut /\ Idle.out[r] = <<>>
    BY DEF ProgressInv
  <2>1. Len(Known(Idle, r)) \in Nat
    BY <1>1, KnownIs
  <2>2. Idle.num[r] = 0 /\ Idle.out[r] = <<>> /\ Len(<<>>) = 0
    BY <1>2, <1>3
  <2>3. MaxOut \in Nat \ {0}
    BY <1>4
  <2> QED BY <2>1, <2>2, <2>3
<1>7. PlanInv(Idle, NoPlan)
  BY <1>1, <1>2, NoPlanIs
<1> QED BY <1>1, <1>5, <1>6, <1>7 DEF SchedInv

LEMMA NewWorkerIs ==
  ASSUME NEW offload \in BOOLEAN, NEW v, v = NewWorker(Cap, offload), NEW d, IsScheduler(d)
  PROVE  CachesInv(d, v) /\ \A r \in Req : v.req[r] = None /\ ~Stored(v, r)
<1> DEFINE m == NewManager(MaxSlots, Cap)
<1>1. /\ RcOk(m) /\ \A r \in Req : m.snapshots[r] = None
      /\ \A r \in Req : m.req_to_slot[r] = None
  BY NewManagerOk, StepAssumption
<1>2. NoCaches \in Kvs /\ (\A s \in Slot : NoCaches.owner[s] = None) /\ \A c \in Cache : NoCaches.obj[c] = Unused
  BY DEF NoCaches, Kvs
<1>3. m \in Managers(Snapshots, Nat)
  BY <1>1 DEF RcOk
<1> HIDE DEF m
<1>4. v = [rc |-> m, kv |-> NoCaches, offload |-> offload,
           req |-> [r \in Req |-> None], active |-> [s \in Slot |-> None]]
  BY DEF NewWorker, m
<1> HIDE DEF NoCaches, Unused
<1>5. /\ v \in Workers /\ v.rc = m /\ v.kv = NoCaches
      /\ (\A r \in Req : v.req[r] = None) /\ \A s \in Slot : v.active[s] = None
  BY <1>2, <1>3, <1>4 DEF Workers
<1>6. \A r \in Req : ~Cached(v, r) /\ ~Stored(v, r)
  BY <1>1, <1>5 DEF Cached, Stored
<1>7. Owned(v) /\ Marked(v)
  BY <1>5, <1>6 DEF Owned, Marked
<1>8. Placed(v)
  BY <1>2, <1>5, <1>6 DEF Placed
<1>9. Slotted(v)
  BY <1>1, <1>5 DEF Slotted
<1>10. Holds(v, KnownTokens(d)) /\ Honest(v, KnownTokens(d))
  BY <1>5, <1>6 DEF Holds, Honest
<1>11. Sound(v, KnownTokens(d))
  BY <1>1, <1>5, <1>7, <1>8, <1>9, <1>10 DEF Sound
<1>12. Acting(v) /\ OwnerOk(v) /\ Tidy(v)
  BY <1>2, <1>5 DEF Acting, OwnerOk, Tidy
<1> QED BY <1>5, <1>6, <1>11, <1>12 DEF CachesInv

LEMMA InitInv ==
  ASSUME Init
  PROVE  Inv(sched, p, step, w)
<1>1. PICK offload \in BOOLEAN : w = NewWorker(Cap, offload)
  BY WorkerAssumption DEF Init
<1>2. sched = Idle /\ p = NoPlan /\ step = NoStep
  BY DEF Init
<1>3. SchedInv(Idle) /\ PlanInv(Idle, NoPlan) /\ IsScheduler(Idle)
  BY IdleIs DEF SchedInv
<1>4. CachesInv(Idle, w) /\ \A r \in Req : w.req[r] = None /\ ~Stored(w, r)
  BY <1>1, <1>3, NewWorkerIs
<1>5. StepInv(Idle, NoPlan, NoStep) /\ LogitsInv(NoPlan, NoStep) /\ RowInv(Idle, NoPlan, NoStep, w)
  BY NoStepIs DEF StepInv, LogitsInv, RowInv
<1>6. \A r \in Req : Idle.status[r] = "waiting" /\ Idle.out[r] = <<>>
  BY DEF Idle
<1>7. LiveInv(Idle, NoPlan, NoStep, w)
  BY <1>4, <1>6, NoStepIs DEF LiveInv
<1>8. SettledInv(NoPlan, NoStep, w)
  BY <1>4 DEF SettledInv, Cached
<1> HIDE DEF Idle, NoPlan, NoStep
<1>9. Inv(Idle, NoPlan, NoStep, w)
  BY <1>3, <1>4, <1>5, <1>7, <1>8 DEF Inv
<1> QED BY <1>2, <1>9

LEMMA EngineStepInv ==
  ASSUME Inv(sched, p, step, w), EngineStep
  PROVE  Inv(sched', p', step', w')
<1>1. CASE ScheduleRunning
  BY <1>1, ScheduleRunningStep
<1>2. CASE PreemptLast
  BY <1>2, PreemptLastStep
<1>3. CASE ResumePreempted
  BY <1>3, ResumePreemptedStep
<1>4. CASE Dispatch
  BY <1>4, DispatchStep
<1>5. CASE \E r \in Req : FinalizeFinished(r)
  BY <1>5, FinalizeFinishedStep
<1>6. CASE \E cost \in Costs : AdmitNew(cost)
  BY <1>6, AdmitNewStep
<1>7. CASE \E cost \in Costs : StartRow(cost)
  BY <1>7, StartRowStep
<1>8. CASE ContinueCached
  BY <1>8, ContinueCachedStep
<1>9. CASE Forward
  BY <1>9, ForwardStep
<1>10. CASE Sample
  BY <1>10, SampleStep
<1> QED BY <1>1, <1>2, <1>3, <1>4, <1>5, <1>6, <1>7, <1>8, <1>9, <1>10 DEF EngineStep

LEMMA NextInv ==
  ASSUME Inv(sched, p, step, w), [Next]_vars
  PROVE  Inv(sched', p', step', w')
<1>1. CASE EngineStep
  BY <1>1, EngineStepInv
<1>2. CASE \E r \in Req : ScheduleNew(r)
  BY <1>2, ScheduleNewStep
<1>3. CASE \E r \in Req : Abort(r)
  BY <1>3, AbortStep
<1>4. CASE UNCHANGED vars
  BY <1>4 DEF vars
<1> QED BY <1>1, <1>2, <1>3, <1>4 DEF Next, AllServed

(***************************************************************************)
(* Whatever arrives, is preempted, aborted or finishes, between any two    *)
(* handlers of a step the scheduler, its plan, what is left of the step    *)
(* and the worker fit together, and every cache is one request's or one    *)
(* snapshot's, on the slot it is placed on, with the tokens it stands for. *)
(***************************************************************************)
THEOREM InvAlways == Spec => []Inv(sched, p, step, w)
<1>1. Init => Inv(sched, p, step, w)
  BY InitInv
<1>2. Inv(sched, p, step, w) /\ [Next]_vars => Inv(sched, p, step, w)'
  <2> SUFFICES ASSUME Inv(sched, p, step, w), [Next]_vars
               PROVE  Inv(sched, p, step, w)'
    OBVIOUS
  <2>1. Inv(sched', p', step', w')
    BY NextInv
  <2> QED BY <2>1
<1> QED BY <1>1, <1>2, PTL DEF Spec

-----------------------------------------------------------------------------
(* What the invariant says of a state.                                     *)

LEMMA InvIs ==
  ASSUME Inv(sched, p, step, w)
  PROVE  /\ SchedInv(sched) /\ PlanInv(sched, p) /\ StepInv(sched, p, step) /\ LogitsInv(p, step)
         /\ LiveInv(sched, p, step, w) /\ RowInv(sched, p, step, w) /\ SettledInv(p, step, w)
         /\ IsScheduler(sched) /\ KnownTokens(sched) \in [Req -> Seq(Text)]
         /\ Sound(w, KnownTokens(sched)) /\ Acting(w) /\ OwnerOk(w) /\ Tidy(w)
         /\ w \in Workers /\ RcOk(w.rc) /\ Owned(w) /\ Placed(w) /\ Marked(w) /\ Slotted(w)
         /\ Holds(w, KnownTokens(sched)) /\ Honest(w, KnownTokens(sched))
<1>1. /\ SchedInv(sched) /\ PlanInv(sched, p) /\ StepInv(sched, p, step) /\ LogitsInv(p, step)
      /\ LiveInv(sched, p, step, w) /\ RowInv(sched, p, step, w) /\ SettledInv(p, step, w)
      /\ CachesInv(sched, w)
  BY DEF Inv
<1>2. IsScheduler(sched)
  BY <1>1 DEF SchedInv
<1>3. KnownTokens(sched) \in [Req -> Seq(Text)]
  BY <1>2, KnownTokensIs
<1>4. Sound(w, KnownTokens(sched)) /\ Acting(w) /\ OwnerOk(w) /\ Tidy(w)
  BY <1>1 DEF CachesInv
<1>5. /\ w \in Workers /\ RcOk(w.rc) /\ Owned(w) /\ Placed(w) /\ Marked(w) /\ Slotted(w)
      /\ Holds(w, KnownTokens(sched)) /\ Honest(w, KnownTokens(sched))
  BY <1>4 DEF Sound
<1> QED BY <1>1, <1>2, <1>3, <1>4, <1>5

LEMMA SlotsAreSlots ==
  ASSUME NEW v, v \in Workers, RcOk(v.rc), Slotted(v), NEW r \in Req, v.req[r] # None
  PROVE  /\ v.req[r].slot \in (IF Batch THEN Slot ELSE {None})
         /\ SlotKey(v, r) \in Slot
         /\ Batch => SlotKey(v, r) = v.req[r].slot
<1>1. v.rc.req_to_slot \in [Req -> Slot \cup {None}]
  BY DEF RcOk, Managers
<1>2. v.req[r].slot = IF Batch THEN v.rc.req_to_slot[r] ELSE None
  BY DEF Slotted
<1>3. Batch => v.rc.req_to_slot[r] # None
  BY DEF Slotted
<1>4. 0 \in Slot /\ None \notin Slot
  BY NoneIs
<1> QED BY <1>1, <1>2, <1>3, <1>4 DEF SlotKey

LEMMA InvTypeOK ==
  ASSUME Inv(sched, p, step, w)
  PROVE  TypeOK
<1>1. /\ SchedInv(sched) /\ PlanInv(sched, p) /\ IsScheduler(sched)
      /\ w \in Workers /\ RcOk(w.rc) /\ Slotted(w)
  BY InvIs
<1>2. /\ sched.status \in [Req -> Statuses]
      /\ sched.running \in Seq(Req) /\ sched.preempted \in Seq(Req)
      /\ sched.out \in [Req -> Seq(Tok)]
      /\ sched.num \in [Req -> Nat] /\ sched.table \in [Req -> Seq(Block)]
      /\ sched.free \in Seq(Block)
  BY <1>1 DEF IsScheduler
<1>3. \A r \in Req : Len(sched.out[r]) <= MaxOut
  BY <1>1 DEF SchedInv, ProgressInv
<1>4. /\ p.order \in Seq(Req) /\ p.plan \in [Req -> Plans \cup {None}]
      /\ p.next \in Nat \ {0} /\ p.budget \in Nat /\ p.stalled \in BOOLEAN
  BY <1>1 DEF PlanInv, Planners
<1>5. /\ w.req \in [Req -> RequestStates \cup {None}]
      /\ w.active \in [Slot -> Actives \cup {None}]
      /\ w.kv \in Kvs
  BY <1>1 DEF Workers
<1>6. w.rc.snapshots \in [Req -> Snapshots \cup {None}]
  BY <1>1 DEF RcOk, Managers
<1>7. w.kv.obj \in [Cache -> Objects] /\ w.kv.owner \in [Slot -> Cache \cup {None}]
  <2>1. InUse \subseteq Objects
    BY DEF InUse, Objects
  <2>3. Unused \in Objects
    <3>1. <<>> \in Seq(Text) /\ None \in Slot \cup {None}
      OBVIOUS
    <3> QED BY <3>1 DEF Unused, Objects
  <2>2. w.kv.obj \in [Cache -> InUse \cup {Unused}] /\ w.kv.owner \in [Slot -> Cache \cup {None}]
    BY <1>5 DEF Kvs
  <2> QED BY <2>1, <2>2, <2>3
<1>8. \A r \in Req : Live(w, r) => w.req[r].slot \in (IF Batch THEN Slot ELSE {None})
  BY <1>1, SlotsAreSlots DEF Live
<1> QED BY <1>2, <1>3, <1>4, <1>5, <1>6, <1>7, <1>8 DEF TypeOK

\* A sequence starts another just if it is one of its prefixes.
LEMMA StartsIsPrefix ==
  ASSUME NEW T, NEW s \in Seq(T), NEW t \in Seq(T), Starts(s, t)
  PROVE  IsPrefix(s, t)
<1>1. Len(s) \in 0 .. Len(t) /\ \A i \in 1 .. Len(s) : s[i] = t[i]
  <2>1. Len(s) \in Nat /\ Len(t) \in Nat
    OBVIOUS
  <2> QED BY <2>1 DEF Starts
<1>2. /\ SubSeq(t, 1, Len(s)) \in Seq(T) /\ Len(SubSeq(t, 1, Len(s))) = Len(s)
      /\ \A i \in 1 .. Len(s) : SubSeq(t, 1, Len(s))[i] = t[i]
  BY <1>1, FirstEntries
<1>3. SubSeq(t, 1, Len(s)) = s
  BY <1>1, <1>2, SeqEqual
<1>4. SubSeq(s, 1, Len(s)) = s
  OBVIOUS
<1> QED BY <1>1, <1>3, <1>4 DEF IsPrefix

LEMMA InvCacheHoldsOwnTokens ==
  ASSUME Inv(sched, p, step, w)
  PROVE  CacheHoldsOwnTokens
<1>1. /\ Holds(w, KnownTokens(sched)) /\ SettledInv(p, step, w) /\ w \in Workers /\ Placed(w)
      /\ IsScheduler(sched) /\ RcOk(w.rc) /\ Slotted(w)
  BY InvIs
<1> SUFFICES ASSUME NEW r \in Req, Live(w, r), CacheOf(w, r) # None
             PROVE  /\ IsPrefix(w.kv.obj[CacheOf(w, r)].tokens, Known(sched, r))
                    /\ Planning => HeldTokens(w, r) = w.req[r].num
  BY DEF CacheHoldsOwnTokens
<1> DEFINE s == w.kv.obj[w.req[r].cache].tokens
           t == Known(sched, r)
<1>2. w.req[r] # None /\ Cached(w, r) /\ CacheOf(w, r) = w.req[r].cache
  BY DEF Live, CacheOf, Cached
<1>3. KnownTokens(sched)[r] = t /\ t \in Seq(Text)
  BY <1>1, KnownTokensIs, KnownIs
<1>4. Starts(s, t)
  BY <1>1, <1>2, <1>3 DEF Holds, Cached
<1>5. s \in Seq(Text)
  <2>1. w.kv.obj[w.req[r].cache].row \in Slot
    BY <1>1, <1>2, SlotsAreSlots DEF Placed
  <2>2. w.req[r].cache \in Cache /\ w.kv \in Kvs
    BY <1>1, <1>2, WorkerIs
  <2>3. None \notin Slot
    BY SMTT(30), NoneIs
  <2> QED BY <2>1, <2>2, <2>3, InUseIs
<1>6. IsPrefix(s, t)
  BY <1>3, <1>4, <1>5, StartsIsPrefix
<1>7. Planning => HeldTokens(w, r) = w.req[r].num
  BY <1>1, <1>2 DEF SettledInv, Planning
<1> QED BY <1>2, <1>6, <1>7

LEMMA InvNoCacheIsShared ==
  ASSUME Inv(sched, p, step, w)
  PROVE  NoCacheIsShared
<1>1. Owned(w)
  BY InvIs
<1> DEFINE live   == {<<"live", r>> : r \in {q \in Req : Live(w, q) /\ CacheOf(w, q) # None}}
           stored == {<<"snapshot", r>> : r \in {q \in Req : w.rc.snapshots[q] # None}}
           cache(h) == IF h[1] = "live" THEN CacheOf(w, h[2]) ELSE w.rc.snapshots[h[2]].cache
<1>2. ASSUME NEW h \in live
      PROVE  h[1] = "live" /\ h[2] \in Req /\ Cached(w, h[2]) /\ cache(h) = w.req[h[2]].cache /\ h = <<"live", h[2]>>
  BY DEF Live, CacheOf, Cached
<1>3. ASSUME NEW h \in stored
      PROVE  h[1] = "snapshot" /\ h[2] \in Req /\ Stored(w, h[2]) /\ cache(h) = w.rc.snapshots[h[2]].cache
             /\ h = <<"snapshot", h[2]>>
  BY DEF Stored
<1>4. ASSUME NEW h \in live \cup stored, NEW g \in live \cup stored, cache(h) = cache(g)
      PROVE  h = g
  <2>1. CASE h \in live /\ g \in live
    <3>1. h[2] = g[2]
      BY <1>1, <1>2, <1>4, <2>1 DEF Owned
    <3> HIDE DEF live, stored, cache
    <3> QED BY <1>2, <2>1, <3>1
  <2>2. CASE h \in stored /\ g \in stored
    <3>1. h[2] = g[2]
      BY <1>1, <1>3, <1>4, <2>2 DEF Owned
    <3> HIDE DEF live, stored, cache
    <3> QED BY <1>3, <2>2, <3>1
  <2>3. CASE h \in live /\ g \in stored
    <3> HIDE DEF live, stored, cache
    <3> QED BY <1>1, <1>2, <1>3, <1>4, <2>3 DEF Owned
  <2>4. CASE h \in stored /\ g \in live
    <3> HIDE DEF live, stored, cache
    <3> QED BY <1>1, <1>2, <1>3, <1>4, <2>4 DEF Owned
  <2> QED BY <2>1, <2>2, <2>3, <2>4
<1> QED BY <1>4 DEF NoCacheIsShared

LEMMA InvSnapshotsAreHonest ==
  ASSUME Inv(sched, p, step, w)
  PROVE  SnapshotsAreHonest
<1>1. /\ Honest(w, KnownTokens(sched)) /\ w \in Workers /\ Placed(w) /\ IsScheduler(sched)
  BY InvIs
<1> SUFFICES ASSUME NEW o \in Req, w.rc.snapshots[o] # None,
                    NEW s, s = w.rc.snapshots[o],
                    NEW held, held = SubSeq(w.kv.obj[s.cache].tokens, 1, s.num)
             PROVE  /\ s.num <= SeqLength(w.kv, s.cache)
                    /\ IsPrefix(held, Known(sched, o))
                    /\ \A i \in 1 .. s.num :
                          s.ids[i] = IF held[i] \in Images THEN Placeholder ELSE held[i]
  <2> SUFFICES ASSUME NEW o \in Req, w.rc.snapshots[o] # None
               PROVE  LET s    == w.rc.snapshots[o]
                          held == SubSeq(w.kv.obj[s.cache].tokens, 1, s.num)
                      IN  /\ s.num <= SeqLength(w.kv, s.cache)
                          /\ IsPrefix(held, Known(sched, o))
                          /\ \A i \in 1 .. s.num :
                                s.ids[i] = IF held[i] \in Images THEN Placeholder ELSE held[i]
    BY Zenon DEF SnapshotsAreHonest
  <2> QED BY Zenon
<1> DEFINE q == w.kv.obj[s.cache].tokens
           t == Known(sched, o)
           n == s.num
<1>2. Stored(w, o)
  BY SMTT(30) DEF Stored
<1>3. KnownTokens(sched)[o] = t /\ t \in Seq(Text)
  BY <1>1, KnownTokensIs, KnownIs
<1>4. IsHonest(s, o, q, t)
  BY Zenon, <1>1, <1>2, <1>3 DEF Honest
<1>5. q \in Seq(Text)
  <2>1. w.kv.obj[s.cache].row \in Slot
    BY Zenon, <1>1, <1>2 DEF Placed
  <2>2. s.cache \in Cache /\ w.kv \in Kvs
    BY SMTT(30), <1>1, <1>2, WorkerIs
  <2>3. None \notin Slot
    BY SMTT(30), NoneIs
  <2> QED BY Zenon, <2>1, <2>2, <2>3, InUseIs
<1>6. n \in Nat
  BY <1>1, <1>2, WorkerIs
<1>7. /\ n <= Len(q) /\ n <= Len(t)
      /\ \A i \in 1 .. n : q[i] = t[i] /\ s.ids[i] = Masked(t[i])
  BY Zenon, <1>4 DEF IsHonest
<1>8. held = SubSeq(q, 1, n) /\ SeqLength(w.kv, s.cache) = Len(q)
  BY SMTT(30) DEF SeqLength
<1> HIDE DEF q, t, n
<1>9. n \in 0 .. Len(q)
  BY <1>5, <1>6, <1>7
<1>10. held \in Seq(Text) /\ Len(held) = n /\ \A i \in 1 .. n : held[i] = q[i]
  <2>1. /\ SubSeq(q, 1, n) \in Seq(Text) /\ Len(SubSeq(q, 1, n)) = n
        /\ \A i \in 1 .. n : SubSeq(q, 1, n)[i] = q[i]
    BY <1>5, <1>9, FirstEntries
  <2> QED BY Zenon, <1>8, <2>1
<1>11. Starts(held, t)
  BY Zenon, <1>7, <1>10 DEF Starts
<1>12. IsPrefix(held, t)
  BY Zenon, <1>3, <1>10, <1>11, StartsIsPrefix
<1>13. \A i \in 1 .. n : s.ids[i] = IF held[i] \in Images THEN Placeholder ELSE held[i]
  <2> SUFFICES ASSUME NEW i \in 1 .. n
               PROVE  s.ids[i] = IF held[i] \in Images THEN Placeholder ELSE held[i]
    BY Zenon
  <2>1. held[i] = t[i] /\ s.ids[i] = Masked(t[i])
    BY Zenon, <1>7, <1>10
  <2> QED BY Zenon, <2>1 DEF Masked
<1> QED BY Zenon, <1>7, <1>8, <1>12, <1>13 DEF n, t

LEMMA InvRowsKeepTheirSlots ==
  ASSUME Inv(sched, p, step, w)
  PROVE  RowsKeepTheirSlots
<1>1. /\ RowInv(sched, p, step, w) /\ PlanInv(sched, p) /\ SchedInv(sched) /\ Placed(w)
  BY InvIs
<1> SUFFICES ASSUME Batch, RowsStarted, NEW r \in Entries(p.order), Waiting(r),
                    NEW slot, slot = w.req[r].slot
             PROVE  /\ w.active[slot] = [req |-> r, cache |-> CacheOf(w, r)]
                    /\ HoldsSlot(w.kv, CacheOf(w, r), slot)
                    /\ HeldTokens(w, r) = step.start[r]
  BY DEF RowsKeepTheirSlots
<1>2. step.running /\ step.new = <<>> /\ step.cached = <<>> /\ step.rows = <<>> /\ Silent(step, r)
  BY DEF RowsStarted, Admitted, Waiting, Silent
<1>3. \A x : x \notin Entries(<<>>)
  BY DEF Entries
<1>4. HasStarted(p, step, r)
  BY <1>2, <1>3 DEF HasStarted
<1>5. Poised(step, w, r)
  BY <1>1, <1>2, <1>3, <1>4 DEF RowInv
<1>6. SlotKey(w, r) = slot
  BY DEF SlotKey
<1>7. /\ Cached(w, r) /\ w.active[slot] = [req |-> r, cache |-> w.req[r].cache]
      /\ w.kv.owner[slot] = w.req[r].cache /\ HeldTokens(w, r) = step.start[r]
  BY <1>5, <1>6 DEF Poised
<1>8. r \in Req
  BY SMTT(30), <1>1, PlannedIs
<1>9. w.kv.obj[w.req[r].cache].row = slot
  BY <1>1, <1>6, <1>7, <1>8 DEF Placed
<1> QED BY <1>7, <1>9 DEF HoldsSlot, CacheOf

\* A slot is free for a request that is yet to be admitted.
LEMMA NewFindsSlot ==
  ASSUME Inv(sched, p, step, w), Batch, step.finished = {}, step.new # <<>>
  PROVE  w.rc.free_slots # {}
<1>1. /\ SchedInv(sched) /\ PlanInv(sched, p) /\ StepInv(sched, p, step) /\ LiveInv(sched, p, step, w)
      /\ IsScheduler(sched) /\ RcOk(w.rc) /\ Slotted(w) /\ step \in Steps
  BY InvIs DEF StepInv
<1> DEFINE r == Head(step.new)
           run == sched.running
           slots == w.rc.req_to_slot
<1>2. step.running /\ ~Handled(step)
  <2>1. step.running
    BY <1>1, NoStepIs DEF StepInv
  <2> QED BY <2>1 DEF Handled
<1>3. r \in Req /\ r \in Entries(step.new)
  BY <1>1, HeadIs DEF Steps
<1>4. p.plan[r] # None /\ p.plan[r].kind = "new"
  BY <1>1, <1>2, <1>3 DEF StepInv
<1>5. IsNew(p, step, r) /\ sched.preempted = <<>>
  BY <1>1, <1>3, <1>4 DEF IsNew, PlanInv
<1>6. r \in Entries(run)
  <2>1. r \in Entries(p.order)
    BY <1>1, <1>3, <1>4 DEF PlanInv
  <2>2. sched.status[r] = "running"
    BY <1>1, <2>1, PlannedIs
  <2> QED BY <1>1, <1>3, <2>2 DEF SchedInv, QueueInv
<1>7. \A o \in Req : slots[o] # None => o \in Entries(run) /\ o # r
  <2> SUFFICES ASSUME NEW o \in Req, slots[o] # None
               PROVE  o \in Entries(run) /\ o # r
    OBVIOUS
  <2>1. w.req[o] # None
    BY <1>1 DEF Slotted
  <2>2. sched.status[o] \in {"running", "preempted", "finished"} /\ ~IsNew(p, step, o)
    BY <1>1, <2>1 DEF LiveInv
  <2>3. sched.status[o] # "finished"
    BY <1>1, <1>2 DEF StepInv
  <2>4. sched.status[o] # "preempted"
    BY <1>1, <1>5 DEF SchedInv, QueueInv, Entries
  <2> QED BY <1>1, <1>5, <2>2, <2>3, <2>4 DEF SchedInv, QueueInv
<1>8. run \in Seq(Req) /\ Len(run) <= MaxSeqs /\ MaxSeqs \in Nat /\ MaxSlots \in Nat /\ MaxSeqs <= MaxSlots
  <2>1. MaxSlots \in Nat /\ MaxSeqs <= MaxSlots
    BY SlotAssumption, StepAssumption
  <2> QED BY <1>1, <2>1, BoundsAssumption DEF IsScheduler, SchedInv, QueueInv
<1> HIDE DEF r, run, slots
<1>9. SUFFICES ASSUME w.rc.free_slots = {} PROVE FALSE
  OBVIOUS
<1>10. PICK k \in 1 .. Len(run) : run[k] = r
  BY <1>6, <1>8 DEF Entries
<1> DEFINE A == (1 .. Len(run)) \ {k}
           f == [i \in A |-> slots[run[i]]]
<1>11. \A s \in Slot : \E i \in A : f[i] = s
  <2> SUFFICES ASSUME NEW s \in Slot
               PROVE  \E i \in A : f[i] = s
    OBVIOUS
  <2>1. w.rc.slot_to_req[s] # None /\ w.rc.slot_to_req[s] \in Req \cup {None}
    <3>1. s \in 0 .. w.rc.max_batch_size - 1
      BY <1>1, <1>8 DEF RcOk, Slot
    <3> QED BY <1>1, <1>9, <3>1 DEF RcOk, SlotsMatch, Managers
  <2>2. PICK o \in Req : w.rc.slot_to_req[s] = o
    BY <2>1
  <2>3. slots[o] = s
    BY <1>1, <2>2 DEF RcOk, SlotsMatch, slots
  <2>4. slots[o] # None
    BY <2>3, NoneIs
  <2>5. PICK i \in 1 .. Len(run) : run[i] = o
    BY <1>7, <1>8, <2>4 DEF Entries
  <2>6. i \in A
    BY <1>7, <1>10, <2>4, <2>5
  <2> QED BY <2>3, <2>5, <2>6
<1>12. IsFiniteSet(A) /\ Cardinality(A) = Len(run) - 1 /\ Len(run) \in Nat
  <2>1. Len(run) \in Nat
    BY <1>8
  <2> DEFINE m == Len(run)
  <2> HIDE DEF m
  <2>2. IsFiniteSet(1 .. m) /\ Cardinality(1 .. m) = m
    <3>1. m \in Nat
      BY <2>1 DEF m
    <3> QED BY <3>1, FS_Interval
  <2>3. k \in 1 .. m /\ A = (1 .. m) \ {k}
    BY DEF m
  <2>4. IsFiniteSet(A) /\ Cardinality(A) = m - 1
    BY <2>2, <2>3, FS_RemoveElement
  <2> QED BY <2>1, <2>4 DEF m
<1>13. Cardinality(Slot) = MaxSlots
  <2>1. Cardinality(0 .. MaxSlots - 1) = MaxSlots
    BY <1>8, FS_Interval
  <2> QED BY <2>1 DEF Slot
<1> HIDE DEF A, f
<1>14. Cardinality(Slot) <= Cardinality(A)
  BY <1>11, <1>12, CoveredIs
<1> QED BY <1>8, <1>12, <1>13, <1>14

LEMMA InvSlotsFollowRequests ==
  ASSUME Inv(sched, p, step, w)
  PROVE  SlotsFollowRequests
<1>1. Slotted(w)
  BY InvIs
<1>2. Batch => \A r \in Req : w.rc.req_to_slot[r] = IF Live(w, r) THEN w.req[r].slot ELSE None
  BY <1>1 DEF Slotted, Live
<1>3. Batch /\ step.finished = {} /\ step.new # <<>> => CanAssignSlot(w.rc, Head(step.new))
  BY NewFindsSlot DEF CanAssignSlot
<1> QED BY <1>2, <1>3 DEF SlotsFollowRequests

LEMMA InvSnapshotsAreReclaimable ==
  ASSUME Inv(sched, p, step, w)
  PROVE  SnapshotsAreReclaimable
<1>1. Marked(w) /\ RcOk(w.rc)
  BY InvIs
<1> QED BY <1>1 DEF Marked, Stored, Live, RcOk, SnapshotsAreReclaimable

-----------------------------------------------------------------------------
(* What a step saves to host memory.                                       *)

HasDumps(v) == "kv" \in DOMAIN v /\ "dumps" \in DOMAIN v.kv

LEMMA WorkerHasDumps ==
  ASSUME NEW v \in Workers
  PROVE  HasDumps(v)
BY DEF HasDumps, Workers, Kvs

LEMMA CollectedDumps ==
  ASSUME NEW v, HasDumps(v)
  PROVE  Collected(v).kv.dumps = v.kv.dumps
BY DEF HasDumps, Collected, Collect

LEMMA FinalizeDumps ==
  ASSUME Inv(sched, p, step, w), NEW r \in Req, FinalizeFinished(r)
  PROVE  w'.kv.dumps = w.kv.dumps
<1> DEFINE K == KnownTokens(sched)
           u == FinalizeFinishedRequest(w, r)
<1>1. w' = Collected(u) /\ r \in step.finished
  BY DEF FinalizeFinished
<1>2. K \in [Req -> Seq(Text)] /\ Sound(w, K) /\ w.req[r] # None
  BY <1>1, InvIs DEF LiveInv
<1> HIDE DEF K
<1>3. u = FinalizeFinishedRequest(w, r)
  OBVIOUS
<1> HIDE DEF u
<1>4. Sound(u, K) /\ Retires(w, u, r)
  BY <1>2, <1>3, FinalizeIs
<1> QED BY <1>1, <1>4, CollectedDumps, WorkerHasDumps DEF Sound, Retires

\* Assigning a slot leaves the caches alone.
LEMMA AssignCacheSlotKv ==
  ASSUME NEW v, NEW x, v.kv = x.kv, DOMAIN v = DOMAIN x, x \in Workers, NEW r, NEW cost,
         NEW u \in AssignCacheSlot(v, r, cost)
  PROVE  u.kv = v.kv /\ DOMAIN u = DOMAIN v
<1> DEFINE resident == ResidentSnapshots(v, v.rc.free_slots)
           matches  == resident # {} /\ EnablePrefixCaching /\ v.req[r].num > 0
                       /\ ~RecomputesPromptLogprobs(v, r)
           left     == IF matches THEN DropStaleResident(v, r, resident) ELSE v
           prefixes == IF matches THEN MatchResident(v, r, resident) ELSE {NoMatch}
           slotOf(match) == IF match.req # None /\ ShouldTakeOver(match.tokens)
                            THEN SlotHolding(v, match.req) ELSE None
           rc(match) == AssignSlot(left.rc, r, slotOf(match), VictimRank(left, cost))
<1>1. PICK match \in prefixes : u = [left EXCEPT !.rc = rc(match), !.req[r].slot = rc(match).req_to_slot[r]]
  BY Zenon DEF AssignCacheSlot
<1>2. left.kv = v.kv /\ DOMAIN left = DOMAIN v
  BY DEF DropStaleResident, Workers
<1>3. "kv" \in DOMAIN v
  BY DEF Workers
<1> HIDE DEF left, rc
<1> QED BY <1>1, <1>2, <1>3

LEMMA AdmitDumps ==
  ASSUME NEW cost, AdmitNew(cost), w \in Workers
  PROVE  w'.kv.dumps = w.kv.dumps
<1> DEFINE r == Head(step.new)
           x == [w EXCEPT !.rc = ObserveRequestBlocks(@, r, p.plan[r].blocks),
                          !.req[r] = [num |-> p.plan[r].num, out |-> <<>>, slot |-> None,
                                      cache |-> None, blocks |-> p.plan[r].blocks, pos |-> 1]]
<1>1. PICK u \in AdmitRequest(w, r, p.plan[r].num, p.plan[r].blocks, cost) : w' = Collected(u)
  BY DEF AdmitNew
<1>2. u \in IF Batch THEN AssignCacheSlot(x, r, cost) ELSE {x}
  BY DEF AdmitRequest
<1>3. x.kv = w.kv /\ DOMAIN x = DOMAIN w
  BY DEF Workers
<1> HIDE DEF x, r
<1>4. u.kv = w.kv /\ DOMAIN u = DOMAIN w
  BY <1>2, <1>3, AssignCacheSlotKv
<1>5. HasDumps(u)
  BY SMTT(30), <1>4, WorkerHasDumps DEF HasDumps
<1> QED BY <1>1, <1>4, <1>5, CollectedDumps

LEMMA ContinueDumps ==
  ASSUME ContinueCached, w \in Workers
  PROVE  w'.kv.dumps = w.kv.dumps
<1> DEFINE r == Head(step.cached)
           q == p.plan[r]
<1>1. w' = ContinueRequest(w, r, q.num, q.blocks, q.kind = "resumed")
  BY DEF ContinueCached
<1>2. \A num, blocks, resumed : ContinueRequest(w, r, num, blocks, resumed).kv = w.kv
  BY DEF ContinueRequest, Workers
<1> QED BY <1>1, <1>2

\* y is u once the rows of R ran and num tokens of r are counted.
RunsTo(u, y, start, R, r, num) == y = [Infer(u, start, R) EXCEPT !.req[r].num = num]

\* Running a row and counting it saves nothing.
LEMMA InferDumps ==
  ASSUME NEW u \in Workers, NEW start, NEW R, NEW r, NEW num,
         NEW y, RunsTo(u, y, start, R, r, num)
  PROVE  HasDumps(y) /\ y.kv.dumps = u.kv.dumps
<1> DEFINE ran == Infer(u, start, R)
<1>1. u.kv \in Kvs
  BY DEF Workers
<1>2. "kv" \in DOMAIN ran /\ "dumps" \in DOMAIN ran.kv /\ ran.kv.dumps = u.kv.dumps
  BY <1>1 DEF Infer, Workers, Kvs
<1>3. y = [ran EXCEPT !.req[r].num = num]
  BY DEF RunsTo
<1> HIDE DEF ran
<1>4. y.kv = ran.kv /\ "kv" \in DOMAIN y
  BY <1>2, <1>3
<1> QED BY <1>2, <1>4 DEF HasDumps

LEMMA StartRowSaves ==
  ASSUME Inv(sched, p, step, w), NEW cost, StartRow(cost)
  PROVE  Saves(w, w')
<1> DEFINE r == Head(step.rows)
<1>1. step.running /\ Handled(step) /\ step.rows # <<>>
  BY DEF StartRow, Admitted, Handled
<1>2. PICK load \in LoadSnapshotIfNeeded(w, r, cost) :
        w' = Collected(IF Batch THEN StartRequestStep(load.w, r, load.start, cost)
                       ELSE [Infer(StartRequestStep(load.w, r, load.start, cost),
                                   [step.start EXCEPT ![r] = load.start], {r})
                               EXCEPT !.req[r].num = ScheduledEnd(r)])
  BY Zenon DEF StartRow
<1> DEFINE u      == StartRequestStep(load.w, r, load.start, cost)
           n      == load.start
           start  == [step.start EXCEPT ![r] = load.start]
           R      == {r}
           num    == ScheduledEnd(r)
           y      == IF Batch THEN u ELSE [Infer(u, start, R) EXCEPT !.req[r].num = num]
<1>3. Starting(w, u, load, r, cost) /\ n = load.start /\ r = Head(step.rows)
  BY SMTT(30) DEF Starting
<1>4. w' = Collected(y)
  BY <1>2
<1>5. y = u \/ RunsTo(u, y, start, R, r, num)
  BY DEF RunsTo
<1> HIDE DEF u, n, r, y, start, R, num
<1>6. Started(sched, p, w, u, r, n)
  BY <1>1, <1>3, RowStarts
<1>7. u \in Workers /\ Saves(w, u)
  BY <1>6 DEF Started, Sound
<1>8. y.kv.dumps = u.kv.dumps /\ HasDumps(y)
  BY <1>5, <1>7, InferDumps, WorkerHasDumps
<1>9. w'.kv.dumps = y.kv.dumps
  BY <1>4, <1>8, CollectedDumps
<1> QED BY SMTT(30), <1>7, <1>8, <1>9 DEF Saves

LEMMA ForwardDumps ==
  ASSUME Forward, w \in Workers
  PROVE  w'.kv.dumps = w.kv.dumps
<1>1. w.kv \in Kvs
  BY SMTT(30) DEF Workers
<1> DEFINE ran == Infer(w, step.start, Entries(p.order))
<1>2. "kv" \in DOMAIN ran /\ ran.kv.dumps = w.kv.dumps
  BY <1>1 DEF Infer, Workers, Kvs
<1>3. w'.kv = ran.kv
  BY <1>2 DEF Forward
<1> QED BY <1>2, <1>3

LEMMA SampleDumps ==
  ASSUME Sample, w \in Workers
  PROVE  w'.kv.dumps = {}
<1>1. w.kv \in Kvs
  BY DEF Workers
<1>2. \E req : w' = [w EXCEPT !.req = req, !.kv.dumps = {}]
  BY Zenon DEF Sample
<1> QED BY <1>1, <1>2 DEF Workers, Kvs

\* Whatever a step saves is a live request's, but for copies and offloads.
LEMMA NextSaves ==
  ASSUME Inv(sched, p, step, w), [Next]_vars
  PROVE  Saves(w, w')
<1>0. w \in Workers
  BY InvIs
<1>1. ASSUME w'.kv.dumps \subseteq w.kv.dumps
      PROVE  Saves(w, w')
  BY <1>1 DEF Saves
<1>2. CASE \E r \in Req : FinalizeFinished(r)
  BY <1>1, <1>2, FinalizeDumps
<1>3. CASE \E cost \in Costs : AdmitNew(cost)
  BY <1>0, <1>1, <1>3, AdmitDumps
<1>4. CASE \E cost \in Costs : StartRow(cost)
  BY <1>4, StartRowSaves
<1>5. CASE ContinueCached
  BY <1>0, <1>1, <1>5, ContinueDumps
<1>6. CASE Forward
  BY <1>0, <1>1, <1>6, ForwardDumps
<1>7. CASE Sample
  BY <1>0, <1>1, <1>7, SampleDumps
<1>8. CASE w' = w
  BY <1>1, <1>8
<1>9. CASE ScheduleRunning \/ PreemptLast \/ ResumePreempted \/ Dispatch
  BY <1>8, <1>9 DEF ScheduleRunning, PreemptLast, ResumePreempted, ScheduleFromQueue, Dispatch
<1>10. CASE \E r \in Req : ScheduleNew(r) \/ Abort(r)
  BY <1>8, <1>10 DEF ScheduleNew, ScheduleFromQueue, Abort
<1>11. CASE UNCHANGED vars
  BY <1>8, <1>11 DEF vars
<1> QED BY <1>2, <1>3, <1>4, <1>5, <1>6, <1>7, <1>9, <1>10, <1>11 DEF Next, EngineStep, AllServed

OnlyLiveIsSaved(v, u) ==
  \A dump \in u.kv.dumps \ v.kv.dumps :
    \/ dump.by = "copy"
    \/ dump.by = "offload" /\ v.offload
    \/ \E r \in Req : Live(v, r) /\ CacheOf(v, r) = dump.of

LEMMA SavesOnlyLive ==
  ASSUME NEW v, v \in Workers, Acting(v), NEW u, Saves(v, u)
  PROVE  OnlyLiveIsSaved(v, u)
<1> SUFFICES ASSUME NEW dump \in u.kv.dumps \ v.kv.dumps, Bound(v, dump.of)
             PROVE  \E r \in Req : Live(v, r) /\ CacheOf(v, r) = dump.of
  BY DEF Saves, OnlyLiveIsSaved
<1>1. CASE \E o \in Req, s \in Slot : Cached(v, o) /\ v.req[o].cache = dump.of /\ v.kv.owner[s] = dump.of
  BY <1>1 DEF Cached, Live, CacheOf
<1>2. CASE \E s \in Slot : v.active[s] # None /\ v.active[s].cache = dump.of
  BY <1>2, WorkerIs DEF Acting, Live, CacheOf
<1> QED BY <1>1, <1>2 DEF Bound

-----------------------------------------------------------------------------
(* The refinement of IsolatedRequests.                                     *)

\* r ran on the start of its tokens, if it ran.
RanOnStart(d, s, r) ==
  s.logits[r] = <<>> \/ \E n \in 1 .. Len(Known(d, r)) : s.logits[r] = SubSeq(Known(d, r), 1, n)

LEMMA LogitsAreStarts ==
  ASSUME NEW d, NEW q, NEW s, NEW v, Inv(d, q, s, v), NEW r \in Req
  PROVE  RanOnStart(d, s, r)
<1>1. /\ SchedInv(d) /\ PlanInv(d, q) /\ StepInv(d, q, s) /\ LogitsInv(q, s) /\ RowInv(d, q, s, v)
  BY DEF Inv
<1> SUFFICES ASSUME s.logits[r] # <<>>
             PROVE  \E n \in 1 .. Len(Known(d, r)) : s.logits[r] = SubSeq(Known(d, r), 1, n)
  BY DEF RanOnStart
<1>2. s.running
  BY <1>1 DEF StepInv, NoStep
<1>3. HasStarted(q, s, r)
  BY <1>1, <1>2 DEF LogitsInv, Silent
<1>4. r \in Entries(q.order)
  BY <1>3 DEF HasStarted
<1>5. s.new = <<>> /\ s.cached = <<>>
  <2>1. Handled(s)
    BY <1>1, <1>2, <1>3 DEF StepInv, HasStarted
  <2> QED BY <2>1 DEF Handled
<1>6. r \notin Entries(s.new) /\ r \notin Entries(s.cached)
  BY <1>5 DEF Entries
<1>7. Finished(s, v, r, Known(d, r), d.num[r])
  BY <1>1, <1>2, <1>4, <1>6 DEF RowInv, Silent
<1>8. s.logits[r] = SubSeq(Known(d, r), 1, d.num[r])
  BY <1>7 DEF Finished
<1>9. /\ q.plan[r].num \in Nat /\ q.plan[r].n \in Nat \ {0}
      /\ q.plan[r].num + q.plan[r].n = d.num[r] /\ d.num[r] \in Nat
      /\ d.num[r] <= Len(Known(d, r))
  BY <1>1, <1>4, PlannedIs
<1>10. d.num[r] \in 1 .. Len(Known(d, r))
  <2>1. Len(Known(d, r)) \in Nat
    BY <1>1, KnownIs DEF SchedInv
  <2> QED BY <1>9, <2>1
<1> QED BY <1>8, <1>10

\* Logits that are those of before, or of a row that had none.
LogitsGrow ==
  /\ sched'.out = sched.out
  /\ \A r \in Req : step'.logits[r] = step.logits[r] \/ step.logits[r] = <<>>

LEMMA GrowingRuns ==
  ASSUME Inv(sched, p, step, w), Inv(sched', p', step', w'), LogitsGrow
  PROVE  Isolated!Run
<1>1. \A r \in Req : step'.logits[r] = <<>> \/ step'.logits[r] \in Isolated!Prefixes(r)
  <2> SUFFICES ASSUME NEW r \in Req
               PROVE  step'.logits[r] = <<>> \/ step'.logits[r] \in Isolated!Prefixes(r)
    OBVIOUS
  <2>1. RanOnStart(sched', step', r)
    BY LogitsAreStarts
  <2>2. Known(sched', r) = Isolated!Known(r)
    BY DEF LogitsGrow, Known, Isolated!Known
  <2> QED BY <2>1, <2>2 DEF RanOnStart, Isolated!Prefixes
<1>2. step'.logits \in [Req -> {<<>>} \cup UNION {Isolated!Prefixes(r) : r \in Req}]
  <2>1. step' \in Steps
    BY DEF Inv, StepInv
  <2>2. step'.logits = [r \in Req |-> step'.logits[r]]
    BY <2>1 DEF Steps
  <2>3. \A r \in Req : step'.logits[r] \in {<<>>} \cup UNION {Isolated!Prefixes(q) : q \in Req}
    BY <1>1
  <2> QED BY <2>2, <2>3
<1>3. \A r \in Req : step'.logits[r] \in {step.logits[r]} \cup Isolated!Prefixes(r)
  BY <1>1 DEF LogitsGrow
<1>4. UNCHANGED sched.out
  BY DEF LogitsGrow
<1> QED BY <1>2, <1>3, <1>4 DEF Isolated!Run

LEMMA FromQueueGrows ==
  ASSUME Inv(sched, p, step, w), NEW r \in Req, FromQueue(sched, r), ScheduleFromQueue(r)
  PROVE  LogitsGrow
<1>1. SchedInv(sched) /\ PlanInv(sched, p)
  BY InvIs
<1>2. /\ CanResume(sched, p) /\ WaitingFits(sched, p, r)
      /\ sched' = PlanWaiting(sched, p, r).d /\ step' = step
  BY DEF ScheduleFromQueue
<1>3. sched'.out = sched.out
  BY <1>1, <1>2, PlanWaitingKeeps DEF PlansMore
<1> QED BY <1>2, <1>3 DEF LogitsGrow

LEMMA EngineGrows ==
  ASSUME Inv(sched, p, step, w), EngineStep, ~Sample
  PROVE  LogitsGrow
<1>1. /\ SchedInv(sched) /\ PlanInv(sched, p) /\ StepInv(sched, p, step) /\ LogitsInv(p, step)
      /\ step \in Steps
  BY InvIs DEF StepInv
<1>2. CASE ScheduleRunning
  <2>1. sched'.out = sched.out
    <3>1. /\ ~AllRunningPlanned(sched, p) /\ RunningFits(sched, p)
          /\ sched' = PlanRunning(sched, p).d
      BY <1>2 DEF ScheduleRunning
    <3> QED BY <1>1, <3>1, PlanRunningKeeps DEF PlansMore
  <2> QED BY <1>2, <2>1 DEF LogitsGrow, ScheduleRunning
<1>3. CASE PreemptLast
  <2>1. sched'.out = sched.out
    <3>1. ~AllRunningPlanned(sched, p) /\ sched' = PlanPreemption(sched, p).d
      BY <1>3 DEF PreemptLast
    <3> QED BY <1>1, <3>1, PlanPreemptionKeeps DEF Preempted
  <2> QED BY <1>3, <2>1 DEF LogitsGrow, PreemptLast
<1>4. CASE Dispatch
  <2>1. step.logits = NoStep.logits
    BY <1>1, <1>4 DEF StepInv, Dispatch, Planning
  <2>2. step'.logits = NoStep.logits
    BY <1>4 DEF Dispatch, NoStep
  <2>3. sched'.out = sched.out
    BY <1>1, <1>4 DEF Dispatch, SchedInv, IsScheduler
  <2> QED BY <2>1, <2>2, <2>3 DEF LogitsGrow
<1>5. CASE \E r \in Req : FinalizeFinished(r)
  BY <1>1, <1>5 DEF FinalizeFinished, LogitsGrow, Steps
<1>6. CASE \E cost \in Costs : AdmitNew(cost)
  BY <1>1, <1>6 DEF AdmitNew, LogitsGrow, Steps
<1>7. CASE ContinueCached
  BY <1>1, <1>7 DEF ContinueCached, LogitsGrow, Steps
<1>8. ASSUME NEW cost, StartRow(cost)
      PROVE  LogitsGrow
  <2>1. step.running /\ Handled(step) /\ step.rows # <<>> /\ sched' = sched
    BY <1>8 DEF StartRow, Admitted, Handled
  <2> DEFINE r == Head(step.rows)
  <2>2. r \in Req /\ r \in Entries(step.rows)
    BY <1>1, <2>1, HeadIs DEF Steps
  <2>3. step.logits[r] = <<>>
    BY <1>1, <2>1, <2>2 DEF LogitsInv, HasStarted, Silent
  <2>4. \E ran, rows, start, warned :
          step' = [step EXCEPT !.rows = rows, !.start = start,
                               !.logits = IF Batch THEN @ ELSE LogitsOf(ran, {r}), !.warned = warned]
    BY Zenon, <1>8 DEF StartRow
  <2>5. \E ran : step'.logits = IF Batch THEN step.logits ELSE LogitsOf(ran, {r})
    BY <1>1, <2>4 DEF Steps
  <2>6. \A o \in Req \ {r} : step'.logits[o] = step.logits[o]
    BY <2>5 DEF LogitsOf
  <2> QED BY SMTT(30), <2>1, <2>3, <2>6 DEF LogitsGrow
<1>9. CASE Forward
  <2>1. /\ step.running /\ Handled(step) /\ Batch /\ sched' = sched
        /\ \E r \in Entries(p.order) : Silent(step, r)
    BY <1>9 DEF Forward, RowsStarted, Admitted, Handled, Waiting, Silent
  <2>2. \A r \in Req : step.logits[r] = <<>>
    BY <1>1, <2>1 DEF LogitsInv, Silent
  <2> QED BY <2>1, <2>2 DEF LogitsGrow
<1>10. CASE ResumePreempted
  <2>1. /\ Head(sched.preempted) \in Req /\ FromQueue(sched, Head(sched.preempted))
        /\ ScheduleFromQueue(Head(sched.preempted))
    BY <1>1, <1>10 DEF ResumePreempted, FromQueue, SchedInv, IsScheduler
  <2> QED BY <2>1, FromQueueGrows
<1> QED BY <1>2, <1>3, <1>4, <1>5, <1>6, <1>7, <1>8, <1>9, <1>10 DEF EngineStep

LEMMA NextGrows ==
  ASSUME Inv(sched, p, step, w), [Next]_vars, ~Sample
  PROVE  LogitsGrow
<1>1. CASE EngineStep
  BY <1>1, EngineGrows
<1>2. CASE \E r \in Req : ScheduleNew(r)
  BY <1>2, FromQueueGrows DEF ScheduleNew, FromQueue
<1>3. CASE \E r \in Req : Abort(r)
  <2>1. PICK r \in Req : sched' = FinishRequest(sched, r) /\ step' = step
    BY <1>3 DEF Abort
  <2>2. sched'.out = sched.out
    BY <2>1, InvIs, FinishFields
  <2> QED BY <2>1, <2>2 DEF LogitsGrow
<1>4. CASE UNCHANGED vars
  BY <1>4 DEF vars, LogitsGrow
<1> QED BY <1>1, <1>2, <1>3, <1>4 DEF Next, AllServed

LEMMA SampleGenerates ==
  ASSUME Inv(sched, p, step, w), Sample, SampledRowsRanOnAllTokens
  PROVE  \E R \in SUBSET Req : Isolated!Generate(R)
<1> DEFINE R == {r \in Entries(p.order) : Samples(r)}
<1>1. /\ RowsStarted /\ \A r \in Entries(p.order) : ~Waiting(r)
      /\ step' = NoStep
  BY DEF Sample
<1>2. PICK token \in [R -> Tok] : sched' = ReturnAll(sched, p.order, token)
  BY DEF Sample
<1>3. /\ SchedInv(sched) /\ PlanInv(sched, p) /\ IsScheduler(sched)
  BY InvIs
<1>4. /\ p.order \in Seq(Req) /\ Injective(p.order) /\ Entries(p.order) \subseteq Req
      /\ \A r \in Entries(p.order) : sched.status[r] = "running"
  BY <1>3, PlannedIs
<1>5. R \in SUBSET Req /\ R \in SUBSET Entries(p.order)
  BY <1>4
<1>6. \A r \in R : step.logits[r] = Isolated!Known(r)
  BY <1>1 DEF SampledRowsRanOnAllTokens, Known, Isolated!Known
<1>7. \A r \in R : Len(sched.out[r]) < MaxOut
  BY <1>3, <1>4 DEF SchedInv, ProgressInv
<1>8. Returned(sched, sched', R, token)
  <2> DEFINE e == ReturnAll(sched, p.order, token)
  <2>1. e = ReturnAll(sched, p.order, token) /\ sched' = e
    BY <1>2
  <2> HIDE DEF e, R
  <2>2. Returned(sched, e, R, token)
    BY <1>3, <1>4, <1>5, <2>1, ReturnAllIs
  <2> QED BY <2>1, <2>2
<1>9. sched'.out = [r \in Req |-> IF r \in R THEN Append(sched.out[r], token[r]) ELSE sched.out[r]]
  <2>1. sched'.out \in [Req -> Seq(Tok)]
    BY <1>8 DEF Returned, SchedInv, IsScheduler
  <2>2. \A r \in Req : sched'.out[r] = IF r \in R THEN Append(sched.out[r], token[r]) ELSE sched.out[r]
    BY <1>8 DEF Returned
  <2> HIDE DEF R
  <2> QED BY <2>1, <2>2
<1>10. step'.logits = Isolated!Nothing
  BY <1>1 DEF NoStep, Isolated!Nothing
<1> HIDE DEF R
<1> QED BY <1>5, <1>6, <1>7, <1>9, <1>10 DEF Isolated!Generate

-----------------------------------------------------------------------------
(* The theorems.                                                           *)

(***************************************************************************)
(* The scheduler's, the plan's and the worker's state have their types,    *)
(* and the live requests of a batch model a slot.                          *)
(***************************************************************************)
THEOREM AlwaysTypeOK == Spec => []TypeOK
<1>1. Inv(sched, p, step, w) => TypeOK
  BY InvTypeOK
<1> QED BY <1>1, InvAlways, PTL

(***************************************************************************)
(* A request's cache holds the KV of its own tokens and of nothing else,   *)
(* whatever it was copied, taken over or recomputed from.                  *)
(***************************************************************************)
THEOREM AlwaysCacheHoldsOwnTokens == Spec => []CacheHoldsOwnTokens
<1>1. Inv(sched, p, step, w) => CacheHoldsOwnTokens
  BY InvCacheHoldsOwnTokens
<1> QED BY <1>1, InvAlways, PTL

(***************************************************************************)
(* A snapshot's cache holds the tokens it is matched by.                   *)
(***************************************************************************)
THEOREM AlwaysSnapshotsAreHonest == Spec => []SnapshotsAreHonest
<1>1. Inv(sched, p, step, w) => SnapshotsAreHonest
  BY InvSnapshotsAreHonest
<1> QED BY <1>1, InvAlways, PTL

(***************************************************************************)
(* Live requests and snapshots all have caches of their own.               *)
(***************************************************************************)
THEOREM NeverSharesACache == Spec => []NoCacheIsShared
<1>1. Inv(sched, p, step, w) => NoCacheIsShared
  BY InvNoCacheIsShared
<1> QED BY <1>1, InvAlways, PTL

(***************************************************************************)
(* A batch runs with every row on its slot at the length it starts from.   *)
(***************************************************************************)
THEOREM AlwaysRowsKeepTheirSlots == Spec => []RowsKeepTheirSlots
<1>1. Inv(sched, p, step, w) => RowsKeepTheirSlots
  BY InvRowsKeepTheirSlots
<1> QED BY <1>1, InvAlways, PTL

(***************************************************************************)
(* Live requests, and no others, hold a slot, and assign_slot never raises *)
(* for want of one.                                                        *)
(***************************************************************************)
THEOREM AlwaysSlotsFollowRequests == Spec => []SlotsFollowRequests
<1>1. Inv(sched, p, step, w) => SlotsFollowRequests
  BY InvSlotsFollowRequests
<1> QED BY <1>1, InvAlways, PTL

(***************************************************************************)
(* Every snapshot is a live request's or can be evicted.                   *)
(***************************************************************************)
THEOREM AlwaysSnapshotsAreReclaimable == Spec => []SnapshotsAreReclaimable
<1>1. Inv(sched, p, step, w) => SnapshotsAreReclaimable
  BY InvSnapshotsAreReclaimable
<1> QED BY <1>1, InvAlways, PTL

(***************************************************************************)
(* Only the KV of live requests is saved by a bind (issue #40).            *)
(***************************************************************************)
THEOREM AlwaysOnlyLiveKVIsSaved == Spec => OnlyLiveKVIsSaved
<1> DEFINE Step ==
      \A dump \in w'.kv.dumps \ w.kv.dumps :
        \/ dump.by = "copy"
        \/ dump.by = "offload" /\ w.offload
        \/ \E r \in Req : Live(w, r) /\ CacheOf(w, r) = dump.of
<1>1. Inv(sched, p, step, w) /\ [Next]_vars => Step
  <2> SUFFICES ASSUME Inv(sched, p, step, w), [Next]_vars
               PROVE  Step
    OBVIOUS
  <2>1. OnlyLiveIsSaved(w, w')
    BY InvIs, NextSaves, SavesOnlyLive
  <2> QED BY <2>1 DEF OnlyLiveIsSaved
<1>2. Inv(sched, p, step, w) /\ [Next]_vars => [Step]_vars
  BY <1>1
<1> QED BY <1>2, InvAlways, PTL DEF Spec, OnlyLiveKVIsSaved

(***************************************************************************)
(* Where no token is sampled before the model ran on all the tokens of its *)
(* request, each request is answered as if it were alone: the worker, its  *)
(* slots, caches and snapshots implement the specification that has none.  *)
(***************************************************************************)
THEOREM AnswersAreThoseAlone == Spec /\ []SampledRowsRanOnAllTokens => AnswersAsIfAlone
<1>1. Init => Isolated!Init
  BY DEF Init, Idle, NoStep, Isolated!Init, Isolated!Nothing
<1>2. /\ Inv(sched, p, step, w) /\ Inv(sched, p, step, w)' /\ SampledRowsRanOnAllTokens /\ [Next]_vars
      => [Isolated!Next]_Isolated!vars
  <2> SUFFICES ASSUME Inv(sched, p, step, w), Inv(sched', p', step', w'),
                      SampledRowsRanOnAllTokens, [Next]_vars
               PROVE  Isolated!Next
    OBVIOUS
  <2>1. CASE Sample
    BY <2>1, SampleGenerates DEF Isolated!Next
  <2>2. CASE ~Sample
    BY <2>2, NextGrows, GrowingRuns DEF Isolated!Next
  <2> QED BY <2>1, <2>2
<1> QED BY <1>1, <1>2, InvAlways, PTL DEF Spec, AnswersAsIfAlone, Isolated!Spec

-----------------------------------------------------------------------------
(* Where no request is preempted.                                          *)

\* A request that has answers computes one token in a step: the last one.
CaughtUp(d, q) ==
  /\ d.preempted = <<>>
  /\ \A r \in Req : d.status[r] = "running" /\ d.out[r] # <<>> =>
       Len(Known(d, r)) <= IF q.plan[r] = None THEN d.num[r] + 1 ELSE d.num[r]

LEMMA PlanRunningNums ==
  ASSUME NEW d, NEW q, SchedInv(d), PlanInv(d, q), ~AllRunningPlanned(d, q), RunningFits(d, q),
         NEW next, next = PlanRunning(d, q)
  PROVE  /\ next.d.preempted = d.preempted
         /\ next.p.plan[d.running[q.next]].num = d.num[d.running[q.next]]
         /\ \A o \in Req \ {d.running[q.next]} : next.d.num[o] = d.num[o]
<1> DEFINE r == d.running[q.next]
           n == Share(d, q, r, d.num[r])
           blocks == NewBlocks(d, r, d.num[r] + n, d.table[r])
           a == Allocate(d, r, d.num[r] + n, d.table[r])
<1>1. IsScheduler(d) /\ q \in Planners /\ PlansMore(d, q, next.d, next.p, r)
  BY PlanRunningKeeps DEF SchedInv, PlanInv
<1>2. r \in Req
  BY <1>1 DEF PlansMore
<1>3. /\ next.d = [a EXCEPT !.num[r] = @ + n]
      /\ next.p = NextScheduled(q, r, d.num[r], n, blocks, "running")
  BY Zenon DEF PlanRunning, NextScheduled
<1>4. a.num = d.num /\ a.preempted = d.preempted /\ DOMAIN a = DOMAIN d
  BY SMTT(30), <1>1 DEF Allocate, IsScheduler
<1>5. "num" \in DOMAIN a /\ "preempted" \in DOMAIN a /\ a.num \in [Req -> Nat]
  BY <1>1, <1>4 DEF IsScheduler
<1> HIDE DEF a, n, blocks
<1>7. next.d.preempted = d.preempted /\ \A o \in Req \ {r} : next.d.num[o] = d.num[o]
  BY <1>2, <1>3, <1>4, <1>5
<1> HIDE DEF r
<1>8. next.p.plan[r].num = d.num[r]
  <2> DEFINE num == d.num[r]
  <2>1. /\ next.p.plan = [q.plan EXCEPT ![r] = Planned(num, n, blocks, "running")]
        /\ q.plan \in [Req -> Plans \cup {None}]
    BY <1>1, <1>3 DEF NextScheduled, ScheduledAs, Planners
  <2> HIDE DEF num
  <2>2. next.p.plan[r] = Planned(num, n, blocks, "running")
    BY <1>2, <2>1
  <2>3. next.p.plan[r].num = num
    BY <2>2 DEF Planned
  <2> QED BY <2>3 DEF num
<1> QED BY <1>7, <1>8 DEF r

LEMMA ScheduleRunningCatchesUp ==
  ASSUME Inv(sched, p, step, w), CaughtUp(sched, p), ScheduleRunning
  PROVE  CaughtUp(sched', p')
<1>1. SchedInv(sched) /\ PlanInv(sched, p) /\ IsScheduler(sched)
  BY InvIs
<1> DEFINE next == PlanRunning(sched, p)
           r    == sched.running[p.next]
<1>2. /\ ~AllRunningPlanned(sched, p) /\ RunningFits(sched, p)
      /\ sched' = next.d /\ p' = next.p
  BY DEF ScheduleRunning
<1>3. SchedInv(sched') /\ PlanInv(sched', p') /\ PlansMore(sched, p, sched', p', r)
  BY <1>1, <1>2, PlanRunningKeeps
<1>4. /\ sched'.preempted = sched.preempted /\ p'.plan[r].num = sched.num[r]
      /\ \A o \in Req \ {r} : sched'.num[o] = sched.num[o]
  BY <1>1, <1>2, PlanRunningNums
<1>5. r \in Req /\ p.plan[r] = None /\ p'.plan[r] # None /\ sched'.out = sched.out
  BY <1>3 DEF PlansMore
<1>6. sched.status[r] = "running"
  <2>1. sched.running \in Seq(Req) /\ p.next \in 1 .. Len(sched.running)
    BY <1>1, <1>2 DEF IsScheduler, PlanInv, Planners, AllRunningPlanned
  <2>2. r \in Entries(sched.running)
    BY <2>1 DEF Entries
  <2> QED BY <1>1, <1>5, <2>2 DEF SchedInv, QueueInv
<1>7. sched'.num[r] \in Nat /\ sched.num[r] \in Nat /\ sched.num[r] + 1 <= sched'.num[r]
  <2>1. r \in Entries(p'.order)
    BY <1>3, <1>5 DEF PlanInv
  <2>2. p'.plan[r].n \in Nat \ {0} /\ p'.plan[r].num + p'.plan[r].n = sched'.num[r]
    BY SMTT(30), <1>3, <2>1, PlannedIs
  <2>3. sched.num[r] \in Nat
    BY <1>1, <1>5 DEF IsScheduler
  <2> QED BY <1>4, <2>2, <2>3
<1> HIDE DEF r, next
<1>8. ASSUME NEW o \in Req, sched'.status[o] = "running", sched'.out[o] # <<>>
      PROVE  Len(Known(sched', o)) <= IF p'.plan[o] = None THEN sched'.num[o] + 1 ELSE sched'.num[o]
  <2>1. Known(sched', o) = Known(sched, o) /\ Len(Known(sched, o)) \in Nat
    BY <1>1, <1>5, KnownIs DEF Known
  <2>2. CASE o = r
    <3>1. Len(Known(sched, r)) <= sched.num[r] + 1
      BY <1>5, <1>6, <1>8, <2>2 DEF CaughtUp
    <3> QED BY <1>5, <1>7, <2>1, <2>2, <3>1
  <2>3. CASE o # r
    <3>1. sched.status[o] = "running" /\ p'.plan[o] = p.plan[o] /\ sched'.num[o] = sched.num[o]
      BY <1>3, <1>4, <1>8, <2>3 DEF PlansMore
    <3> QED BY <1>5, <1>8, <2>1, <3>1 DEF CaughtUp
  <2> QED BY <2>2, <2>3
<1> QED BY <1>4, <1>8 DEF CaughtUp

LEMMA PlanWaitingNums ==
  ASSUME NEW d, NEW q, SchedInv(d), NEW r \in Req, d.preempted = <<>>,
         NEW next, next = PlanWaiting(d, q, r)
  PROVE  /\ next.d.preempted = <<>> /\ \A o \in Req \ {r} : next.d.num[o] = d.num[o]
<1> DEFINE hit == HitBlocks(d, r)
           num == Len(hit) * BlockSize
           n == Share(d, q, r, num)
           a == Allocate(d, r, num + n, hit)
           status == "running"
           running == Append(a.running, r)
           preempted == Without(a.preempted, {r})
<1>1. IsScheduler(d)
  BY DEF SchedInv
<1>2. next.d = [a EXCEPT !.status[r] = status, !.num[r] = num + n, !.running = running,
                         !.preempted = preempted]
  BY DEF PlanWaiting
<1>3. a.num = d.num /\ a.preempted = <<>> /\ DOMAIN a = DOMAIN d
  BY <1>1 DEF Allocate, IsScheduler
<1>4. preempted = <<>>
  <2>1. <<>> \in Seq(Req)
    OBVIOUS
  <2>2. /\ Without(<<>>, {r}) \in Seq(Req)
        /\ \A x : x \in Entries(Without(<<>>, {r})) <=> x \in Entries(<<>>) /\ x \notin {r}
    BY <2>1, WithoutIs
  <2>3. Entries(<<>>) = {}
    BY DEF Entries
  <2> DEFINE s == Without(<<>>, {r})
  <2> HIDE DEF s
  <2>4. s \in Seq(Req) /\ \A x : x \notin Entries(s)
    BY <2>2, <2>3 DEF s
  <2>5. s = <<>>
    BY <2>4, HeadIs
  <2>6. Without(<<>>, {r}) = <<>>
    BY <2>5 DEF s
  <2> QED BY <1>3, <2>6
<1>5. "num" \in DOMAIN a /\ "preempted" \in DOMAIN a /\ a.num \in [Req -> Nat]
  BY <1>1, <1>3 DEF IsScheduler
<1> HIDE DEF a, n, num, running, preempted
<1> QED BY <1>2, <1>3, <1>4, <1>5

LEMMA FromQueueCatchesUp ==
  ASSUME Inv(sched, p, step, w), CaughtUp(sched, p), NEW r \in Req,
         ScheduleFromQueue(r), FromQueue(sched, r)
  PROVE  CaughtUp(sched', p')
<1>1. SchedInv(sched) /\ PlanInv(sched, p) /\ IsScheduler(sched) /\ sched.preempted = <<>>
  BY InvIs DEF CaughtUp
<1> DEFINE next == PlanWaiting(sched, p, r)
<1>2. /\ CanResume(sched, p) /\ WaitingFits(sched, p, r)
      /\ sched' = next.d /\ p' = next.p
  BY DEF ScheduleFromQueue
<1>3. PlansMore(sched, p, sched', p', r)
  BY <1>1, <1>2, PlanWaitingKeeps
<1>4. sched'.preempted = <<>> /\ \A o \in Req \ {r} : sched'.num[o] = sched.num[o]
  BY <1>1, <1>2, PlanWaitingNums
<1>5. sched.out[r] = <<>> /\ sched'.out = sched.out
  BY <1>1, <1>3, FromQueueIs DEF SchedInv, ProgressInv, PlansMore
<1> HIDE DEF next
<1>6. ASSUME NEW o \in Req, sched'.status[o] = "running", sched'.out[o] # <<>>
      PROVE  Len(Known(sched', o)) <= IF p'.plan[o] = None THEN sched'.num[o] + 1 ELSE sched'.num[o]
  <2>1. o # r /\ sched.out[o] # <<>> /\ Known(sched', o) = Known(sched, o)
    BY <1>5, <1>6 DEF Known
  <2>2. sched.status[o] = "running" /\ p'.plan[o] = p.plan[o] /\ sched'.num[o] = sched.num[o]
    BY <1>3, <1>4, <1>6, <2>1 DEF PlansMore
  <2> QED BY <2>1, <2>2 DEF CaughtUp
<1> QED BY <1>4, <1>6 DEF CaughtUp

\* A row that is sampled ran on all tokens of its request.
LEMMA CaughtUpSamples ==
  ASSUME Inv(sched, p, step, w), CaughtUp(sched, p), RowsStarted,
         NEW r \in Entries(p.order), ~Waiting(r), Samples(r)
  PROVE  sched.num[r] = Len(Known(sched, r)) /\ step.logits[r] = Known(sched, r)
<1>1. /\ SchedInv(sched) /\ PlanInv(sched, p) /\ RowInv(sched, p, step, w) /\ IsScheduler(sched)
  BY InvIs
<1>2. /\ r \in Req /\ sched.status[r] = "running" /\ p.plan[r] # None
      /\ sched.num[r] \in Nat /\ sched.num[r] <= Len(Known(sched, r))
  BY <1>1, PlannedIs
<1>3. step.running /\ step.new = <<>> /\ step.cached = <<>> /\ ~Silent(step, r)
  BY DEF RowsStarted, Admitted, Waiting, Silent
<1>4. r \notin Entries(step.new) /\ r \notin Entries(step.cached)
  BY <1>3 DEF Entries
<1>5. Finished(step, w, r, Known(sched, r), sched.num[r])
  BY <1>1, <1>3, <1>4 DEF RowInv
<1>6. /\ Known(sched, r) \in Seq(Text) /\ Len(Known(sched, r)) = Len(Prompt[r]) + Len(sched.out[r])
      /\ Len(Prompt[r]) \in Nat \ {0} /\ Len(sched.out[r]) \in Nat /\ Len(Known(sched, r)) \in Nat
  BY <1>1, <1>2, KnownIs
<1>7. w.req[r].num = sched.num[r] /\ step.logits[r] = SubSeq(Known(sched, r), 1, sched.num[r])
  BY <1>5 DEF Finished
<1>8. Len(Known(sched, r)) <= sched.num[r]
  <2>1. CASE sched.out[r] # <<>>
    BY <1>2, <2>1 DEF CaughtUp
  <2>2. CASE sched.out[r] = <<>>
    <3>1. Len(sched.out[r]) = 0
      BY <2>2
    <3>2. Len(Prompt[r]) <= sched.num[r]
      BY <1>2, <1>6, <1>7 DEF Samples
    <3> QED BY <1>6, <3>1, <3>2
  <2> QED BY <2>1, <2>2
<1>9. sched.num[r] = Len(Known(sched, r))
  <2> DEFINE num == sched.num[r]
             len == Len(Known(sched, r))
  <2>1. num \in Nat /\ len \in Nat /\ num <= len /\ len <= num
    BY <1>2, <1>6, <1>8
  <2> HIDE DEF num, len
  <2>2. num = len
    BY <2>1
  <2> QED BY <2>2 DEF num, len
<1>10. SubSeq(Known(sched, r), 1, Len(Known(sched, r))) = Known(sched, r)
  BY <1>6
<1> QED BY <1>7, <1>9, <1>10

LEMMA SampleCatchesUp ==
  ASSUME Inv(sched, p, step, w), CaughtUp(sched, p), Sample
  PROVE  CaughtUp(sched', p')
<1> DEFINE R == {r \in Entries(p.order) : Samples(r)}
<1>1. RowsStarted /\ (\A r \in Entries(p.order) : ~Waiting(r)) /\ p' = NoPlan
  BY DEF Sample
<1>2. PICK token \in [R -> Tok] : sched' = ReturnAll(sched, p.order, token)
  BY DEF Sample
<1>3. SchedInv(sched) /\ PlanInv(sched, p) /\ IsScheduler(sched) /\ sched.preempted = <<>>
  BY InvIs DEF CaughtUp
<1>4. /\ p.order \in Seq(Req) /\ Injective(p.order) /\ Entries(p.order) \subseteq Req
      /\ \A r \in Entries(p.order) : sched.status[r] = "running"
  BY <1>3, PlannedIs
<1>5. R \in SUBSET Entries(p.order)
  OBVIOUS
<1>6. \A r \in R : sched.num[r] = Len(Known(sched, r))
  BY <1>1, CaughtUpSamples
<1> HIDE DEF R
<1>7. Returned(sched, sched', R, token)
  <2> DEFINE e == ReturnAll(sched, p.order, token)
  <2>1. e = ReturnAll(sched, p.order, token) /\ sched' = e
    BY <1>2
  <2> HIDE DEF e
  <2>2. Returned(sched, e, R, token)
    BY <1>3, <1>4, <1>5, <2>1, ReturnAllIs
  <2> QED BY <2>1, <2>2
<1>8. SchedInv(sched') /\ IsScheduler(sched')
  BY <1>7 DEF Returned, SchedInv
<1>9. ASSUME NEW r \in Req, sched'.status[r] = "running"
      PROVE  sched.status[r] = "running"
  BY <1>4, <1>5, <1>7, <1>9 DEF Returned
<1>10. sched'.preempted = <<>>
  <2>1. \A r \in Req : sched.status[r] # "preempted"
    BY <1>3 DEF SchedInv, QueueInv, Entries
  <2>2. \A r \in Req : sched'.status[r] # "preempted"
    BY <1>7, <2>1 DEF Returned
  <2>3. sched'.preempted \in Seq(Req)
    BY <1>8 DEF IsScheduler
  <2>4. \A r \in Req : r \notin Entries(sched'.preempted)
    BY <1>8, <2>2 DEF SchedInv, QueueInv
  <2>5. SUFFICES ASSUME sched'.preempted # <<>> PROVE FALSE
    OBVIOUS
  <2> QED BY <2>3, <2>4, <2>5, HeadIs
<1>11. ASSUME NEW r \in Req, sched'.status[r] = "running", sched'.out[r] # <<>>
       PROVE  Len(Known(sched', r)) <= IF p'.plan[r] = None THEN sched'.num[r] + 1 ELSE sched'.num[r]
  <2>1. p'.plan[r] = None /\ sched'.num[r] = sched.num[r] /\ sched.num[r] \in Nat
    BY <1>1, <1>3, <1>7 DEF NoPlan, Returned, IsScheduler
  <2>2. Len(Known(sched', r)) = Len(Prompt[r]) + Len(sched'.out[r])
    BY <1>8, KnownIs
  <2>3. /\ Len(Known(sched, r)) = Len(Prompt[r]) + Len(sched.out[r])
        /\ Len(Prompt[r]) \in Nat /\ Len(sched.out[r]) \in Nat
    BY <1>3, KnownIs
  <2>4. CASE r \in R
    <3>1. sched'.out[r] = Append(sched.out[r], token[r])
      BY <1>7, <2>4 DEF Returned
    <3>2. Len(sched'.out[r]) = Len(sched.out[r]) + 1
      BY <1>3, <2>4, <3>1 DEF IsScheduler
    <3>3. Len(Known(sched, r)) = sched.num[r]
      BY <1>6, <2>4
    <3>4. Len(Known(sched', r)) = Len(Known(sched, r)) + 1
      <4> DEFINE m == Len(Prompt[r])
                 n == Len(sched.out[r])
      <4>1. /\ Len(Known(sched', r)) = m + (n + 1) /\ Len(Known(sched, r)) = m + n
            /\ m \in Nat /\ n \in Nat
        BY <2>2, <2>3, <3>2
      <4> HIDE DEF m, n
      <4> QED BY <4>1
    <3>5. Len(Known(sched', r)) <= sched'.num[r] + 1
      BY <2>1, <3>3, <3>4
    <3> QED BY Zenon, <2>1, <3>5
  <2>5. CASE r \notin R
    <3>1. sched'.out[r] = sched.out[r]
      BY <1>7, <2>5 DEF Returned
    <3>2. Len(Known(sched, r)) <= IF p.plan[r] = None THEN sched.num[r] + 1 ELSE sched.num[r]
      BY <1>9, <1>11, <3>1 DEF CaughtUp
    <3>3. Len(Known(sched, r)) <= sched.num[r] + 1
      <4>1. Len(Known(sched, r)) \in Nat
        BY <1>3, KnownIs
      <4> DEFINE num == sched.num[r]
                 len == Len(Known(sched, r))
      <4>2. num \in Nat /\ len \in Nat /\ len <= IF p.plan[r] = None THEN num + 1 ELSE num
        BY <2>1, <3>2, <4>1
      <4> HIDE DEF num, len
      <4>3. len <= num + 1
        BY <4>2
      <4> QED BY <4>3 DEF num, len
    <3>4. Len(Known(sched', r)) = Len(Known(sched, r))
      BY <2>2, <2>3, <3>1
    <3>5. Len(Known(sched', r)) <= sched'.num[r] + 1
      BY <2>1, <3>3, <3>4
    <3> QED BY Zenon, <2>1, <3>5
  <2> QED BY <2>4, <2>5
<1> QED BY <1>10, <1>11 DEF CaughtUp

\* Steps that neither plan nor sample: the scheduler only drops requests.
LEMMA DroppedCatchesUp ==
  ASSUME NEW d, NEW e, NEW q, CaughtUp(d, q), e.preempted = <<>>, e.out = d.out, e.num = d.num,
         \A r \in Req : e.status[r] = "running" => d.status[r] = "running"
  PROVE  CaughtUp(e, q)
BY DEF CaughtUp, Known

LEMMA AbortCatchesUp ==
  ASSUME Inv(sched, p, step, w), CaughtUp(sched, p), NEW r \in Req, Abort(r)
  PROVE  CaughtUp(sched', p')
<1>1. SchedInv(sched) /\ IsScheduler(sched) /\ sched.preempted = <<>>
  BY InvIs DEF CaughtUp
<1>2. sched' = FinishRequest(sched, r) /\ p' = p
  BY DEF Abort
<1>3. /\ SchedInv(sched') /\ sched'.out = sched.out /\ sched'.num = sched.num
      /\ sched'.status[r] = "finished" /\ \A o \in Req \ {r} : sched'.status[o] = sched.status[o]
  BY <1>1, <1>2, FinishFields, FinishKeeps
<1>4. sched'.preempted = <<>>
  <2>1. \A o \in Req : sched'.status[o] # "preempted"
    BY <1>1, <1>3 DEF SchedInv, QueueInv, Entries
  <2>2. sched'.preempted \in Seq(Req) /\ \A o \in Req : o \notin Entries(sched'.preempted)
    BY <1>3, <2>1 DEF SchedInv, QueueInv, IsScheduler
  <2>3. SUFFICES ASSUME sched'.preempted # <<>> PROVE FALSE
    OBVIOUS
  <2> QED BY <2>2, <2>3, HeadIs
<1>5. CaughtUp(sched', p)
  BY <1>3, <1>4, DroppedCatchesUp
<1> QED BY <1>2, <1>5

LEMMA DispatchCatchesUp ==
  ASSUME Inv(sched, p, step, w), CaughtUp(sched, p), Dispatch
  PROVE  CaughtUp(sched', p')
<1>1. IsScheduler(sched) /\ sched.preempted = <<>>
  BY InvIs DEF CaughtUp
<1>2. sched' = [sched EXCEPT !.status = [r \in Req |-> IF @[r] = "finished" THEN "done" ELSE @[r]]]
      /\ p' = p
  BY DEF Dispatch
<1>3. /\ sched'.preempted = <<>> /\ sched'.out = sched.out /\ sched'.num = sched.num
      /\ \A r \in Req : sched'.status[r] = "running" => sched.status[r] = "running"
  BY <1>1, <1>2 DEF IsScheduler
<1>4. CaughtUp(sched', p)
  BY <1>3, DroppedCatchesUp
<1> QED BY <1>2, <1>4

LEMMA NextCatchesUp ==
  ASSUME Inv(sched, p, step, w), CaughtUp(sched, p), [Next]_vars, [~PreemptLast]_vars
  PROVE  CaughtUp(sched', p')
<1>1. CASE UNCHANGED <<sched, p>>
  BY <1>1
<1>2. CASE UNCHANGED vars
  BY <1>1, <1>2 DEF vars
<1>3. CASE ~PreemptLast /\ EngineStep
  <2>1. CASE ScheduleRunning
    BY <2>1, ScheduleRunningCatchesUp
  <2>2. CASE ResumePreempted
    BY <2>2 DEF ResumePreempted, CaughtUp
  <2>3. CASE Dispatch
    BY <2>3, DispatchCatchesUp
  <2>4. CASE Sample
    BY <2>4, SampleCatchesUp
  <2>5. CASE (\E r \in Req : FinalizeFinished(r)) \/ ContinueCached \/ Forward
    BY SMTT(30), <1>1, <2>5 DEF FinalizeFinished, ContinueCached, Forward
  <2>6. CASE \E cost \in Costs : AdmitNew(cost) \/ StartRow(cost)
    BY <1>1, <2>6 DEF AdmitNew, StartRow
  <2> QED BY <1>3, <2>1, <2>2, <2>3, <2>4, <2>5, <2>6 DEF EngineStep
<1>4. CASE \E r \in Req : ScheduleNew(r)
  BY <1>4, FromQueueCatchesUp DEF ScheduleNew, FromQueue
<1>5. CASE \E r \in Req : Abort(r)
  BY <1>5, AbortCatchesUp
<1> QED BY <1>2, <1>3, <1>4, <1>5 DEF Next, AllServed

(***************************************************************************)
(* Unless a request is preempted, the worker implements the specification  *)
(* that has no slots, caches and snapshots: each request is answered as if *)
(* it were alone.  Only what _should_sample_after_step makes of a resumed  *)
(* request can be wrong.                                                   *)
(***************************************************************************)
THEOREM UnpreemptedAnswersAreThoseAlone == Spec /\ [][~PreemptLast]_vars => AnswersAsIfAlone
<1>1. Init => CaughtUp(sched, p)
  BY DEF Init, Idle, NoPlan, CaughtUp
<1>2. Inv(sched, p, step, w) /\ CaughtUp(sched, p) /\ [Next]_vars /\ [~PreemptLast]_vars
      => CaughtUp(sched, p)'
  <2> SUFFICES ASSUME Inv(sched, p, step, w), CaughtUp(sched, p), [Next]_vars, [~PreemptLast]_vars
               PROVE  CaughtUp(sched, p)'
    OBVIOUS
  <2>1. CaughtUp(sched', p')
    BY NextCatchesUp
  <2> QED BY <2>1
<1>3. Inv(sched, p, step, w) /\ CaughtUp(sched, p) => SampledRowsRanOnAllTokens
  BY CaughtUpSamples DEF SampledRowsRanOnAllTokens
<1> QED BY <1>1, <1>2, <1>3, InvAlways, AnswersAreThoseAlone, PTL DEF Spec
=============================================================================
