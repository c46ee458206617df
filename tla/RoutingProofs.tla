----------------------------- MODULE RoutingProofs -----------------------------
(***************************************************************************)
(* Proofs about Routing, for every set of ports, plugins, mixers and       *)
(* outputs, every number of inputs and every depth of the stack that has   *)
(* room for one call of each processor.                                    *)
(***************************************************************************)
EXTENDS Routing, FiniteSetTheorems, SequenceTheorems, TLAPS

FrameType == [node : Processors, next : Nat \ {0}, size : Nat, mixing : BOOLEAN, used : SUBSET Sources]

RouteTypes ==
    /\ DOMAIN audioInput = Readers
    /\ \A n \in Readers : audioInput[n] \in [1..InputCount[n] -> Sources \cup {None}]
    /\ connectedInputs \in [Mixers -> Nat]
    /\ \A m \in Mixers : connectedInputs[m] <= InputCount[m]
    /\ slot # None => slot \in [mixer : Mixers, index : Nat, source : Sources]
    /\ slot # None => slot.index \in 1..InputCount[slot.mixer]
    /\ due \subseteq Processors
    /\ processedUntil \in [Processors -> 0..(TimeRange - 1)]
    /\ time \in 0..(TimeRange - 1)
    /\ stack \in Seq(FrameType)

\* What is computed is marked in the same step.  Until the time comes round no mark is
\* ahead of it, and those of a period are the marks of what was computed in it.
FreshInv ==
    /\ computed \subseteq UpToDate
    /\ ~wrapped => /\ \A n \in Processors : processedUntil[n] <= time
                   /\ Idle \/ UpToDate \subseteq computed
    /\ FreshInputs

--------------------------------------------------------------------------------
(***************************************************************************)
(* Types.                                                                  *)
(***************************************************************************)
LEMMA InitTypes == Init => RouteTypes
  BY InputsAssumption, KindsAssumption, TimeAssumption DEF Init, RouteTypes, Readers, Sources, Processors

\* A call that begins.
LEMMA Pushed ==
    ASSUME RouteTypes, NEW s \in Seq(FrameType), NEW n \in Processors
    PROVE  /\ Append(s, Frame(n)) \in Seq(FrameType)
           /\ Len(Append(s, Frame(n))) = Len(s) + 1
           /\ \A k \in 1..Len(s) : Append(s, Frame(n))[k] = s[k]
           /\ Append(s, Frame(n))[Len(s) + 1] = Frame(n)
           /\ Frame(n).node = n /\ Frame(n).used = {} /\ ~Frame(n).mixing
           /\ n \in Mixers => Frame(n).size = connectedInputs[n]
  <1>1. Frame(n) \in FrameType
    BY DEF Frame, FrameType, RouteTypes
  <1>2. /\ Frame(n).node = n /\ Frame(n).used = {} /\ ~Frame(n).mixing
        /\ n \in Mixers => Frame(n).size = connectedInputs[n]
    BY DEF Frame
  <1> HIDE DEF FrameType
  <1> QED
    BY <1>1, <1>2, AppendProperties

LEMMA FirstPushed ==
    ASSUME RouteTypes, NEW n \in Processors
    PROVE  /\ Append(<<>>, Frame(n)) \in Seq(FrameType) /\ Len(Append(<<>>, Frame(n))) = 1
           /\ Append(<<>>, Frame(n))[1] = Frame(n)
  <1>1. <<>> \in Seq(FrameType) /\ Len(<<>>) = 0 /\ Len(<<>>) + 1 = 1
    BY EmptySeq
  <1>2. /\ Append(<<>>, Frame(n)) \in Seq(FrameType)
        /\ Len(Append(<<>>, Frame(n))) = Len(<<>>) + 1
        /\ Append(<<>>, Frame(n))[Len(<<>>) + 1] = Frame(n)
    BY <1>1, Pushed
  <1> QED
    BY <1>1, <1>2

\* A call that ends.
LEMMA Popped ==
    ASSUME NEW S, NEW s \in Seq(S), s # <<>>
    PROVE  /\ SubSeq(s, 1, Len(s) - 1) \in Seq(S)
           /\ Len(SubSeq(s, 1, Len(s) - 1)) = Len(s) - 1
           /\ \A k \in 1..(Len(s) - 1) : SubSeq(s, 1, Len(s) - 1)[k] = s[k]
  <1> DEFINE m == Len(s) - 1
             t == SubSeq(s, 1, m)
  <1>1. m \in Nat /\ Len(s) = m + 1
    BY EmptySeq
  <1> HIDE DEF m
  <1>2. \A i \in 1..m : s[i] \in S
    BY <1>1, ElementOfSeq
  <1>3. /\ t \in Seq(S)
        /\ Len(t) = IF 1 <= m THEN m - 1 + 1 ELSE 0
        /\ \A k \in 1..(m - 1 + 1) : t[k] = s[1 + k - 1]
    BY <1>1, <1>2, SubSeqProperties
  <1> HIDE DEF t
  <1>4. Len(t) = m
    BY <1>1, <1>3
  <1>5. \A k \in 1..m : t[k] = s[k]
    BY <1>1, <1>3
  <1> QED
    BY <1>3, <1>4, <1>5 DEF t, m

\* The last call goes on.
LEMMA Changed ==
    ASSUME NEW S, NEW s \in Seq(S), s # <<>>, NEW f \in S
    PROVE  /\ [s EXCEPT ![Len(s)] = f] \in Seq(S)
           /\ Len([s EXCEPT ![Len(s)] = f]) = Len(s)
           /\ [s EXCEPT ![Len(s)] = f][Len(s)] = f
           /\ \A k \in 1..(Len(s) - 1) : [s EXCEPT ![Len(s)] = f][k] = s[k]
  <1> DEFINE n == Len(s)
             t == [s EXCEPT ![n] = f]
  <1>1. n \in Nat \ {0} /\ n \in 1..n
    BY EmptySeq
  <1>2. /\ t \in Seq(S) /\ Len(t) = n
        /\ \A j \in 1..n : t[j] = IF j = n THEN f ELSE s[j]
    BY <1>1, ExceptSeq
  <1> HIDE DEF n, t
  <1>3. \A k \in 1..(n - 1) : k \in 1..n /\ k # n
    BY <1>1
  <1>4. t[n] = f /\ \A k \in 1..(n - 1) : t[k] = s[k]
    BY <1>1, <1>2, <1>3
  <1> QED
    BY <1>2, <1>4 DEF t, n

LEMMA TopTyped ==
    ASSUME RouteTypes, stack # <<>>
    PROVE  /\ Len(stack) \in Nat \ {0} /\ Len(stack) \in DOMAIN stack /\ DOMAIN stack = 1..Len(stack)
           /\ Top \in FrameType /\ Top.node \in Processors /\ Top.next \in Nat \ {0}
           /\ Top.size \in Nat /\ Top.used \subseteq Sources
  <1>1. stack \in Seq(FrameType)
    BY DEF RouteTypes
  <1>2. Len(stack) \in Nat \ {0} /\ Len(stack) \in DOMAIN stack /\ DOMAIN stack = 1..Len(stack)
    BY <1>1, EmptySeq
  <1>3. Top \in FrameType
    BY <1>1, <1>2 DEF Top
  <1> QED
    BY <1>2, <1>3 DEF FrameType

\* The input the last call looks at.
LEMMA SourceTyped ==
    ASSUME RouteTypes, InputsLeft
    PROVE  /\ stack # <<>> /\ Top.node \in Readers /\ Top.next \in 1..InputCount[Top.node]
           /\ NextSource \in Sources \cup {None}
           /\ NextSource # None => NextSource \in Upstream(Top.node)
  <1>1. stack # <<>> /\ Top.next \in InputsOf(Top.node)
    BY DEF InputsLeft
  <1>2. Top.node \in Processors /\ Top.next \in Nat \ {0}
    BY <1>1, TopTyped
  <1>3. Top.node \in Readers /\ Top.next \in 1..InputCount[Top.node]
    <2>1. Top.node \notin Ports
      BY <1>1 DEF InputsOf
    <2>2. Top.node \in Readers
      BY <1>2, <2>1 DEF Processors
    <2>3. InputCount[Top.node] \in Nat
      BY <2>2, InputsAssumption
    <2>4. Top.node \in Mixers => connectedInputs[Top.node] \in Nat /\ connectedInputs[Top.node] <= InputCount[Top.node]
      BY DEF RouteTypes
    <2> QED
      BY <1>1, <1>2, <2>1, <2>2, <2>3, <2>4 DEF InputsOf
  <1>4. NextSource \in Sources \cup {None}
    BY <1>3 DEF RouteTypes, NextSource
  <1> QED
    BY <1>1, <1>3, <1>4 DEF Upstream, NextSource

LEMMA AdvancedTyped ==
    ASSUME RouteTypes, InputsLeft, NEW s \in Sources \cup {None}
    PROVE  /\ Advanced(s) \in Seq(FrameType) /\ Len(Advanced(s)) = Len(stack)
           /\ \A k \in 1..(Len(stack) - 1) : Advanced(s)[k] = stack[k]
           /\ Advanced(s)[Len(stack)].node = Top.node
           /\ Advanced(s)[Len(stack)].size = Top.size
           /\ Advanced(s)[Len(stack)].used = Top.used \cup ({s} \ {None})
           /\ ~Advanced(s)[Len(stack)].mixing
  <1> DEFINE f == [node |-> Top.node, next |-> Top.next + 1, mixing |-> FALSE,
                   used |-> Top.used \cup ({s} \ {None}), size |-> Top.size]
  <1>1. stack # <<>>
    BY DEF InputsLeft
  <1>2. f \in FrameType
    BY <1>1, TopTyped, KindsAssumption DEF FrameType, Sources, Processors, Readers
  <1>3. /\ f.node = Top.node /\ f.size = Top.size /\ f.used = Top.used \cup ({s} \ {None})
        /\ ~f.mixing
    OBVIOUS
  <1>4. Advanced(s) = [stack EXCEPT ![Len(stack)] = f]
    BY DEF Advanced
  <1> HIDE DEF f
  <1>5. stack \in Seq(FrameType)
    BY DEF RouteTypes
  <1> QED
    BY <1>1, <1>2, <1>3, <1>4, <1>5, Changed

LEMMA MixingTyped ==
    ASSUME RouteTypes, BeginMixing
    PROVE  /\ stack' \in Seq(FrameType) /\ Len(stack') = Len(stack)
           /\ \A k \in 1..(Len(stack) - 1) : stack'[k] = stack[k]
           /\ stack'[Len(stack)].node = Top.node
           /\ stack'[Len(stack)].size = Top.size
           /\ stack'[Len(stack)].next = Top.next
           /\ stack'[Len(stack)].used = Top.used
  <1> DEFINE f == [Top EXCEPT !.mixing = TRUE]
  <1>1. stack # <<>>
    BY DEF BeginMixing
  <1>2. /\ f \in FrameType /\ f.node = Top.node /\ f.size = Top.size /\ f.used = Top.used
        /\ f.next = Top.next
    BY <1>1, TopTyped DEF FrameType
  <1>3. stack' = [stack EXCEPT ![Len(stack)] = f]
    BY DEF BeginMixing
  <1> HIDE DEF f
  <1>4. stack \in Seq(FrameType)
    BY DEF RouteTypes
  <1> QED
    BY <1>1, <1>2, <1>3, <1>4, Changed

\* A connection is stored in one input.
LEMMA Stored ==
    ASSUME RouteTypes, NEW n \in Readers, NEW i \in 1..InputCount[n], NEW s \in Sources, Store(n, i, s)
    PROVE  /\ DOMAIN audioInput' = Readers
           /\ audioInput'[n][i] = s
           /\ \A r \in Readers : \A j \in 1..InputCount[r] :
                 r # n \/ j # i => audioInput'[r][j] = audioInput[r][j]
           /\ \A r \in Readers : audioInput'[r] \in [1..InputCount[r] -> Sources \cup {None}]
  <1>1. audioInput' = [audioInput EXCEPT ![n] = [audioInput[n] EXCEPT ![i] = s]]
    BY DEF Store
  <1>2. \A r \in Readers : audioInput[r] \in [1..InputCount[r] -> Sources \cup {None}]
    BY DEF RouteTypes
  <1>3. DOMAIN audioInput = Readers
    BY DEF RouteTypes
  <1>4. DOMAIN audioInput' = Readers /\ audioInput'[n] = [audioInput[n] EXCEPT ![i] = s]
    BY <1>1, <1>3
  <1>5. \A r \in Readers : r # n => audioInput'[r] = audioInput[r]
    BY <1>1, <1>3
  <1> DEFINE row == audioInput[n]
  <1>6. row \in [1..InputCount[n] -> Sources \cup {None}]
    BY <1>2
  <1>7. audioInput'[n] = [row EXCEPT ![i] = s]
    BY <1>4
  <1> HIDE DEF row
  <1>8. audioInput'[n] \in [1..InputCount[n] -> Sources \cup {None}] /\ audioInput'[n][i] = s
    BY <1>6, <1>7
  <1>9. \A j \in 1..InputCount[n] : j # i => audioInput'[n][j] = row[j]
    BY <1>6, <1>7
  <1>10. \A r \in Readers : audioInput'[r] \in [1..InputCount[r] -> Sources \cup {None}]
    BY <1>2, <1>5, <1>8, Zenon
  <1>11. \A r \in Readers : \A j \in 1..InputCount[r] :
             r # n \/ j # i => audioInput'[r][j] = audioInput[r][j]
    BY <1>5, <1>9, Zenon DEF row
  <1> QED
    BY <1>4, <1>8, <1>10, <1>11

LEMMA TypesStep == RouteTypes /\ [Next]_vars => RouteTypes'
  <1> SUFFICES ASSUME RouteTypes, [Next]_vars PROVE RouteTypes'
    OBVIOUS
  <1> USE DEF graphVars, pullVars, markVars, historyVars
  <1>1. CASE UNCHANGED vars \/ Rest
    BY <1>1 DEF RouteTypes, vars, Rest
  <1>2. CASE \E p \in Plugins, s \in Sources : \E i \in 1..InputCount[p] : PluginConnect(p, i, s)
    <2>1. PICK p \in Plugins, s \in Sources : \E i \in 1..InputCount[p] : PluginConnect(p, i, s)
      BY <1>2
    <2>2. PICK i \in 1..InputCount[p] : PluginConnect(p, i, s)
      BY <2>1
    <2>3. p \in Readers
      BY DEF Readers
    <2>4. Store(p, i, s) \/ audioInput' = audioInput
      BY <2>2 DEF PluginConnect
    <2>5. /\ DOMAIN audioInput' = Readers
          /\ \A r \in Readers : audioInput'[r] \in [1..InputCount[r] -> Sources \cup {None}]
      BY <2>3, <2>4, Stored DEF RouteTypes
    <2>6. UNCHANGED <<connectedInputs, slot, pullVars>>
      BY <2>2 DEF PluginConnect
    <2> QED
      BY <2>5, <2>6 DEF RouteTypes
  <1>3. CASE \E o \in Sinks, s \in Sources : SinkConnect(o, s)
    <2>1. PICK o \in Sinks, s \in Sources : SinkConnect(o, s)
      BY <1>3
    <2>2. o \in Readers /\ 1 \in 1..InputCount[o] /\ Store(o, 1, s)
      BY <2>1, InputsAssumption DEF Readers, SinkConnect
    <2>3. /\ DOMAIN audioInput' = Readers
          /\ \A r \in Readers : audioInput'[r] \in [1..InputCount[r] -> Sources \cup {None}]
      BY <2>2, Stored
    <2>4. UNCHANGED <<connectedInputs, slot, pullVars>>
      BY <2>1 DEF SinkConnect
    <2> QED
      BY <2>3, <2>4 DEF RouteTypes
  <1>4. CASE \E m \in Mixers, s \in Sources : MixerClaim(m, s) \/ MixerClaimGains(m, s)
    <2>1. PICK m \in Mixers, s \in Sources : MixerClaim(m, s) \/ MixerClaimGains(m, s)
      BY <1>4
    <2>2. CASE connectedInputs[m] < InputCount[m] /\ Claim(m, s)
      <3>1. InputCount[m] \in Nat /\ connectedInputs[m] \in Nat
        BY InputsAssumption DEF RouteTypes, Readers
      <3> QED
        BY <2>2, <3>1 DEF RouteTypes, Claim
    <2>3. CASE UNCHANGED <<graphVars, pullVars>>
      BY <2>3 DEF RouteTypes
    <2> QED
      BY <2>1, <2>2, <2>3, Zenon DEF MixerClaim, MixerClaimGains
  <1>5. CASE MixerStore
    <2>1. /\ slot.mixer \in Readers /\ slot.index \in 1..InputCount[slot.mixer]
          /\ slot.source \in Sources
      BY <1>5 DEF MixerStore, RouteTypes, Readers
    <2>2. Store(slot.mixer, slot.index, slot.source) \/ audioInput' = audioInput
      BY <1>5 DEF MixerStore
    <2>3. /\ DOMAIN audioInput' = Readers
          /\ \A r \in Readers : audioInput'[r] \in [1..InputCount[r] -> Sources \cup {None}]
      BY <2>1, <2>2, Stored DEF RouteTypes
    <2>4. UNCHANGED <<connectedInputs, pullVars>> /\ slot' \in {slot, None}
      BY <1>5 DEF MixerStore
    <2> QED
      BY <2>3, <2>4 DEF RouteTypes
  <1>6. CASE Reposition
    BY <1>6, InputsAssumption DEF RouteTypes, Reposition, Readers
  <1>13. CASE PeriodBegin
    <2>1. PICK buffers \in 1..(TimeRange - 1) : time' = (time + buffers) % TimeRange
      BY <1>13 DEF PeriodBegin
    <2>2. time' \in 0..(TimeRange - 1)
      BY <2>1, TimeAssumption DEF RouteTypes
    <2>3. due' \subseteq Processors /\ UNCHANGED <<graphVars, stack, processedUntil>>
      BY <1>13 DEF PeriodBegin
    <2> QED
      BY <2>2, <2>3 DEF RouteTypes
  <1>7. CASE \E n \in Processors : CallNext(n)
    <2>1. PICK n \in Processors : CallNext(n)
      BY <1>7
    <2>2. stack' = stack \/ stack' = Append(<<>>, Frame(n))
      BY <2>1 DEF CallNext, Enter
    <2>3. Append(<<>>, Frame(n)) \in Seq(FrameType)
      BY Pushed, EmptySeq
    <2>4. stack' \in Seq(FrameType)
      BY <2>2, <2>3 DEF RouteTypes
    <2> QED
      BY <2>1, <2>4 DEF RouteTypes, CallNext, Enter
  <1>8. CASE FetchNothing \/ FetchDone
    <2>1. InputsLeft /\ (stack' = Advanced(None) \/ stack' = Advanced(NextSource))
      BY <1>8 DEF FetchNothing, FetchDone, FetchReady
    <2>2. stack' \in Seq(FrameType)
      BY <2>1, SourceTyped, AdvancedTyped
    <2> QED
      BY <1>8, <2>2 DEF RouteTypes, FetchNothing, FetchDone
  <1>9. CASE FetchFails
    BY <1>9 DEF RouteTypes, FetchFails
  <1>10. CASE FetchCall
    <2>1. InputsLeft /\ NextSource \in Sources
      BY <1>10, SourceTyped DEF FetchCall, FetchReady
    <2>2. Advanced(NextSource) \in Seq(FrameType) /\ NextSource \in Processors
      BY <2>1, AdvancedTyped DEF Sources, Processors, Readers
    <2>3. Append(Advanced(NextSource), Frame(NextSource)) \in Seq(FrameType)
      BY <2>2, Pushed
    <2>4. stack' = stack \/ stack' = Append(Advanced(NextSource), Frame(NextSource))
      BY <1>10 DEF FetchCall, Enter
    <2>5. stack' \in Seq(FrameType)
      BY <2>3, <2>4 DEF RouteTypes
    <2> QED
      BY <1>10, <2>5 DEF RouteTypes, FetchCall, Enter
  <1>11. CASE BeginMixing
    BY <1>11, MixingTyped DEF RouteTypes, BeginMixing
  <1>12. CASE Run
    <2>1. stack # <<>> /\ stack \in Seq(FrameType) /\ Top.node \in Processors
      BY <1>12, TopTyped DEF Run, RunMarking, RouteTypes
    <2>2. stack' = stack \/ stack' = SubSeq(stack, 1, Len(stack) - 1)
      BY <1>12 DEF Run, RunMarking
    <2>3. stack' \in Seq(FrameType)
      BY <2>1, <2>2, Popped
    <2> QED
      BY <1>12, <2>1, <2>3 DEF RouteTypes, Run, RunMarking
  <1> QED
    BY <1>1, <1>2, <1>3, <1>4, <1>5, <1>6, <1>7, <1>8, <1>9, <1>10, <1>11, <1>12, <1>13, Zenon
       DEF Next, ScriptThread, ProcessThread

--------------------------------------------------------------------------------
(***************************************************************************)
(* What a reader uses is of this period.                                   *)
(***************************************************************************)
\* FreshInputs of a stack, with the call under way named.
FreshStack(frames, done) ==
    \A k \in DOMAIN frames : \A x \in frames[k].used :
        x \in done \/ (k + 1 \in DOMAIN frames /\ frames[k + 1].node = x)

LEMMA FreshMeans == FreshInputs <=> (wrapped \/ FreshStack(stack, computed))
  BY DEF FreshInputs, FreshStack

LEMMA FreshMeansNext == FreshInputs' <=> (wrapped' \/ FreshStack(stack', computed'))
  BY DEF FreshInputs, FreshStack

LEMMA InitFresh == Init => FreshInv
  <1> SUFFICES ASSUME Init PROVE FreshInv
    OBVIOUS
  <1>1. FreshInputs
    BY DEF Init, FreshInputs
  <1>2. computed = {} /\ Idle
    BY DEF Init, Idle
  <1>3. \A n \in Processors : processedUntil[n] <= time
    BY TimeAssumption DEF Init
  <1> QED
    BY <1>1, <1>2, <1>3 DEF FreshInv

\* The end of a call is the only step of a period that marks and computes something.
Marks(n) ==
    /\ stack' = SubSeq(stack, 1, Len(stack) - 1)
    /\ computed' = computed \cup {n}
    /\ processedUntil' = [processedUntil EXCEPT ![n] = time]

LEMMA MarksKept ==
    ASSUME UNCHANGED markVars PROVE UpToDate' = UpToDate
  BY DEF markVars, UpToDate

LEMMA Marked ==
    ASSUME RouteTypes, NEW n \in Processors, Marks(n), time' = time
    PROVE  /\ UpToDate' = UpToDate \cup {n}
           /\ (\A x \in Processors : processedUntil[x] <= time) =>
                 \A x \in Processors : processedUntil'[x] <= time'
  <1>1. processedUntil' \in [Processors -> 0..(TimeRange - 1)] /\ time \in Nat
    BY TimeAssumption DEF RouteTypes, Marks
  <1>2. \A x \in Processors : processedUntil'[x] = IF x = n THEN time ELSE processedUntil[x]
    BY DEF RouteTypes, Marks
  <1>3. \A x \in Processors : x \in UpToDate' <=> x \in UpToDate \/ x = n
    BY <1>1, <1>2 DEF UpToDate
  <1>4. UpToDate \subseteq Processors /\ UpToDate' \subseteq Processors
    BY DEF UpToDate
  <1> QED
    BY <1>1, <1>2, <1>3, <1>4

LEMMA InPeriod ==
    ASSUME RouteTypes, [Next]_vars, ~PeriodBegin
    PROVE  /\ UNCHANGED <<time, wrapped>>
           /\ \/ UNCHANGED <<computed, markVars>>
              \/ Run /\ Marks(Top.node) /\ Top.node \in Processors
           /\ Idle => Idle'
  <1> USE DEF graphVars, pullVars, markVars, historyVars
  <1>1. CASE Run
    <2>1. stack # <<>> /\ Top.node \in Processors
      BY <1>1, TopTyped DEF Run, RunMarking
    <2> QED
      BY <1>1, <2>1 DEF Run, RunMarking, Marks, Idle
  <1>2. CASE ScriptThread
    BY <1>2 DEF ScriptThread, PluginConnect, SinkConnect, MixerClaim, MixerClaimGains, Claim, MixerStore, Idle
  <1>3. CASE \E n \in Processors : CallNext(n)
    BY <1>3 DEF CallNext, Idle
  <1>4. CASE FetchNothing \/ FetchDone \/ FetchCall \/ BeginMixing
    BY <1>4 DEF FetchNothing, FetchDone, FetchCall, FetchReady, InputsLeft, BeginMixing, Idle
  <1>5. CASE Reposition \/ FetchFails \/ Rest \/ UNCHANGED vars
    BY <1>5 DEF Reposition, FetchFails, Rest, vars, Idle
  <1> QED
    BY <1>1, <1>2, <1>3, <1>4, <1>5 DEF Next, ProcessThread

\* The marks when a period begins are older than its time, unless that has wrapped.
LEMMA MarkStep ==
    ASSUME RouteTypes, FreshInv, [Next]_vars
    PROVE  /\ computed' \subseteq UpToDate'
           /\ wrapped => wrapped'
           /\ ~wrapped' => /\ \A n \in Processors : processedUntil'[n] <= time'
                           /\ Idle' \/ UpToDate' \subseteq computed'
  <1>1. CASE PeriodBegin
    <2>1. computed' = {} /\ processedUntil' = processedUntil /\ (wrapped => wrapped')
      BY <1>1 DEF PeriodBegin
    <2>2. PICK buffers \in 1..(TimeRange - 1) :
              /\ time' = (time + buffers) % TimeRange
              /\ wrapped' = (wrapped \/ time + buffers >= TimeRange)
      BY <1>1 DEF PeriodBegin
    <2>3. ASSUME ~wrapped'
          PROVE  (\A n \in Processors : processedUntil'[n] <= time') /\ UpToDate' = {}
      <3>1. ~wrapped /\ ~(time + buffers >= TimeRange)
        BY <2>2, <2>3
      <3>2. time \in Nat /\ time + buffers \in 0..(TimeRange - 1) /\ time' = time + buffers
        <4>1. time \in Nat /\ time + buffers \in 0..(TimeRange - 1)
          <5>1. buffers \in 1..(TimeRange - 1)
            BY <2>2
          <5>2. time \in 0..(TimeRange - 1)
            BY DEF RouteTypes
          <5> QED
            BY <3>1, <5>1, <5>2, TimeAssumption
        <4>2. \A x \in 0..(TimeRange - 1) : x % TimeRange = x
          BY TimeAssumption
        <4> QED
          BY <2>2, <4>1, <4>2
      <3>3. \A n \in Processors : processedUntil[n] \in Nat /\ processedUntil[n] <= time
        BY <3>1, TimeAssumption DEF RouteTypes, FreshInv
      <3>4. \A n \in Processors : processedUntil[n] < time'
        BY <3>2, <3>3
      <3> QED
        BY <2>1, <3>2, <3>3, <3>4 DEF UpToDate
    <2> QED
      BY <2>1, <2>3
  <1>2. CASE ~PeriodBegin /\ UNCHANGED <<computed, markVars>>
    <2>1. UNCHANGED <<computed, UpToDate, processedUntil, time, wrapped>> /\ (Idle => Idle')
      BY <1>2, InPeriod, MarksKept DEF markVars
    <2> QED
      BY <2>1 DEF FreshInv
  <1>3. CASE ~PeriodBegin /\ Marks(Top.node) /\ Top.node \in Processors
    <2>1. UNCHANGED <<time, wrapped>> /\ (Idle => Idle')
      BY <1>3, InPeriod
    <2>2. computed' = computed \cup {Top.node}
      BY <1>3 DEF Marks
    <2>3. UpToDate' = UpToDate \cup {Top.node}
      BY <1>3, <2>1, Marked
    <2>4. ~wrapped => \A n \in Processors : processedUntil'[n] <= time'
      BY <1>3, <2>1, Marked DEF FreshInv
    <2> QED
      BY <2>1, <2>2, <2>3, <2>4 DEF FreshInv
  <1> QED
    BY <1>1, <1>2, <1>3, InPeriod

LEMMA FreshAdvanced ==
    ASSUME RouteTypes, FreshStack(stack, computed), InputsLeft, NEW s \in Sources \cup {None}
    PROVE  /\ \A k \in 1..(Len(stack) - 1) : \A x \in Advanced(s)[k].used :
                 x \in computed \/ (k + 1 \in 1..Len(stack) /\ Advanced(s)[k + 1].node = x)
           /\ \A x \in Advanced(s)[Len(stack)].used : x \in computed \/ (x = s /\ s # None)
  <1>1. FreshStack(stack, computed)
    OBVIOUS
  <1>2. stack # <<>>
    BY DEF InputsLeft
  <1>3. Len(stack) \in Nat \ {0} /\ DOMAIN stack = 1..Len(stack)
    BY <1>2, TopTyped
  <1> DEFINE t == Advanced(s)
             n == Len(stack)
  <1>4. /\ \A k \in 1..(n - 1) : t[k] = stack[k]
        /\ t[n].node = stack[n].node /\ t[n].used = stack[n].used \cup ({s} \ {None})
    BY AdvancedTyped DEF Top
  <1>5. n \in Nat \ {0} /\ DOMAIN stack = 1..n
    BY <1>3
  <1> HIDE DEF t, n
  <1>6. ASSUME NEW k \in 1..(n - 1), NEW x \in t[k].used
        PROVE  x \in computed \/ (k + 1 \in 1..n /\ t[k + 1].node = x)
    <2>1. k \in 1..n /\ x \in stack[k].used
      BY <1>4, <1>5
    <2>2. x \in computed \/ (k + 1 \in 1..n /\ stack[k + 1].node = x)
      BY <1>1, <1>5, <2>1 DEF FreshStack
    <2>3. k + 1 \in 1..n => t[k + 1].node = stack[k + 1].node
      <3>1. k + 1 \in 1..n => k + 1 \in 1..(n - 1) \/ k + 1 = n
        BY <1>5
      <3> QED
        BY <1>4, <3>1
    <2> QED
      BY <2>2, <2>3
  <1>7. ASSUME NEW x \in t[n].used PROVE x \in computed \/ (x = s /\ s # None)
    <2>1. CASE x \in stack[n].used
      <3>1. n \in 1..n /\ n + 1 \notin 1..n
        BY <1>5
      <3> QED
        BY <1>1, <1>5, <2>1, <3>1 DEF FreshStack
    <2> QED
      BY <1>4, <2>1
  <1> QED
    BY <1>6, <1>7 DEF t, n

LEMMA StackStep ==
    ASSUME RouteTypes, FreshInv, [Next]_vars, ~wrapped'
    PROVE  FreshStack(stack', computed')
  <1> USE DEF graphVars, pullVars, markVars, historyVars
  <1>0. FreshStack(stack, computed) /\ (Idle \/ UpToDate \subseteq computed)
    BY MarkStep, FreshMeans DEF FreshInv
  <1>1. CASE UNCHANGED <<stack, computed>>
    BY <1>0, <1>1
  <1>2. CASE PeriodBegin
    BY <1>0, <1>2 DEF PeriodBegin, Idle, FreshStack
  <1>3. CASE \E n \in Processors : CallNext(n)
    <2>1. PICK n \in Processors : CallNext(n)
      BY <1>3
    <2>2. computed' = computed /\ (stack' = stack \/ stack' = Append(<<>>, Frame(n)))
      BY <2>1 DEF CallNext, Enter
    <2>3. CASE stack' = Append(<<>>, Frame(n))
      <3>1. stack' \in Seq(FrameType) /\ Len(stack') = 1 /\ stack'[1].used = {}
        <4>1. Frame(n).used = {}
          BY DEF Frame
        <4> QED
          BY <2>3, <4>1, FirstPushed
      <3>2. \A k \in DOMAIN stack' : k = 1
        BY <3>1
      <3> QED
        BY <1>0, <2>2, <3>1, <3>2 DEF FreshStack
    <2> QED
      BY <1>0, <2>2, <2>3
  <1>4. CASE FetchNothing \/ FetchDone
    <2>1. /\ InputsLeft /\ computed' = computed
          /\ \E s \in computed \cup {None} : stack' = Advanced(s) /\ s \in Sources \cup {None}
      <3>1. InputsLeft /\ computed' = computed
        BY <1>4 DEF FetchNothing, FetchDone, FetchReady
      <3>2. ~Idle
        BY <3>1 DEF InputsLeft, Idle
      <3>3. CASE FetchNothing
        BY <3>1, <3>3 DEF FetchNothing
      <3>4. CASE FetchDone
        BY <1>0, <3>1, <3>2, <3>4, SourceTyped DEF FetchDone, FetchReady
      <3> QED
        BY <1>4, <3>1, <3>3, <3>4
    <2>2. PICK s \in computed \cup {None} : stack' = Advanced(s) /\ s \in Sources \cup {None}
      BY <2>1
    <2> DEFINE n == Len(stack)
    <2>3. /\ stack' \in Seq(FrameType) /\ Len(stack') = n
          /\ \A k \in 1..(n - 1) : \A x \in stack'[k].used :
                 x \in computed \/ (k + 1 \in 1..n /\ stack'[k + 1].node = x)
          /\ \A x \in stack'[n].used : x \in computed \/ (x = s /\ s # None)
      BY <1>0, <2>1, <2>2, AdvancedTyped, FreshAdvanced
    <2>4. n \in Nat
      BY DEF RouteTypes
    <2> HIDE DEF n
    <2>5. DOMAIN stack' = 1..n /\ \A k \in 1..n : k \in 1..(n - 1) \/ k = n
      BY <2>3, <2>4
    <2> QED
      BY <1>0, <2>1, <2>3, <2>5, Zenon DEF FreshStack
  <1>5. CASE FetchCall
    <2>1. InputsLeft /\ NextSource \in Sources /\ computed' = computed
      BY <1>5, SourceTyped DEF FetchCall, FetchReady, Enter
    <2>2. CASE stack' = stack
      BY <1>0, <2>1, <2>2
    <2>3. CASE stack' = Append(Advanced(NextSource), Frame(NextSource))
      <3> DEFINE n == Len(stack)
                 t == Advanced(NextSource)
      <3>1. /\ t \in Seq(FrameType) /\ Len(t) = n
            /\ \A k \in 1..(n - 1) : \A x \in t[k].used :
                   x \in computed \/ (k + 1 \in 1..n /\ t[k + 1].node = x)
            /\ \A x \in t[n].used : x \in computed \/ x = NextSource
        BY <1>0, <2>1, AdvancedTyped, FreshAdvanced
      <3>2. NextSource \in Processors
        BY <2>1 DEF Sources, Processors, Readers
      <3>3. n \in Nat
        BY DEF RouteTypes
      <3> HIDE DEF n, t
      <3>4. stack' = Append(t, Frame(NextSource))
        BY <2>3 DEF t
      <3>5. /\ stack' \in Seq(FrameType) /\ Len(stack') = n + 1
            /\ \A k \in 1..n : stack'[k] = t[k]
            /\ stack'[n + 1].node = NextSource /\ stack'[n + 1].used = {}
        BY <3>1, <3>2, <3>4, Pushed
      <3>6. /\ DOMAIN stack' = 1..(n + 1)
            /\ \A k \in 1..(n + 1) : k = n + 1 \/ k \in 1..(n - 1) \/ (k = n /\ n \in 1..n)
            /\ \A k \in 1..(n - 1) : k \in 1..n
            /\ \A k \in 1..n : k + 1 \in 1..(n + 1)
        BY <3>3, <3>5
      <3>7. \A k \in 1..(n - 1) : \A x \in stack'[k].used :
               x \in computed \/ (k + 1 \in 1..(n + 1) /\ stack'[k + 1].node = x)
        <4> SUFFICES ASSUME NEW k \in 1..(n - 1), NEW x \in stack'[k].used
                     PROVE  x \in computed \/ (k + 1 \in 1..(n + 1) /\ stack'[k + 1].node = x)
          OBVIOUS
        <4>1. k \in 1..n /\ k + 1 \in 1..n /\ k + 1 \in 1..(n + 1)
          BY <3>3
        <4>2. stack'[k] = t[k] /\ stack'[k + 1] = t[k + 1]
          BY <3>5, <4>1
        <4> QED
          BY <3>1, <4>1, <4>2
      <3>8. n \in 1..n => \A x \in stack'[n].used :
               x \in computed \/ (n + 1 \in 1..(n + 1) /\ stack'[n + 1].node = x)
        BY <3>1, <3>5, <3>6, Zenon
      <3>9. FreshStack(stack', computed)
        <4> SUFFICES ASSUME NEW k \in 1..(n + 1), NEW x \in stack'[k].used
                     PROVE  x \in computed \/ (k + 1 \in 1..(n + 1) /\ stack'[k + 1].node = x)
          BY <3>6, Zenon DEF FreshStack
        <4>1. CASE k = n + 1
          BY <3>5, <4>1
        <4>2. CASE k \in 1..(n - 1)
          BY <3>7, <4>2
        <4>3. CASE k = n /\ n \in 1..n
          BY <3>8, <4>3
        <4> QED
          BY <3>6, <4>1, <4>2, <4>3
      <3> QED
        BY <2>1, <3>9
    <2> QED
      BY <1>5, <2>2, <2>3 DEF FetchCall, Enter
  <1>6. CASE BeginMixing
    <2> DEFINE n == Len(stack)
    <2>1. /\ stack' \in Seq(FrameType) /\ Len(stack') = n
          /\ \A k \in 1..(n - 1) : stack'[k] = stack[k]
          /\ stack'[n].node = stack[n].node /\ stack'[n].used = stack[n].used
      BY <1>6, MixingTyped DEF Top
    <2>2. n \in Nat /\ DOMAIN stack = 1..n /\ DOMAIN stack' = 1..n
      BY <2>1 DEF RouteTypes
    <2> HIDE DEF n
    <2>3. \A k \in 1..n : k \in 1..(n - 1) \/ k = n
      BY <2>2
    <2>4. \A k \in 1..n : stack'[k].node = stack[k].node /\ stack'[k].used = stack[k].used
      BY <2>1, <2>3
    <2>5. computed' = computed
      BY <1>6 DEF BeginMixing
    <2> QED
      BY <1>0, <2>2, <2>4, <2>5, Zenon DEF FreshStack
  <1>7. CASE Run
    <2>1. CASE UNCHANGED <<stack, computed>>
      BY <1>1, <2>1
    <2>2. CASE /\ stack' = SubSeq(stack, 1, Len(stack) - 1)
               /\ computed' = computed \cup {Top.node}
      <3> DEFINE n == Len(stack)
      <3>1. stack # <<>> /\ stack \in Seq(FrameType)
        BY <1>7 DEF Run, RunMarking, RouteTypes
      <3>2. /\ stack' \in Seq(FrameType) /\ Len(stack') = n - 1
            /\ \A k \in 1..(n - 1) : stack'[k] = stack[k]
        BY <2>2, <3>1, Popped
      <3>3. n \in Nat \ {0} /\ DOMAIN stack = 1..n
        BY <3>1, TopTyped
      <3>4. Top.node = stack[n].node
        BY DEF Top
      <3> HIDE DEF n
      <3>5. DOMAIN stack' = 1..(n - 1)
        BY <3>2, <3>3
      <3>6. \A k \in 1..(n - 1) : k \in 1..n /\ (k + 1 \in 1..(n - 1) \/ k + 1 = n)
        BY <3>3
      <3>7. ASSUME NEW k \in 1..(n - 1), NEW x \in stack'[k].used
            PROVE  x \in computed' \/ (k + 1 \in 1..(n - 1) /\ stack'[k + 1].node = x)
        <4>1. x \in computed \/ (k + 1 \in 1..n /\ stack[k + 1].node = x)
          BY <1>0, <3>2, <3>3, <3>6, <3>7, Zenon DEF FreshStack
        <4> QED
          BY <2>2, <3>2, <3>4, <3>6, <4>1, Zenon
      <3> QED
        BY <1>0, <2>2, <3>5, <3>7, Zenon DEF FreshStack
    <2> QED
      BY <1>7, <2>1, <2>2 DEF Run, RunMarking
  <1>8. CASE ScriptThread \/ Reposition \/ FetchFails \/ Rest \/ UNCHANGED vars
    <2>1. UNCHANGED <<stack, computed>>
      BY <1>8 DEF ScriptThread, PluginConnect, SinkConnect, MixerClaim, MixerClaimGains, Claim,
                  MixerStore, Reposition, FetchFails, Rest, vars
    <2> QED
      BY <1>1, <2>1
  <1> QED
    BY <1>2, <1>3, <1>4, <1>5, <1>6, <1>7, <1>8, Zenon DEF Next, ProcessThread

LEMMA FreshStep == RouteTypes /\ FreshInv /\ [Next]_vars => FreshInv'
  <1> SUFFICES ASSUME RouteTypes, FreshInv, [Next]_vars PROVE FreshInv'
    OBVIOUS
  <1>1. FreshInputs'
    BY StackStep, FreshMeansNext
  <1> QED
    BY <1>1, MarkStep DEF FreshInv

\* Whatever a plugin, a mixer or a port has taken a buffer from was computed in this
\* period or is being computed by the call under way, until the frame time comes round.
THEOREM InputsFresh == Spec => []FreshInputs
  <1>1. FreshInv => FreshInputs
    BY DEF FreshInv
  <1> QED
    BY InitTypes, TypesStep, InitFresh, FreshStep, <1>1, PTL DEF Spec

--------------------------------------------------------------------------------
(***************************************************************************)
(* The inputs of mixers.                                                   *)
(***************************************************************************)
\* A counted input has its connection, or it is the one being connected.
CountedInputs ==
    ~failed => \A m \in Mixers : \A i \in 1..connectedInputs[m] :
        audioInput[m][i] = None => slot # None /\ slot.mixer = m /\ slot.index = i

\* A mixer that is being processed while it is connected to is known.
Overlaps == slot # None => \A k \in DOMAIN stack : stack[k].node = slot.mixer => overlapped

\* Without that its array of buffers has the room it needs.
RoomInv ==
    ~overlapped => \A k \in DOMAIN stack : stack[k].node \in Mixers =>
        /\ stack[k].size = connectedInputs[stack[k].node]
        /\ stack[k].mixing => stack[k].next > connectedInputs[stack[k].node]

MixInv == CountedInputs /\ Overlaps /\ RoomInv /\ MixerInputsComplete

LEMMA InitMix == Init => MixInv
  BY DEF Init, MixInv, CountedInputs, Overlaps, RoomInv, MixerInputsComplete

\* Only the script's connections and a reposition touch the graph.
LEMMA PullKeepsGraph ==
    ASSUME PeriodBegin \/ (\E n \in Processors : CallNext(n)) \/ FetchNothing \/ FetchFails \/ FetchDone \/ FetchCall
           \/ BeginMixing \/ Run \/ Rest \/ UNCHANGED vars
    PROVE  UNCHANGED <<audioInput, connectedInputs, slot, failed>>
  BY DEF PeriodBegin, CallNext, FetchNothing, FetchFails, FetchDone, FetchCall, BeginMixing, Run, RunMarking,
         Rest, vars, graphVars, historyVars

LEMMA CountedStep == RouteTypes /\ CountedInputs /\ [Next]_vars => CountedInputs'
  <1> SUFFICES ASSUME RouteTypes, CountedInputs, [Next]_vars PROVE CountedInputs'
    OBVIOUS
  <1> USE DEF graphVars, pullVars, markVars, historyVars
  <1>1. CASE UNCHANGED <<audioInput, connectedInputs, slot, failed>>
    BY <1>1 DEF CountedInputs
  <1>2. ASSUME NEW n \in Readers \ Mixers, NEW i \in 1..InputCount[n], NEW s \in Sources, Store(n, i, s),
               UNCHANGED <<connectedInputs, slot, failed>>
        PROVE  CountedInputs'
    <2>1. \A m \in Mixers : \A j \in 1..InputCount[m] : audioInput'[m][j] = audioInput[m][j]
      BY <1>2, Stored DEF Readers
    <2>2. \A m \in Mixers : \A j \in 1..connectedInputs[m] : j \in 1..InputCount[m]
      BY InputsAssumption DEF RouteTypes, Readers
    <2> QED
      BY <1>2, <2>1, <2>2 DEF CountedInputs
  <1>3. CASE \E p \in Plugins, s \in Sources : \E i \in 1..InputCount[p] : PluginConnect(p, i, s)
    <2>1. PICK p \in Plugins, s \in Sources : \E i \in 1..InputCount[p] : PluginConnect(p, i, s)
      BY <1>3
    <2>2. PICK i \in 1..InputCount[p] : PluginConnect(p, i, s)
      BY <2>1
    <2>3. p \in Readers \ Mixers
      BY KindsAssumption DEF Readers
    <2>4. (Store(p, i, s) \/ audioInput' = audioInput) /\ UNCHANGED <<connectedInputs, slot, failed>>
      BY <2>2 DEF PluginConnect
    <2> QED
      BY <1>1, <1>2, <2>3, <2>4
  <1>4. CASE \E o \in Sinks, s \in Sources : SinkConnect(o, s)
    <2>1. PICK o \in Sinks, s \in Sources : SinkConnect(o, s)
      BY <1>4
    <2>2. o \in Readers \ Mixers /\ 1 \in 1..InputCount[o] /\ Store(o, 1, s)
      BY <2>1, InputsAssumption, KindsAssumption DEF Readers, SinkConnect
    <2>3. UNCHANGED <<connectedInputs, slot, failed>>
      BY <2>1 DEF SinkConnect
    <2> QED
      BY <1>2, <2>2, <2>3
  <1>5. CASE \E m \in Mixers, s \in Sources : MixerClaim(m, s) \/ MixerClaimGains(m, s)
    <2>1. PICK m \in Mixers, s \in Sources : MixerClaim(m, s) \/ MixerClaimGains(m, s)
      BY <1>5
    <2>2. CASE slot = None /\ connectedInputs[m] < InputCount[m] /\ Claim(m, s)
      <3>1. /\ connectedInputs' = [connectedInputs EXCEPT ![m] = connectedInputs[m] + 1]
            /\ slot' = [mixer |-> m, index |-> connectedInputs[m] + 1, source |-> s]
            /\ UNCHANGED <<audioInput, failed>>
        BY <2>2 DEF Claim
      <3>2. slot'.mixer = m /\ slot'.index = connectedInputs[m] + 1 /\ slot' \in [mixer : Mixers, index : Nat, source : Sources]
        BY <3>1, InputsAssumption DEF RouteTypes
      <3>3. slot' # None
        BY <3>2, NoneAssumption, Zenon
      <3>4. connectedInputs[m] \in Nat /\ \A x \in Mixers : x # m => connectedInputs'[x] = connectedInputs[x]
        BY <3>1 DEF RouteTypes
      <3>5. connectedInputs'[m] = connectedInputs[m] + 1
        BY <3>1 DEF RouteTypes
      <3>6. \A i \in 1..(connectedInputs[m] + 1) : i \in 1..connectedInputs[m] \/ i = connectedInputs[m] + 1
        BY <3>4
      <3> QED
        BY <2>2, <3>1, <3>2, <3>3, <3>4, <3>5, <3>6 DEF CountedInputs
    <2>3. CASE UNCHANGED <<graphVars, historyVars>>
      BY <1>1, <2>3
    <2> QED
      BY <2>1, <2>2, <2>3, Zenon DEF MixerClaim, MixerClaimGains
  <1>6. CASE MixerStore
    <2>1. CASE failed' = TRUE
      BY <2>1 DEF CountedInputs
    <2>2. CASE Store(slot.mixer, slot.index, slot.source) /\ UNCHANGED failed
      <3>1. /\ slot.mixer \in Mixers /\ slot.mixer \in Readers
            /\ slot.index \in 1..InputCount[slot.mixer] /\ slot.source \in Sources
        BY <1>6 DEF MixerStore, RouteTypes, Readers
      <3> DEFINE m == slot.mixer
                 i == slot.index
      <3>2. /\ audioInput'[m][i] \in Sources
            /\ \A r \in Mixers : \A j \in 1..InputCount[r] :
                  r # m \/ j # i => audioInput'[r][j] = audioInput[r][j]
        BY <2>2, <3>1, Stored DEF Readers
      <3>3. \A x \in Mixers : \A j \in 1..connectedInputs[x] : j \in 1..InputCount[x]
        BY InputsAssumption DEF RouteTypes, Readers
      <3>4. connectedInputs' = connectedInputs
        BY <1>6 DEF MixerStore
      <3>5. None \notin Sources
        BY KindsAssumption DEF Sources, Processors, Readers
      <3> HIDE DEF m, i
      <3>6. ~failed => \A x \in Mixers : \A j \in 1..connectedInputs[x] : audioInput[x][j] = None => x = m /\ j = i
        BY DEF CountedInputs, m, i
      <3>7. ~failed => \A x \in Mixers : \A j \in 1..connectedInputs[x] : audioInput'[x][j] # None
        BY <3>2, <3>3, <3>5, <3>6
      <3> QED
        BY <2>2, <3>4, <3>7 DEF CountedInputs
    <2>3. CASE UNCHANGED <<audioInput, slot, rewired, failed>>
      <3>1. connectedInputs' = connectedInputs
        BY <1>6 DEF MixerStore
      <3> QED
        BY <1>1, <2>3, <3>1
    <2> QED
      BY <1>6, <2>1, <2>2, <2>3, Zenon DEF MixerStore
  <1>7. CASE Reposition
    <2>1. \A m \in Mixers : 1..connectedInputs'[m] = {}
      BY <1>7 DEF Reposition
    <2> QED
      BY <2>1 DEF CountedInputs
  <1> QED
    BY <1>1, <1>3, <1>4, <1>5, <1>6, <1>7, PullKeepsGraph, Zenon DEF Next, ScriptThread, ProcessThread

\* A frame of the process thread after a step: it was there before, or it is new.
KeptFrame(k) ==
    /\ k \in DOMAIN stack
    /\ stack'[k].node = stack[k].node /\ stack'[k].size = stack[k].size
    /\ stack'[k].mixing => /\ stack'[k].next = stack[k].next
                           /\ stack[k].mixing \/ stack[k].next \notin InputsOf(stack[k].node)

NewFrame(k) ==
    /\ stack'[k].node \in Mixers => stack'[k].size = connectedInputs[stack'[k].node]
    /\ ~stack'[k].mixing
    /\ overlapped' <=> (overlapped \/ (slot # None /\ slot.mixer = stack'[k].node))

Pull ==
    \/ \E n \in Processors : CallNext(n)
    \/ FetchNothing \/ FetchFails \/ FetchDone \/ FetchCall \/ BeginMixing \/ Run

LEMMA PullFrames ==
    ASSUME RouteTypes, Pull
    PROVE  \A k \in DOMAIN stack' : KeptFrame(k) \/ NewFrame(k)
  <1> USE DEF graphVars, pullVars, markVars, historyVars
  <1>0. DOMAIN stack = 1..Len(stack) /\ Len(stack) \in Nat
    BY DEF RouteTypes
  <1>1. CASE stack' = stack
    BY <1>1 DEF KeptFrame
  <1>2. CASE \E n \in Processors : CallNext(n)
    <2>1. PICK n \in Processors : CallNext(n)
      BY <1>2
    <2>2. CASE n \notin UpToDate /\ Enter(<<>>, n)
      <3>1. stack' = Append(<<>>, Frame(n))
        BY <2>2 DEF Enter
      <3>2. stack' \in Seq(FrameType) /\ Len(stack') = 1 /\ stack'[1] = Frame(n)
        BY <3>1, FirstPushed
      <3>3. \A k \in DOMAIN stack' : k = 1
        BY <3>2
      <3>4. /\ Frame(n).node = n /\ ~Frame(n).mixing
            /\ n \in Mixers => Frame(n).size = connectedInputs[n]
        BY DEF Frame
      <3>5. overlapped' <=> (overlapped \/ (slot # None /\ slot.mixer = n))
        BY <2>2, Zenon DEF Enter
      <3> QED
        BY <3>2, <3>3, <3>4, <3>5, Zenon DEF NewFrame
    <2> QED
      BY <1>1, <2>1, <2>2, Zenon DEF CallNext
  <1>3. ASSUME NEW s \in Sources \cup {None}, InputsLeft, NEW k \in 1..Len(stack),
               stack'[k] = Advanced(s)[k]
        PROVE  KeptFrame(k)
    <2> DEFINE n == Len(stack)
               t == Advanced(s)
    <2>1. /\ \A j \in 1..(n - 1) : t[j] = stack[j]
          /\ t[n].node = stack[n].node /\ t[n].size = stack[n].size /\ ~t[n].mixing
      BY <1>3, AdvancedTyped DEF Top
    <2>2. n \in Nat /\ k \in 1..n /\ stack'[k] = t[k]
      BY <1>0, <1>3
    <2> HIDE DEF t, n
    <2>3. k \in 1..(n - 1) \/ k = n
      BY <2>2
    <2>4. CASE k \in 1..(n - 1)
      BY <1>0, <1>3, <2>1, <2>2, <2>4 DEF KeptFrame
    <2>5. CASE k = n
      <3>1. /\ stack'[k].node = stack[k].node /\ stack'[k].size = stack[k].size /\ ~stack'[k].mixing
        BY <2>1, <2>2, <2>5, Zenon
      <3> QED
        BY <1>0, <3>1, Zenon DEF KeptFrame
    <2> QED
      BY <2>3, <2>4, <2>5
  <1>4. CASE FetchNothing \/ FetchDone
    <2>1. InputsLeft /\ (stack' = Advanced(None) \/ stack' = Advanced(NextSource))
      BY <1>4 DEF FetchNothing, FetchDone, FetchReady
    <2>2. PICK s \in Sources \cup {None} : stack' = Advanced(s)
      BY <2>1, SourceTyped
    <2>3. DOMAIN stack' = 1..Len(stack)
      BY <2>1, <2>2, AdvancedTyped
    <2> QED
      BY <1>3, <2>1, <2>2, <2>3
  <1>5. CASE FetchFails
    BY <1>1, <1>5 DEF FetchFails
  <1>6. CASE FetchCall
    <2>1. CASE Enter(Advanced(NextSource), NextSource)
      <3> DEFINE n == Len(stack)
      <3>1. InputsLeft /\ NextSource \in Sources
        BY <1>6, SourceTyped DEF FetchCall, FetchReady
      <3>2. NextSource \in Processors
        BY <3>1 DEF Sources, Processors, Readers
      <3>3. Advanced(NextSource) \in Seq(FrameType) /\ Len(Advanced(NextSource)) = n
        BY <3>1, AdvancedTyped
      <3>4. stack' = Append(Advanced(NextSource), Frame(NextSource))
        BY <2>1 DEF Enter
      <3>5. /\ stack' \in Seq(FrameType) /\ Len(stack') = n + 1
            /\ \A k \in 1..n : stack'[k] = Advanced(NextSource)[k]
            /\ stack'[n + 1] = Frame(NextSource)
        BY <3>2, <3>3, <3>4, Pushed
      <3>6. DOMAIN stack' = 1..(n + 1) /\ \A k \in 1..(n + 1) : k \in 1..n \/ k = n + 1
        BY <1>0, <3>5
      <3>7. \A k \in 1..n : KeptFrame(k)
        BY <1>3, <3>1, <3>5
      <3>8. /\ Frame(NextSource).node = NextSource /\ ~Frame(NextSource).mixing
            /\ NextSource \in Mixers => Frame(NextSource).size = connectedInputs[NextSource]
        BY DEF Frame
      <3>9. overlapped' <=> (overlapped \/ (slot # None /\ slot.mixer = NextSource))
        BY <2>1, Zenon DEF Enter
      <3>10. NewFrame(n + 1)
        BY <3>5, <3>8, <3>9, Zenon DEF NewFrame
      <3> QED
        BY <3>6, <3>7, <3>10, Zenon
    <2> QED
      BY <1>1, <1>6, <2>1, Zenon DEF FetchCall
  <1>7. CASE BeginMixing
    <2> DEFINE n == Len(stack)
    <2>1. /\ stack' \in Seq(FrameType) /\ Len(stack') = n
          /\ \A k \in 1..(n - 1) : stack'[k] = stack[k]
          /\ stack'[n].node = stack[n].node /\ stack'[n].size = stack[n].size
          /\ stack'[n].next = stack[n].next
      BY <1>7, MixingTyped DEF Top
    <2>2. stack[n].next \notin InputsOf(stack[n].node)
      BY <1>7 DEF BeginMixing, Top
    <2>3. DOMAIN stack' = 1..n /\ DOMAIN stack = 1..n /\ n \in Nat
      BY <1>0, <2>1
    <2> HIDE DEF n
    <2>6. \A k \in 1..n : k \in 1..(n - 1) \/ k = n
      BY <2>3
    <2>4. n \in 1..n => KeptFrame(n)
      BY <2>3, <2>1, <2>2, Zenon DEF KeptFrame
    <2>5. \A k \in 1..(n - 1) : k \in 1..n => KeptFrame(k)
      BY <2>3, <2>1, Zenon DEF KeptFrame
    <2> QED
      BY <2>3, <2>6, <2>4, <2>5, Zenon
  <1>8. CASE Run
    <2>1. CASE stack' = SubSeq(stack, 1, Len(stack) - 1)
      <3> DEFINE n == Len(stack)
      <3>1. stack # <<>> /\ stack \in Seq(FrameType)
        BY <1>8 DEF Run, RunMarking, RouteTypes
      <3>2. /\ stack' \in Seq(FrameType) /\ Len(stack') = n - 1
            /\ \A k \in 1..(n - 1) : stack'[k] = stack[k]
        BY <2>1, <3>1, Popped
      <3>3. n \in Nat \ {0}
        BY <3>1, TopTyped
      <3> HIDE DEF n
      <3>4. DOMAIN stack' = 1..(n - 1) /\ \A k \in 1..(n - 1) : k \in 1..n
        BY <3>2, <3>3
      <3> QED
        BY <1>0, <3>2, <3>4, Zenon DEF KeptFrame, n
    <2> QED
      BY <1>1, <1>8, <2>1 DEF Run, RunMarking
  <1> QED
    BY <1>2, <1>4, <1>5, <1>6, <1>7, <1>8 DEF Pull

\* In a period an overlap is not forgotten.
LEMMA PullOverlap ==
    ASSUME Pull PROVE overlapped => overlapped'
  BY Zenon DEF Pull, CallNext, FetchNothing, FetchFails, FetchDone, FetchCall, BeginMixing, Run, RunMarking, Enter,
               historyVars

LEMMA OverlapStep ==
    RouteTypes /\ Overlaps /\ RoomInv /\ [Next]_vars => Overlaps' /\ RoomInv'
  <1> SUFFICES ASSUME RouteTypes, Overlaps, RoomInv, [Next]_vars PROVE Overlaps' /\ RoomInv'
    OBVIOUS
  <1> USE DEF graphVars, pullVars, markVars, historyVars
  <1>1. CASE UNCHANGED <<stack, connectedInputs, overlapped>> /\ slot' \in {slot, None}
    BY <1>1 DEF Overlaps, RoomInv
  <1>2. CASE stack' = <<>>
    BY <1>2 DEF Overlaps, RoomInv
  <1>3. CASE Pull
    <2>1. UNCHANGED <<slot, connectedInputs>>
      BY <1>3, PullKeepsGraph DEF Pull
    <2>2. ASSUME NEW k \in DOMAIN stack', slot # None, stack'[k].node = slot.mixer
          PROVE  overlapped'
      <3>1. CASE KeptFrame(k)
        <4>1. stack[k].node = slot.mixer /\ k \in DOMAIN stack
          BY <2>2, <3>1, Zenon DEF KeptFrame
        <4>2. overlapped
          BY <2>2, <4>1, Zenon DEF Overlaps
        <4> QED
          BY <1>3, <4>2, PullOverlap
      <3>2. CASE NewFrame(k)
        BY <2>2, <3>2, Zenon DEF NewFrame
      <3> QED
        BY <1>3, <3>1, <3>2, PullFrames
    <2>3. ASSUME NEW k \in DOMAIN stack', ~overlapped', stack'[k].node \in Mixers
          PROVE  /\ stack'[k].size = connectedInputs[stack'[k].node]
                 /\ stack'[k].mixing => stack'[k].next > connectedInputs[stack'[k].node]
      <3>1. ~overlapped
        BY <1>3, <2>3, PullOverlap
      <3>2. CASE KeptFrame(k)
        <4>1. /\ stack'[k].node = stack[k].node /\ stack'[k].size = stack[k].size
              /\ k \in DOMAIN stack /\ stack[k].node \in Mixers
          BY <2>3, <3>2, Zenon DEF KeptFrame
        <4>2. /\ stack[k].size = connectedInputs[stack[k].node]
              /\ stack[k].mixing => stack[k].next > connectedInputs[stack[k].node]
          BY <3>1, <4>1, Zenon DEF RoomInv
        <4>3. ASSUME stack'[k].mixing PROVE stack'[k].next > connectedInputs[stack'[k].node]
          <5>1. /\ stack'[k].next = stack[k].next
                /\ stack[k].mixing \/ stack[k].next \notin InputsOf(stack[k].node)
            BY <3>2, <4>3, Zenon DEF KeptFrame
          <5>2. stack[k].next \in Nat \ {0} /\ connectedInputs[stack[k].node] \in Nat
            <6>1. stack[k] \in FrameType
              BY <4>1 DEF RouteTypes
            <6> QED
              BY <4>1, <6>1 DEF RouteTypes, FrameType
          <5>3. InputsOf(stack[k].node) = 1..connectedInputs[stack[k].node]
            BY <4>1, KindsAssumption DEF InputsOf, Readers
          <5> QED
            BY <4>1, <4>2, <5>1, <5>2, <5>3
        <4> QED
          BY <4>1, <4>2, <4>3
      <3>3. CASE NewFrame(k)
        BY <2>3, <3>3, Zenon DEF NewFrame
      <3> QED
        BY <1>3, <3>2, <3>3, PullFrames
    <2>4. Overlaps'
      BY <2>1, <2>2, Zenon DEF Overlaps
    <2>5. RoomInv'
      BY <2>1, <2>3, Zenon DEF RoomInv
    <2> QED
      BY <2>4, <2>5
  <1>4. CASE \E m \in Mixers, s \in Sources : MixerClaim(m, s) \/ MixerClaimGains(m, s)
    <2>1. PICK m \in Mixers, s \in Sources : MixerClaim(m, s) \/ MixerClaimGains(m, s)
      BY <1>4
    <2>2. CASE Claim(m, s)
      <3>1. /\ connectedInputs' = [connectedInputs EXCEPT ![m] = connectedInputs[m] + 1]
            /\ slot' = [mixer |-> m, index |-> connectedInputs[m] + 1, source |-> s]
            /\ stack' = stack
        BY <2>2 DEF Claim
      <3>2. overlapped' <=> (overlapped \/ \E k \in DOMAIN stack : stack[k].node = m)
        BY <2>2, Zenon DEF Claim, Processing
      <3>3. slot'.mixer = m /\ \A x \in Mixers : x # m => connectedInputs'[x] = connectedInputs[x]
        BY <3>1 DEF RouteTypes
      <3>4. Overlaps'
        BY <3>1, <3>2, <3>3, Zenon DEF Overlaps
      <3>5. RoomInv'
        BY <3>1, <3>2, <3>3, Zenon DEF RoomInv
      <3> QED
        BY <3>4, <3>5
    <2>3. CASE UNCHANGED <<graphVars, pullVars, historyVars>>
      BY <1>1, <2>3
    <2> QED
      BY <2>1, <2>2, <2>3, Zenon DEF MixerClaim, MixerClaimGains
  <1>5. CASE \/ \E p \in Plugins, s \in Sources : \E i \in 1..InputCount[p] : PluginConnect(p, i, s)
             \/ \E o \in Sinks, s \in Sources : SinkConnect(o, s)
             \/ MixerStore \/ Rest \/ UNCHANGED vars
    <2>1. UNCHANGED <<stack, connectedInputs, overlapped>> /\ slot' \in {slot, None}
      BY <1>5 DEF PluginConnect, SinkConnect, MixerStore, Rest, vars
    <2> QED
      BY <1>1, <2>1
  <1>6. CASE Reposition \/ PeriodBegin
    BY <1>2, <1>6 DEF Reposition, PeriodBegin, Idle
  <1> QED
    BY <1>3, <1>4, <1>5, <1>6, Zenon DEF Next, ScriptThread, ProcessThread, Pull

\* What brings a mixer down.
LEMMA ProcessFault ==
    RouteTypes /\ MixInv /\ [Next]_vars => (fault' \in {"null", "bounds"} => overlapped' \/ failed')
  <1> SUFFICES ASSUME RouteTypes, MixInv, [Next]_vars, fault' \in {"null", "bounds"}
               PROVE  overlapped' \/ failed'
    OBVIOUS
  <1> USE DEF graphVars, pullVars, markVars, historyVars
  <1>1. CASE UNCHANGED vars
    BY <1>1 DEF vars, MixInv, MixerInputsComplete
  <1>2. CASE \E p \in Plugins, s \in Sources : \E i \in 1..InputCount[p] : PluginConnect(p, i, s)
    <2>1. PICK p \in Plugins, s \in Sources : fault' = WalkFault(s, p)
      BY <1>2 DEF PluginConnect
    <2> QED
      BY <2>1 DEF WalkFault
  <1>3. CASE MixerStore
    BY <1>3 DEF MixerStore, WalkFault
  <1>4. CASE FetchFails
    <2>1. stack # <<>> /\ Top.node \in Mixers /\ Top.next \in InputsOf(Top.node)
      BY <1>4 DEF FetchFails, InputsLeft
    <2>2. InputsOf(Top.node) = 1..connectedInputs[Top.node]
      BY <2>1, KindsAssumption DEF InputsOf, Readers
    <2>3. Len(stack) \in DOMAIN stack /\ Top = stack[Len(stack)] /\ Top.next \in Nat /\ Top.size \in Nat
      BY <2>1, TopTyped DEF Top
    <2>4. CASE NextSource = None
      <3>1. audioInput[Top.node][Top.next] = None
        BY <2>4 DEF NextSource
      <3>2. ~failed => slot # None /\ slot.mixer = Top.node
        BY <2>1, <2>2, <3>1, Zenon DEF MixInv, CountedInputs
      <3>3. ~failed => overlapped
        BY <2>3, <3>2, Zenon DEF MixInv, Overlaps
      <3> QED
        BY <1>4, <3>3 DEF FetchFails
    <2>5. CASE Top.next > Top.size
      <3>1. ~overlapped => Top.size = connectedInputs[Top.node]
        BY <2>1, <2>3, Zenon DEF MixInv, RoomInv
      <3>2. connectedInputs[Top.node] \in Nat
        BY <2>1 DEF RouteTypes
      <3>3. overlapped
        BY <2>1, <2>2, <2>3, <2>5, <3>1, <3>2
      <3> QED
        BY <1>4, <3>3 DEF FetchFails
    <2> QED
      BY <1>4, <2>4, <2>5 DEF FetchFails
  <1>5. CASE Run /\ fault = "none"
    <2>1. /\ stack # <<>> /\ Top.node \in Mixers /\ Top.mixing
          /\ Top.next <= connectedInputs[Top.node] /\ UNCHANGED <<overlapped, failed>>
      BY <1>5 DEF Run, RunMarking
    <2>2. Len(stack) \in DOMAIN stack /\ Top = stack[Len(stack)] /\ Top.next \in Nat
      BY <2>1, TopTyped DEF Top
    <2>3. ~overlapped => Top.next > connectedInputs[Top.node]
      BY <2>1, <2>2, Zenon DEF MixInv, RoomInv
    <2>4. connectedInputs[Top.node] \in Nat
      BY <2>1 DEF RouteTypes
    <2> QED
      BY <2>1, <2>2, <2>3, <2>4
  <1>6. CASE Rest
    BY <1>6 DEF Rest, vars, MixInv, MixerInputsComplete
  <1>7. ASSUME fault = "none",
               \/ \E o \in Sinks, s \in Sources : SinkConnect(o, s)
               \/ \E m \in Mixers, s \in Sources : MixerClaim(m, s) \/ MixerClaimGains(m, s)
               \/ Reposition \/ PeriodBegin \/ (\E n \in Processors : CallNext(n))
               \/ FetchNothing \/ FetchDone \/ FetchCall \/ BeginMixing
        PROVE  FALSE
    <2>1. fault' \in {"none", "slot", "overflow"}
      BY <1>7 DEF SinkConnect, MixerClaim, MixerClaimGains, Reposition, PeriodBegin, CallNext,
                  FetchNothing, FetchDone, FetchCall, BeginMixing
    <2> QED
      BY <2>1
  <1> QED
    BY <1>1, <1>2, <1>3, <1>4, <1>5, <1>6, <1>7, Zenon DEF Next, ScriptThread, ProcessThread

\* What brings the walk of connectsTo down.
LEMMA WalkKept ==
    ASSUME UNCHANGED graphVars
    PROVE  (slot.mixer \in Walked(slot.source))' <=> slot.mixer \in Walked(slot.source)
  <1>1. \A n : Upstream(n)' = Upstream(n)
    BY DEF graphVars, Upstream, InputsOf
  <1>2. slot' = slot
    BY DEF graphVars
  <1> QED
    BY <1>1, <1>2 DEF Walked

LEMMA NullFound ==
    ASSUME CountedInputs, ~failed, NEW s, MissingInput(s)
    PROVE  slot # None /\ slot.mixer \in Walked(s)
  <1>1. PICK m \in Walked(s) \cap Mixers : \E i \in InputsOf(m) : audioInput[m][i] = None
    BY DEF MissingInput
  <1>2. PICK i \in InputsOf(m) : audioInput[m][i] = None
    BY <1>1
  <1>3. i \in 1..connectedInputs[m]
    BY <1>1, <1>2, KindsAssumption DEF InputsOf, Readers
  <1>4. slot # None /\ slot.mixer = m
    BY <1>1, <1>2, <1>3 DEF CountedInputs
  <1> QED
    BY <1>1, <1>4

LEMMA ScriptFault ==
    ASSUME RouteTypes, MixInv, [Next]_vars, fault' = "nullwalk", ~failed'
    PROVE  (slot # None /\ slot.mixer \in Walked(slot.source))'
  <1>0. CountedInputs
    BY DEF MixInv
  <1>1. CASE UNCHANGED vars \/ Rest
    <2>1. UNCHANGED vars
      BY <1>1 DEF Rest
    <2>2. fault = "nullwalk" /\ ~failed /\ UNCHANGED graphVars /\ slot' = slot
      BY <2>1 DEF vars, historyVars, graphVars
    <2>3. slot # None /\ slot.mixer \in Walked(slot.source)
      BY <2>2 DEF MixInv, MixerInputsComplete
    <2> QED
      BY <2>2, <2>3, WalkKept
  <1>2. CASE \E p \in Plugins, s \in Sources : \E i \in 1..InputCount[p] : PluginConnect(p, i, s)
    <2>1. PICK p \in Plugins, s \in Sources : \E i \in 1..InputCount[p] : PluginConnect(p, i, s)
      BY <1>2
    <2>2. slot = None /\ fault' = WalkFault(s, p) /\ failed' = failed
      BY <2>1 DEF PluginConnect
    <2>3. MissingInput(s)
      BY <2>2 DEF WalkFault
    <2> QED
      BY <1>0, <2>2, <2>3, NullFound
  <1>3. CASE MixerStore
    <2>1. UNCHANGED graphVars /\ UNCHANGED failed /\ fault' = WalkFault(slot.source, slot.mixer) /\ slot' = slot
      BY <1>3 DEF MixerStore, graphVars
    <2>2. MissingInput(slot.source)
      BY <2>1 DEF WalkFault
    <2>3. slot # None /\ slot.mixer \in Walked(slot.source)
      BY <1>0, <2>1, <2>2, NullFound
    <2> QED
      BY <2>1, <2>3, WalkKept
  <1>4. ASSUME fault = "none",
               \/ \E o \in Sinks, s \in Sources : SinkConnect(o, s)
               \/ \E m \in Mixers, s \in Sources : MixerClaim(m, s) \/ MixerClaimGains(m, s)
               \/ Reposition \/ PeriodBegin \/ (\E n \in Processors : CallNext(n))
               \/ FetchNothing \/ FetchFails \/ FetchDone \/ FetchCall \/ BeginMixing \/ Run
        PROVE  FALSE
    <2>1. fault' \in {"none", "slot", "overflow", "null", "bounds"}
      BY <1>4 DEF SinkConnect, MixerClaim, MixerClaimGains, Reposition, PeriodBegin, CallNext,
                  FetchNothing, FetchFails, FetchDone, FetchCall, BeginMixing, Run, RunMarking
    <2> QED
      BY <2>1
  <1> QED
    BY <1>1, <1>2, <1>3, <1>4, Zenon DEF Next, ScriptThread, ProcessThread

LEMMA CompleteStep ==
    RouteTypes /\ MixInv /\ [Next]_vars => MixerInputsComplete'
  BY ProcessFault, ScriptFault DEF MixerInputsComplete

\* A mixer follows a null input or reads beyond its array of buffers only when the
\* script connects to it while it is processing, or a refused connection was counted;
\* the walk of connectsTo, only in the latter case or on the way back to the mixer that
\* is being connected.
THEOREM MixersComplete == Spec => []MixerInputsComplete
  <1>1. RouteTypes /\ MixInv /\ [Next]_vars => MixInv'
    BY CountedStep, OverlapStep, CompleteStep DEF MixInv
  <1>2. MixInv => MixerInputsComplete
    BY DEF MixInv
  <1> QED
    BY InitTypes, TypesStep, InitMix, <1>1, <1>2, PTL DEF Spec

--------------------------------------------------------------------------------
(***************************************************************************)
(* Once per period.  While the connections form no loop and none is        *)
(* replaced, the calls under way are a path along them, so no processor is *)
(* on the stack twice.                                                     *)
(***************************************************************************)
LoopKnown == Cyclic => looped

Path ==
    /\ \A k \in DOMAIN stack : k + 1 \in DOMAIN stack => stack[k + 1].node \in Upstream(stack[k].node)
    /\ \A k \in DOMAIN stack : stack[k].node \notin UpToDate

PathInv == LoopKnown /\ (~looped /\ ~rewired => Path) /\ OncePerPeriod

LEMMA UpstreamSources ==
    ASSUME RouteTypes, NEW n \in Processors PROVE Upstream(n) \subseteq Sources
  <1>1. CASE n \in Ports
    BY <1>1 DEF Upstream, InputsOf
  <1>2. CASE n \notin Ports
    <2>1. n \in Readers /\ InputCount[n] \in Nat
      BY <1>2, InputsAssumption DEF Processors
    <2>2. \A i \in InputsOf(n) : i \in 1..InputCount[n]
      BY <1>2, <2>1 DEF InputsOf, RouteTypes
    <2> QED
      BY <2>1, <2>2 DEF Upstream, RouteTypes
  <1> QED
    BY <1>1, <1>2

\* Connections that are added and not replaced.
LEMMA UpstreamGrows ==
    ASSUME RouteTypes,
           \A r \in Readers : \A j \in 1..InputCount[r] :
               audioInput[r][j] # None => audioInput'[r][j] = audioInput[r][j],
           connectedInputs' \in [Mixers -> Nat],
           \A m \in Mixers : connectedInputs[m] <= connectedInputs'[m],
           NEW n \in Processors
    PROVE  Upstream(n) \subseteq Upstream(n)'
  <1>1. CASE n \in Ports
    BY <1>1 DEF Upstream, InputsOf
  <1>2. CASE n \notin Ports
    <2>1. n \in Readers /\ InputCount[n] \in Nat
      BY <1>2, InputsAssumption DEF Processors
    <2>2. \A i \in InputsOf(n) : i \in 1..InputCount[n] /\ i \in InputsOf(n)'
      BY <1>2, <2>1 DEF InputsOf, RouteTypes
    <2>3. \A i \in InputsOf(n) : audioInput[n][i] # None => audioInput'[n][i] = audioInput[n][i]
      BY <2>1, <2>2
    <2> QED
      BY <2>2, <2>3 DEF Upstream
  <1> QED
    BY <1>1, <1>2

LEMMA FewerConnections ==
    ASSUME \A n \in Sources : Upstream(n)' \subseteq Upstream(n), Cyclic'
    PROVE  Cyclic
  <1>1. PICK P \in SUBSET Sources : P # {} /\ \A n \in P : Upstream(n)' \cap P # {}
    BY DEF Cyclic, Circle
  <1>2. \A n \in P : Upstream(n) \cap P # {}
    BY <1>1
  <1> QED
    BY <1>1, <1>2 DEF Cyclic, Circle

\* A processor that is on the stack twice is on a loop.
LEMMA NoRepeat ==
    ASSUME RouteTypes, Path, ~Cyclic, NEW i \in DOMAIN stack, NEW j \in DOMAIN stack,
           stack[i].node = stack[j].node
    PROVE  i = j
  <1>1. DOMAIN stack = 1..Len(stack) /\ Len(stack) \in Nat
    BY DEF RouteTypes
  <1>2. ASSUME NEW a \in DOMAIN stack, NEW b \in DOMAIN stack, stack[a].node = stack[b].node, a < b
        PROVE  FALSE
    <2> DEFINE P == {stack[k].node : k \in (a + 1)..b}
    <2>1. a \in Nat /\ b \in Nat /\ a + 1 \in (a + 1)..b /\ b \in (a + 1)..b
      BY <1>1, <1>2
    <2>2. \A k \in (a + 1)..b : k \in DOMAIN stack /\ k - 1 \in DOMAIN stack /\ (k - 1) + 1 = k
      BY <1>1, <1>2
    <2>3. \A k \in (a + 1)..b : k # b => k + 1 \in (a + 1)..b
      BY <2>1
    <2>4. \A k \in (a + 1)..b : stack[k].node \in Sources
      <3> SUFFICES ASSUME NEW k \in (a + 1)..b PROVE stack[k].node \in Sources
        OBVIOUS
      <3>1. stack[k].node \in Upstream(stack[k - 1].node)
        BY <2>2 DEF Path
      <3>2. stack[k - 1] \in FrameType
        BY <2>2 DEF RouteTypes
      <3>3. stack[k - 1].node \in Processors
        BY <3>2 DEF FrameType
      <3> QED
        BY <3>1, <3>3, UpstreamSources
    <2>5. \A k \in (a + 1)..b : Upstream(stack[k].node) \cap P # {}
      <3> SUFFICES ASSUME NEW k \in (a + 1)..b PROVE Upstream(stack[k].node) \cap P # {}
        OBVIOUS
      <3>1. CASE k # b
        <4>1. stack[k + 1].node \in P
          BY <2>3, <3>1
        <4>2. stack[k + 1].node \in Upstream(stack[k].node)
          BY <2>2, <2>3, <3>1 DEF Path
        <4> QED
          BY <4>1, <4>2
      <3>2. CASE k = b
        <4>1. stack[a + 1].node \in P
          BY <2>1
        <4>2. stack[a + 1].node \in Upstream(stack[a].node)
          BY <1>2, <2>1, <2>2 DEF Path
        <4> QED
          BY <1>2, <3>2, <4>1, <4>2
      <3> QED
        BY <3>1, <3>2
    <2>6. P \in SUBSET Sources /\ P # {}
      BY <2>1, <2>4
    <2>7. \A n \in P : Upstream(n) \cap P # {}
      BY <2>5
    <2> HIDE DEF P
    <2> QED
      BY <2>6, <2>7 DEF Cyclic, Circle
  <1>3. i \in Nat /\ j \in Nat
    BY <1>1
  <1> QED
    BY <1>2, <1>3

\* The stack is no deeper than there are processors.
LEMMA NoOverflow ==
    ASSUME RouteTypes, Path, ~Cyclic PROVE Len(stack) < StackDepth
  <1> DEFINE f == [k \in 1..Len(stack) |-> stack[k].node]
             n == Len(stack)
  <1>1. n \in Nat /\ DOMAIN stack = 1..n
    BY DEF RouteTypes
  <1>2. f \in [1..n -> Processors]
    <2>1. \A k \in 1..n : stack[k] \in FrameType
      BY <1>1 DEF RouteTypes
    <2>2. \A k \in 1..n : stack[k].node \in Processors
      BY <2>1 DEF FrameType
    <2> QED
      BY <2>2
  <1>3. \A x, y \in 1..n : f[x] = f[y] => x = y
    BY <1>1, NoRepeat
  <1> HIDE DEF f, n
  <1>4. IsFiniteSet(1..n) /\ Cardinality(1..n) = IF 1 > n THEN 0 ELSE n - 1 + 1
    BY <1>1, FS_Interval
  <1>5. Cardinality(1..n) = n
    BY <1>1, <1>4
  <1>6. IsFiniteSet(Processors) /\ Cardinality(Processors) \in Nat
    BY StackAssumption, FS_CardinalityType
  <1>7. ~(Cardinality(Processors) < Cardinality(1..n))
    <2>1. ASSUME Cardinality(Processors) < Cardinality(1..n)
          PROVE  \E x, y \in 1..n : x # y /\ f[x] = f[y]
      <3> DEFINE D == 1..n
      <3>1. f \in [D -> Processors] /\ IsFiniteSet(D) /\ Cardinality(Processors) < Cardinality(D)
        BY <1>2, <1>4, <2>1
      <3> HIDE DEF D
      <3>2. \E x, y \in D : x # y /\ f[x] = f[y]
        BY <3>1, <1>6, FS_PigeonHole, Zenon
      <3> QED
        BY <3>2 DEF D
    <2> QED
      BY <1>3, <2>1
  <1> QED
    BY <1>1, <1>5, <1>6, <1>7, StackAssumption DEF n

LEMMA LoopStep == RouteTypes /\ LoopKnown /\ [Next]_vars => LoopKnown'
  <1> SUFFICES ASSUME RouteTypes, LoopKnown, [Next]_vars PROVE LoopKnown'
    OBVIOUS
  <1> USE DEF graphVars, pullVars, markVars, historyVars
  <1>1. CASE looped' <=> (looped \/ Cyclic')
    BY <1>1 DEF LoopKnown
  <1>2. CASE (\A n \in Sources : Upstream(n)' \subseteq Upstream(n)) /\ (looped => looped')
    BY <1>2, FewerConnections DEF LoopKnown
  <1>3. CASE UNCHANGED <<audioInput, connectedInputs, looped>>
    <2>1. \A n \in Sources : Upstream(n)' = Upstream(n)
      BY <1>3 DEF Upstream, InputsOf
    <2> QED
      BY <1>2, <1>3, <2>1
  <1>4. CASE \E p \in Plugins, s \in Sources : \E i \in 1..InputCount[p] : PluginConnect(p, i, s)
    BY <1>1, <1>4, Zenon DEF PluginConnect
  <1>5. CASE \E m \in Mixers, s \in Sources : MixerClaim(m, s) \/ MixerClaimGains(m, s)
    <2>1. \/ looped' <=> (looped \/ Cyclic')
          \/ UNCHANGED <<graphVars, pullVars, historyVars>>
      BY <1>5, Zenon DEF MixerClaim, MixerClaimGains, Claim
    <2> QED
      BY <1>1, <1>3, <2>1
  <1>6. CASE MixerStore
    BY <1>1, <1>6, Zenon DEF MixerStore
  <1>7. CASE \E o \in Sinks, s \in Sources : SinkConnect(o, s)
    <2>1. PICK o \in Sinks, s \in Sources : SinkConnect(o, s)
      BY <1>7
    <2>2. o \in Readers /\ 1 \in 1..InputCount[o] /\ Store(o, 1, s)
      BY <2>1, InputsAssumption DEF Readers, SinkConnect
    <2>3. UNCHANGED <<connectedInputs, looped>>
      BY <2>1 DEF SinkConnect
    <2>4. o \notin Sources
      BY KindsAssumption DEF Sources, Readers
    <2>5. \A r \in Readers : \A j \in 1..InputCount[r] : r # o => audioInput'[r][j] = audioInput[r][j]
      BY <2>2, Stored
    <2>6. ASSUME NEW n \in Sources PROVE Upstream(n)' \subseteq Upstream(n)
      <3>1. CASE n \in Ports
        BY <3>1 DEF Upstream, InputsOf
      <3>2. CASE n \notin Ports
        <4>1. n \in Readers /\ n # o
          BY <2>4, <2>6, <3>2 DEF Sources, Readers
        <4>2. InputsOf(n)' = InputsOf(n)
          BY <2>3 DEF InputsOf
        <4>3. \A i \in InputsOf(n) : i \in 1..InputCount[n]
          BY <3>2, <4>1, InputsAssumption DEF InputsOf, RouteTypes
        <4>4. \A i \in InputsOf(n) : audioInput'[n][i] = audioInput[n][i]
          BY <2>5, <4>1, <4>3
        <4> QED
          BY <4>2, <4>4 DEF Upstream
      <3> QED
        BY <3>1, <3>2
    <2> QED
      BY <1>2, <2>3, <2>6
  <1>8. CASE Reposition
    <2>1. ASSUME NEW n \in Sources PROVE Upstream(n)' \subseteq Upstream(n)
      <3>1. InputsOf(n)' \subseteq InputsOf(n)
        BY <1>8 DEF Reposition, InputsOf
      <3>2. audioInput' = audioInput
        BY <1>8 DEF Reposition
      <3> QED
        BY <3>1, <3>2 DEF Upstream
    <2>2. looped' = looped
      BY <1>8 DEF Reposition
    <2> QED
      BY <1>2, <2>1, <2>2
  <1>9. CASE PeriodBegin
    <2>1. \A n \in Sources : Upstream(n)' = Upstream(n)
      BY <1>9 DEF PeriodBegin, Upstream, InputsOf
    <2>2. looped' <=> Cyclic
      BY <1>9, Zenon DEF PeriodBegin
    <2> QED
      BY <2>1, <2>2, FewerConnections DEF LoopKnown
  <1>10. CASE Pull \/ Rest \/ UNCHANGED vars
    <2>1. UNCHANGED <<audioInput, connectedInputs, looped>>
      BY <1>10 DEF Pull, CallNext, FetchNothing, FetchFails, FetchDone, FetchCall, BeginMixing, Run, RunMarking,
                   Rest, vars
    <2> QED
      BY <1>3, <2>1
  <1> QED
    BY <1>4, <1>5, <1>6, <1>7, <1>8, <1>9, <1>10, Zenon DEF Next, ScriptThread, ProcessThread, Pull

\* Within a period what has happened is not forgotten, and the script computes nothing.
LEMMA Remembered ==
    ASSUME [Next]_vars, ~PeriodBegin
    PROVE  /\ looped => looped'
           /\ rewired => rewired'
           /\ ~Run => doubled' = doubled /\ UNCHANGED markVars
           /\ ~Pull => stack' = stack
           /\ ~FetchCall => fault' # "overflow" \/ fault = "overflow"
  <1> USE DEF graphVars, pullVars, markVars, historyVars
  <1>1. CASE Pull
    BY <1>1 DEF Pull, CallNext, FetchNothing, FetchFails, FetchDone, FetchCall, BeginMixing, Run, RunMarking, Enter
  <1>2. CASE ScriptThread
    <2>1. CASE \E p \in Plugins, s \in Sources : \E i \in 1..InputCount[p] : PluginConnect(p, i, s)
      <3>1. (looped => looped') /\ (rewired => rewired')
        BY <2>1, Zenon DEF PluginConnect, Store
      <3>2. UNCHANGED <<pullVars, doubled>> /\ fault' # "overflow"
        BY <2>1 DEF PluginConnect, WalkFault
      <3> QED
        BY <3>1, <3>2
    <2>2. CASE \E o \in Sinks, s \in Sources : SinkConnect(o, s)
      <3>1. (looped => looped') /\ (rewired => rewired')
        <4>1. PICK o \in Sinks, s \in Sources : Store(o, 1, s) /\ looped' = looped
          BY <2>2 DEF SinkConnect
        <4> QED
          BY <4>1, Zenon DEF Store
      <3>2. UNCHANGED <<pullVars, doubled, fault>>
        BY <2>2 DEF SinkConnect
      <3> QED
        BY <3>1, <3>2
    <2>3. CASE \E m \in Mixers, s \in Sources : MixerClaim(m, s) \/ MixerClaimGains(m, s)
      <3>1. (looped => looped') /\ (rewired => rewired')
        <4>1. PICK m \in Mixers, s \in Sources : MixerClaim(m, s) \/ MixerClaimGains(m, s)
          BY <2>3
        <4>2. rewired' = rewired
          BY <4>1 DEF MixerClaim, MixerClaimGains, Claim
        <4>3. looped' = looped \/ Claim(m, s)
          BY <4>1 DEF MixerClaim, MixerClaimGains
        <4>4. Claim(m, s) => (looped' <=> (looped \/ Cyclic'))
          BY Zenon DEF Claim
        <4> QED
          <5>1. looped => looped'
            BY <4>3, <4>4, Zenon
          <5> QED
            BY <4>2, <5>1
      <3>2. UNCHANGED <<pullVars, doubled>> /\ fault' \in {fault, "slot"}
        BY <2>3 DEF MixerClaim, MixerClaimGains, Claim
      <3> QED
        BY <3>1, <3>2
    <2>4. CASE MixerStore
      <3>1. (looped => looped') /\ (rewired => rewired')
        <4>1. Store(slot.mixer, slot.index, slot.source) \/ UNCHANGED rewired
          BY <2>4 DEF MixerStore
        <4>2. looped' <=> (looped \/ Cyclic')
          BY <2>4, Zenon DEF MixerStore
        <4>3. looped => looped'
          BY <4>2, Zenon
        <4>4. rewired => rewired'
          BY <4>1, Zenon DEF Store
        <4> QED
          BY <4>3, <4>4
      <3>2. UNCHANGED <<pullVars, doubled>> /\ fault' # "overflow"
        BY <2>4 DEF MixerStore, WalkFault
      <3> QED
        BY <3>1, <3>2
    <2> QED
      BY <1>2, <2>1, <2>2, <2>3, <2>4 DEF ScriptThread
  <1>3. CASE Reposition \/ Rest \/ UNCHANGED vars
    BY <1>3 DEF Reposition, Rest, vars
  <1> QED
    BY <1>1, <1>2, <1>3, Zenon DEF Next, ProcessThread, Pull

\* Path and what it is for, at a step of which the period remembers nothing bad.
LEMMA PathStep ==
    ASSUME RouteTypes, FreshInv, PathInv, [Next]_vars, ~looped', ~rewired'
    PROVE  Path'
  <1> USE DEF graphVars, pullVars, markVars, historyVars
  <1>1. CASE stack' = <<>>
    BY <1>1 DEF Path
  <1>2. CASE PeriodBegin
    BY <1>1, <1>2 DEF PeriodBegin, Idle
  <1> SUFFICES ASSUME ~PeriodBegin PROVE Path'
    BY <1>2
  <1>3. ~looped /\ ~rewired /\ Path /\ ~Cyclic
    BY Remembered DEF PathInv, LoopKnown
  <1>4. DOMAIN stack = 1..Len(stack) /\ Len(stack) \in Nat
    BY DEF RouteTypes
  <1>5. \A k \in DOMAIN stack : stack[k].node \in Processors
    <2>1. \A k \in DOMAIN stack : stack[k] \in FrameType
      BY DEF RouteTypes
    <2> QED
      BY <2>1 DEF FrameType
  <1>6. ASSUME stack' = stack, UNCHANGED markVars,
               \A n \in Processors : Upstream(n) \subseteq Upstream(n)'
        PROVE  Path'
    BY <1>3, <1>5, <1>6, MarksKept DEF Path
  <1>7. CASE UNCHANGED <<audioInput, connectedInputs, stack, markVars>>
    <2>1. \A n \in Processors : Upstream(n)' = Upstream(n)
      BY <1>7 DEF Upstream, InputsOf
    <2> QED
      BY <1>6, <1>7, <2>1
  <1>8. ASSUME NEW n \in Readers, NEW i \in 1..InputCount[n], NEW s \in Sources, Store(n, i, s),
               UNCHANGED <<connectedInputs, stack, markVars>>
        PROVE  Path'
    <2>1. CASE stack = <<>>
      BY <1>1, <1>8, <2>1
    <2>2. CASE stack # <<>>
      <3>1. rewired' <=> (rewired \/ (stack # <<>> /\ audioInput[n][i] \notin {None, s}))
        BY <1>8, Zenon DEF Store
      <3>2. audioInput[n][i] \in {None, s}
        BY <2>2, <3>1
      <3>3. \A r \in Readers : \A j \in 1..InputCount[r] :
               audioInput[r][j] # None => audioInput'[r][j] = audioInput[r][j]
        BY <1>8, <3>2, Stored
      <3>4. \A m \in Mixers : connectedInputs[m] <= connectedInputs'[m]
        BY <1>8 DEF RouteTypes
      <3>5. connectedInputs' \in [Mixers -> Nat]
        BY <1>8 DEF RouteTypes
      <3> QED
        BY <1>6, <1>8, <3>3, <3>4, <3>5, UpstreamGrows
    <2> QED
      BY <2>1, <2>2
  <1>9. CASE \E p \in Plugins, s \in Sources : \E i \in 1..InputCount[p] : PluginConnect(p, i, s)
    <2>1. PICK p \in Plugins, s \in Sources : \E i \in 1..InputCount[p] : PluginConnect(p, i, s)
      BY <1>9
    <2>2. PICK i \in 1..InputCount[p] : PluginConnect(p, i, s)
      BY <2>1
    <2>3. p \in Readers
      BY DEF Readers
    <2>4. (Store(p, i, s) \/ audioInput' = audioInput) /\ UNCHANGED <<connectedInputs, stack, markVars>>
      BY <2>2 DEF PluginConnect
    <2> QED
      BY <1>7, <1>8, <2>3, <2>4
  <1>10. CASE \E o \in Sinks, s \in Sources : SinkConnect(o, s)
    <2>1. PICK o \in Sinks, s \in Sources : SinkConnect(o, s)
      BY <1>10
    <2>2. o \in Readers /\ 1 \in 1..InputCount[o] /\ Store(o, 1, s)
      BY <2>1, InputsAssumption DEF Readers, SinkConnect
    <2>3. UNCHANGED <<connectedInputs, stack, markVars>>
      BY <2>1 DEF SinkConnect
    <2> QED
      BY <1>8, <2>2, <2>3
  <1>11. CASE \E m \in Mixers, s \in Sources : MixerClaim(m, s) \/ MixerClaimGains(m, s)
    <2>1. PICK m \in Mixers, s \in Sources : MixerClaim(m, s) \/ MixerClaimGains(m, s)
      BY <1>11
    <2>2. CASE Claim(m, s)
      <3>1. /\ connectedInputs' = [connectedInputs EXCEPT ![m] = connectedInputs[m] + 1]
            /\ UNCHANGED <<audioInput, stack, markVars>>
        BY <2>2 DEF Claim
      <3>2. connectedInputs' \in [Mixers -> Nat] /\ \A x \in Mixers : connectedInputs[x] <= connectedInputs'[x]
        BY <3>1 DEF RouteTypes
      <3>3. \A n \in Processors : Upstream(n) \subseteq Upstream(n)'
        BY <3>1, <3>2, UpstreamGrows
      <3> QED
        BY <1>6, <3>1, <3>3
    <2>3. CASE UNCHANGED <<graphVars, pullVars>>
      BY <1>7, <2>3
    <2> QED
      BY <2>1, <2>2, <2>3, Zenon DEF MixerClaim, MixerClaimGains
  <1>12. CASE MixerStore
    <2>1. /\ slot.mixer \in Readers /\ slot.index \in 1..InputCount[slot.mixer]
          /\ slot.source \in Sources
      BY <1>12 DEF MixerStore, RouteTypes, Readers
    <2>2. /\ Store(slot.mixer, slot.index, slot.source) \/ audioInput' = audioInput
          /\ UNCHANGED <<connectedInputs, stack, markVars>>
      BY <1>12 DEF MixerStore
    <2> QED
      BY <1>7, <1>8, <2>1, <2>2
  <1>13. CASE Reposition
    BY <1>1, <1>13 DEF Reposition, Idle
  <1>14. CASE FetchFails \/ Rest \/ UNCHANGED vars
    BY <1>7, <1>14 DEF FetchFails, Rest, vars
  <1>15. ASSUME Pull PROVE \A n \in Processors : Upstream(n)' = Upstream(n)
    <2>1. UNCHANGED <<audioInput, connectedInputs>>
      BY <1>15, PullKeepsGraph DEF Pull
    <2> QED
      BY <2>1 DEF Upstream, InputsOf
  <1>16. CASE \E n \in Processors : CallNext(n)
    <2>1. PICK n \in Processors : CallNext(n)
      BY <1>16
    <2>2. CASE n \notin UpToDate /\ Enter(<<>>, n)
      <3>1. stack' = Append(<<>>, Frame(n)) /\ UpToDate' = UpToDate
        BY <2>1, <2>2, MarksKept DEF CallNext, Enter
      <3>2. stack' \in Seq(FrameType) /\ Len(stack') = 1 /\ stack'[1] = Frame(n)
        BY <3>1, FirstPushed
      <3>3. \A k \in DOMAIN stack' : k = 1 /\ k + 1 \notin DOMAIN stack'
        BY <3>2
      <3>4. Frame(n).node = n
        BY DEF Frame
      <3> QED
        BY <2>2, <3>1, <3>2, <3>3, <3>4, Zenon DEF Path
    <2>3. CASE UNCHANGED <<stack, markVars>>
      BY <1>6, <1>15, <1>16, <2>3 DEF Pull
    <2> QED
      BY <2>1, <2>2, <2>3, Zenon DEF CallNext
  <1>17. CASE FetchNothing \/ FetchDone \/ BeginMixing
    <2>1. UpToDate' = UpToDate
      BY <1>17, MarksKept DEF FetchNothing, FetchDone, BeginMixing
    <2>2. DOMAIN stack' = DOMAIN stack /\ \A k \in DOMAIN stack : stack'[k].node = stack[k].node
      <3> DEFINE n == Len(stack)
      <3>1. /\ stack' \in Seq(FrameType) /\ Len(stack') = n
            /\ \A k \in 1..(n - 1) : stack'[k] = stack[k]
            /\ stack'[n].node = stack[n].node
        <4>1. CASE BeginMixing
          BY <4>1, MixingTyped DEF Top
        <4>2. CASE FetchNothing \/ FetchDone
          <5>1. InputsLeft /\ (stack' = Advanced(None) \/ stack' = Advanced(NextSource))
            BY <4>2 DEF FetchNothing, FetchDone, FetchReady
          <5>2. PICK s \in Sources \cup {None} : stack' = Advanced(s)
            BY <5>1, SourceTyped
          <5> QED
            BY <5>1, <5>2, AdvancedTyped DEF Top
        <4> QED
          BY <1>17, <4>1, <4>2
      <3>2. DOMAIN stack' = 1..n /\ DOMAIN stack = 1..n /\ n \in Nat
        BY <1>4, <3>1
      <3> HIDE DEF n
      <3>3. \A k \in 1..n : k \in 1..(n - 1) \/ k = n
        BY <3>2
      <3> QED
        BY <3>1, <3>2, <3>3
    <2>3. \A k \in DOMAIN stack : Upstream(stack[k].node)' = Upstream(stack[k].node)'
      OBVIOUS
    <2>4. \A n \in Processors : Upstream(n)' = Upstream(n)
      BY <1>15, <1>17 DEF Pull
    <2> QED
      BY <1>3, <1>5, <2>1, <2>2, <2>4 DEF Path
  <1>18. CASE FetchCall
    <2>1. CASE Enter(Advanced(NextSource), NextSource)
      <3> DEFINE n == Len(stack)
                 s == NextSource
      <3>1. InputsLeft /\ s \in Sources /\ s \notin UpToDate /\ s \in Upstream(Top.node)
        BY <1>18, SourceTyped DEF FetchCall, FetchReady
      <3>2. s \in Processors /\ stack # <<>>
        BY <3>1 DEF Sources, Processors, Readers, InputsLeft
      <3>3. /\ Advanced(s) \in Seq(FrameType) /\ Len(Advanced(s)) = n
            /\ \A k \in 1..(n - 1) : Advanced(s)[k] = stack[k]
            /\ Advanced(s)[n].node = stack[n].node
        BY <3>1, AdvancedTyped DEF Top
      <3>4. stack' = Append(Advanced(s), Frame(s)) /\ UpToDate' = UpToDate
        BY <1>18, <2>1, MarksKept DEF FetchCall, Enter
      <3>5. /\ stack' \in Seq(FrameType) /\ Len(stack') = n + 1
            /\ \A k \in 1..n : stack'[k] = Advanced(s)[k]
            /\ stack'[n + 1].node = s
        BY <3>2, <3>3, <3>4, Pushed
      <3>6. n \in Nat \ {0} /\ DOMAIN stack = 1..n
        BY <3>2, TopTyped
      <3>7. Top.node = stack[n].node
        BY DEF Top
      <3>8. \A x \in Processors : Upstream(x)' = Upstream(x)
        BY <1>15, <1>18 DEF Pull
      <3> HIDE DEF n, s
      <3>9. /\ DOMAIN stack' = 1..(n + 1)
            /\ \A k \in 1..(n + 1) : k = n + 1 \/ k = n \/ (k \in 1..(n - 1) /\ k + 1 \in 1..n)
            /\ (n + 1) + 1 \notin 1..(n + 1) /\ n \in 1..n
            /\ \A k \in 1..n : k \in 1..(n - 1) \/ k = n
        BY <3>5, <3>6
      <3>10. \A k \in 1..n : stack'[k].node = stack[k].node
        BY <3>3, <3>5, <3>9
      <3>11. ASSUME NEW k \in DOMAIN stack', k + 1 \in DOMAIN stack'
             PROVE  /\ stack'[k].node \in Processors
                    /\ \A x \in Processors : stack'[k].node = x => stack'[k + 1].node \in Upstream(x)'
        <4>1. CASE k \in 1..(n - 1) /\ k + 1 \in 1..n
          <5>1. k \in 1..n
            BY <3>6, <4>1
          <5>2. stack[k + 1].node \in Upstream(stack[k].node) /\ stack[k].node \in Processors
            BY <1>3, <1>5, <3>6, <4>1, <5>1 DEF Path
          <5> QED
            BY <3>8, <3>10, <4>1, <5>1, <5>2
        <4>2. CASE k = n
          BY <1>5, <3>1, <3>5, <3>6, <3>7, <3>8, <3>9, <3>10, <4>2
        <4> QED
          BY <3>9, <3>11, <4>1, <4>2
      <3>12. ASSUME NEW k \in DOMAIN stack' PROVE stack'[k].node \notin UpToDate
        <4>1. k \in 1..n \/ k = n + 1
          BY <3>6, <3>9
        <4> QED
          BY <1>3, <3>1, <3>5, <3>6, <3>10, <4>1 DEF Path
      <3> QED
        BY <3>4, <3>11, <3>12 DEF Path
    <2>2. CASE UNCHANGED <<stack, markVars>>
      BY <1>6, <1>15, <1>18, <2>2 DEF Pull
    <2> QED
      BY <1>18, <2>1, <2>2, Zenon DEF FetchCall
  <1>19. CASE Run
    <2>1. CASE UNCHANGED <<stack, markVars>>
      BY <1>6, <1>15, <1>19, <2>1 DEF Pull
    <2>2. CASE stack' = SubSeq(stack, 1, Len(stack) - 1) /\ UpToDate' = UpToDate \cup {Top.node}
      <3> DEFINE n == Len(stack)
      <3>1. stack # <<>> /\ stack \in Seq(FrameType)
        BY <1>19 DEF Run, RunMarking, RouteTypes
      <3>2. /\ stack' \in Seq(FrameType) /\ Len(stack') = n - 1
            /\ \A k \in 1..(n - 1) : stack'[k] = stack[k]
        BY <2>2, <3>1, Popped
      <3>3. n \in Nat \ {0} /\ DOMAIN stack = 1..n /\ n \in DOMAIN stack
        BY <3>1, TopTyped
      <3>4. Top.node = stack[n].node
        BY DEF Top
      <3>5. \A x \in Processors : Upstream(x)' = Upstream(x)
        BY <1>15, <1>19 DEF Pull
      <3> HIDE DEF n
      <3>6. DOMAIN stack' = 1..(n - 1) /\ \A k \in 1..(n - 1) : k \in 1..n /\ k # n
        BY <3>2, <3>3
      <3>7. ASSUME NEW k \in DOMAIN stack', k + 1 \in DOMAIN stack'
            PROVE  /\ stack'[k].node \in Processors
                    /\ \A x \in Processors : stack'[k].node = x => stack'[k + 1].node \in Upstream(x)'
        <4>1. stack'[k] = stack[k] /\ stack'[k + 1] = stack[k + 1]
          BY <3>2, <3>6, <3>7
        <4>2. stack[k + 1].node \in Upstream(stack[k].node) /\ stack[k].node \in Processors
          BY <1>3, <1>5, <3>3, <3>6, <3>7 DEF Path
        <4> QED
          BY <3>5, <4>1, <4>2
      <3>8. ASSUME NEW k \in DOMAIN stack' PROVE stack'[k].node \notin UpToDate'
        <4>1. stack'[k] = stack[k] /\ k \in DOMAIN stack /\ k # n
          BY <3>2, <3>3, <3>6
        <4>2. stack[k].node # stack[n].node
          BY <1>3, <3>3, <4>1, NoRepeat
        <4>3. stack[k].node \notin UpToDate
          BY <1>3, <4>1 DEF Path
        <4> QED
          BY <2>2, <3>4, <4>1, <4>2, <4>3
      <3> QED
        BY <3>7, <3>8 DEF Path
    <2>3. UNCHANGED <<stack, markVars>> \/ Marks(Top.node)
      BY <1>19 DEF Run, RunMarking, Marks
    <2>4. stack # <<>> /\ time' = time
      BY <1>19 DEF Run, RunMarking
    <2>5. Marks(Top.node) => stack' = SubSeq(stack, 1, Len(stack) - 1) /\ UpToDate' = UpToDate \cup {Top.node}
      <3>1. Marks(Top.node) => stack' = SubSeq(stack, 1, Len(stack) - 1)
        BY DEF Marks
      <3> QED
        BY <2>4, <3>1, TopTyped, Marked
    <2> QED
      BY <2>1, <2>2, <2>3, <2>5
  <1> QED
    BY <1>9, <1>10, <1>11, <1>12, <1>13, <1>14, <1>16, <1>17, <1>18, <1>19, Zenon
       DEF Next, ScriptThread, ProcessThread

LEMMA OnceStep ==
    ASSUME RouteTypes, FreshInv, PathInv, [Next]_vars PROVE OncePerPeriod'
  <1> USE DEF graphVars, pullVars, markVars, historyVars
  <1>1. CASE PeriodBegin
    <2>1. CASE fault = "none"
      <3>1. ~doubled' /\ fault' = fault
        BY <1>1 DEF PeriodBegin
      <3> QED
        BY <2>1, <3>1 DEF OncePerPeriod
    <2>2. CASE fault # "none"
      <3>1. UNCHANGED vars
        BY <2>2 DEF Next, Rest
      <3> QED
        BY <3>1 DEF PathInv, OncePerPeriod, vars
    <2> QED
      BY <2>1, <2>2
  <1> SUFFICES ASSUME ~PeriodBegin, ~looped', ~rewired', doubled' \/ fault' = "overflow" PROVE FALSE
    BY <1>1, Zenon DEF OncePerPeriod
  <1>2. ~looped /\ ~rewired /\ Path /\ ~Cyclic
    BY Remembered DEF PathInv, LoopKnown
  <1>3. ~doubled /\ fault # "overflow"
    BY <1>2, Zenon DEF PathInv, OncePerPeriod
  <1>4. CASE doubled'
    <2>1. Run
      BY <1>3, <1>4, Remembered
    <2>2. \/ doubled' <=> (doubled \/ Top.node \in computed)
          \/ doubled' = doubled
      BY <2>1, Zenon DEF Run, RunMarking
    <2>3. Top.node \in UpToDate
      BY <1>3, <1>4, <2>2 DEF FreshInv
    <2>4. stack # <<>>
      BY <2>1 DEF Run, RunMarking
    <2>5. Len(stack) \in DOMAIN stack /\ Top = stack[Len(stack)]
      BY <2>4, TopTyped DEF Top
    <2> QED
      BY <1>2, <2>3, <2>5 DEF Path
  <1>5. CASE fault' = "overflow"
    <2>1. FetchCall
      BY <1>3, <1>5, Remembered
    <2>2. ~(Len(stack) < StackDepth)
      BY <1>3, <1>5, <2>1 DEF FetchCall
    <2> QED
      BY <1>2, <2>2, NoOverflow
  <1> QED
    BY <1>4, <1>5

LEMMA InitPath == Init => PathInv
  <1> SUFFICES ASSUME Init PROVE PathInv
    OBVIOUS
  <1>1. \A n \in Sources : Upstream(n) = {}
    <2> SUFFICES ASSUME NEW n \in Sources PROVE Upstream(n) = {}
      OBVIOUS
    <2>1. CASE n \in Ports
      BY <2>1 DEF Upstream, InputsOf
    <2>2. CASE n \notin Ports
      <3>1. n \in Readers /\ InputCount[n] \in Nat
        BY <2>2, InputsAssumption DEF Sources, Readers
      <3>2. \A i \in InputsOf(n) : i \in 1..InputCount[n]
        BY <2>2, <3>1 DEF InputsOf, Init
      <3> QED
        BY <3>1, <3>2 DEF Upstream, Init
    <2> QED
      BY <2>1, <2>2
  <1>2. ~Cyclic
    BY <1>1 DEF Cyclic, Circle
  <1>3. stack = <<>> /\ fault = "none" /\ ~doubled
    BY DEF Init
  <1>4. Path
    BY <1>3 DEF Path
  <1> QED
    BY <1>2, <1>3, <1>4 DEF PathInv, LoopKnown, OncePerPeriod

\* A processor is computed at most once in a period, and the calls do not outgrow the
\* stack, unless the connections form a loop or one is replaced during the period.
THEOREM ComputedOnce == Spec => []OncePerPeriod
  <1>1. RouteTypes /\ FreshInv /\ PathInv /\ [Next]_vars => PathInv'
    BY LoopStep, PathStep, OnceStep DEF PathInv
  <1>2. PathInv => OncePerPeriod
    BY DEF PathInv
  <1> QED
    BY InitTypes, TypesStep, InitFresh, FreshStep, InitPath, <1>1, <1>2, PTL DEF Spec

================================================================================
