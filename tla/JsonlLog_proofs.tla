--------------------------- MODULE JsonlLog_proofs ---------------------------
(***************************************************************************)
(* JsonlLog implements AppendOnlyLog for any number of processes, calls,   *)
(* failures, kills and outages.                                            *)
(*                                                                         *)
(* The invariant follows one lock and one line.  While a process repairs   *)
(* or appends to the log it holds its lock, so the fragment at the end is  *)
(* its own; what a power failure may bring back are beginnings of the log, *)
(* and a record is in each of them before its call returns.                *)
(***************************************************************************)
EXTENDS JsonlLog, SequenceTheorems, TLAPS

Ids == 1 .. MaxCalls
AnyCall == [kind : Kinds, id : Ids]
AnyLine == [kind : Kinds \cup {"garbage"}, id : 0 .. MaxCalls]
AnyContent == [lines : Seq(AnyLine), torn : AnyLine \cup {Nothing}]
Appends == [kind : {"append"}, id : Ids]
Working == {"repair", "truncated", "open", "piece", "flushed"}

(* Every variable keeps its type. *)
TypeOK ==
  /\ content \in [Files -> AnyContent]
  /\ unsynced \in [Files -> SUBSET AnyContent]
  /\ holder \in [Files -> Writers \cup {Nobody}]
  /\ pc \in [Writers -> Working \cup {"idle", "lock", "release"}]
  /\ call \in [Writers -> AnyCall \cup {Nothing}]
  /\ cut \in [Writers -> AnyLine \cup {Nothing}]
  /\ raised \in [Writers -> BOOLEAN]
  /\ acked \subseteq Ids
  /\ calls \in 0 .. MaxCalls
  /\ faults \in Nat /\ kills \in Nat /\ outages \in Nat

(* Calls bear numbers of their own, none above the count. *)
CallsDiffer ==
  /\ \A w \in Writers : pc[w] # "idle" => call[w] \in AnyCall
  /\ \A w \in Writers : call[w].id <= calls
  /\ \A v, w \in Writers : v # w /\ call[v].id = call[w].id => call[v] = Nothing

(* A process at work on the log holds its lock, and knows the fragment     *)
(* after the last line: none, or what it has just written.  A call to      *)
(* repair writes nothing there.                                            *)
OwnFragment(w) == IF pc[w] = "piece" /\ ~Reporting(w) THEN call[w] ELSE Nothing
LogIsHeld ==
  \A w \in Writers :
    pc[w] \in Working /\ call[w].kind # "reject" =>
      /\ holder["log"] = w
      /\ pc[w] # "repair" => content["log"].torn = OwnFragment(w)
      /\ pc[w] # "repair" /\ call[w].kind = "repair" => Reporting(w)

Recorded(lines) == {lines[i].id : i \in DOMAIN lines}
StartsWith(lines, first) ==
  /\ Len(first) <= Len(lines)
  /\ \A i \in 1 .. Len(first) : first[i] = lines[i]

(* What the log may be once the power is back is where it was since it was *)
(* last synced.                                                            *)
LogOnlyGrows ==
  /\ content["log"] \in unsynced["log"]
  /\ \A i \in Recorded(content["log"].lines) : i <= calls
  /\ \A c \in unsynced["log"] :
       /\ c.lines \in Seq(Appends)
       /\ StartsWith(content["log"].lines, c.lines)
       /\ acked \subseteq Recorded(c.lines)

(* A record is not in the log before its line is complete, is there then,  *)
(* and is safe from a power failure when its call is about to return.      *)
Written(w) == pc[w] = "flushed" /\ ~Reporting(w)
OneLinePerCall ==
  \A w \in Writers :
    call[w].kind = "append" =>
      /\ pc[w] \in Working \cup {"lock"} =>
           (Written(w) <=> call[w].id \in Recorded(content["log"].lines))
      /\ pc[w] = "release" /\ ~raised[w] =>
           \A c \in unsynced["log"] : call[w].id \in Recorded(c.lines)

IInv == TypeOK /\ CallsDiffer /\ LogIsHeld /\ LogOnlyGrows /\ OneLinePerCall

(***************************************************************************)
(* Lines.                                                                  *)
(***************************************************************************)
LEMMA Starts ==
  ASSUME NEW first \in Seq(Appends), NEW lines \in Seq(Appends)
  PROVE  /\ StartsWith(first, first)
         /\ StartsWith(lines, first) => Recorded(first) \subseteq Recorded(lines)
<1>1. /\ Len(first) \in Nat /\ DOMAIN first = 1 .. Len(first)
      /\ Len(lines) \in Nat /\ DOMAIN lines = 1 .. Len(lines)
  OBVIOUS
<1> QED BY <1>1 DEF StartsWith, Recorded

LEMMA OneMoreLine ==
  ASSUME NEW lines \in Seq(Appends), NEW line \in Appends
  PROVE  /\ Append(lines, line) \in Seq(Appends)
         /\ Recorded(Append(lines, line)) = Recorded(lines) \cup {line.id}
         /\ \A first \in Seq(Appends) :
              StartsWith(lines, first) => StartsWith(Append(lines, line), first)
<1> DEFINE longer == Append(lines, line)
<1>1. /\ longer \in Seq(Appends)
      /\ Len(longer) = Len(lines) + 1
      /\ \A i \in 1 .. Len(lines) : longer[i] = lines[i]
      /\ longer[Len(lines) + 1] = line
  BY AppendProperties
<1>2. /\ Len(lines) \in Nat /\ DOMAIN lines = 1 .. Len(lines)
      /\ DOMAIN longer = 1 .. (Len(lines) + 1)
  BY <1>1
<1> HIDE DEF longer
<1>3. Recorded(longer) = Recorded(lines) \cup {line.id}
  BY <1>1, <1>2 DEF Recorded
<1>4. ASSUME NEW first \in Seq(Appends), StartsWith(lines, first)
      PROVE  StartsWith(longer, first)
  <2>1. Len(first) \in Nat
    OBVIOUS
  <2> QED BY <1>1, <1>2, <1>4, <2>1 DEF StartsWith
<1> QED BY <1>1, <1>3, <1>4 DEF longer

(***************************************************************************)
(* Types.                                                                  *)
(***************************************************************************)
LEMMA PieceType ==
  ASSUME NEW c \in AnyContent, NEW line \in AnyLine
  PROVE  /\ WithPiece(c, line) \in AnyContent
         /\ WithPiece(c, line).lines = c.lines
         /\ c.torn = Nothing => WithPiece(c, line).torn = line
         /\ WithoutTorn(c) \in AnyContent
         /\ WithoutTorn(c).lines = c.lines
         /\ WithoutTorn(c).torn = Nothing
         /\ WithRest(c, line) \in AnyContent
         /\ WithRest(c, line).torn = Nothing
         /\ c.torn = line => WithRest(c, line).lines = Append(c.lines, line)
<1>1. Garbage \in AnyLine
  BY JsonlAssumption DEF Garbage, AnyLine
<1>2. /\ Append(c.lines, line) \in Seq(AnyLine)
      /\ Append(c.lines, Garbage) \in Seq(AnyLine)
  BY <1>1, AppendProperties DEF AnyContent
<1> QED BY <1>1, <1>2 DEF AnyContent, WithPiece, WithRest, WithoutTorn

LEMMA TextType ==
  ASSUME TypeOK, CallsDiffer, NEW w \in Writers, pc[w] \in Working
  PROVE  /\ Text(w) \in AnyLine
         /\ File(w) \in Files /\ Target(w) \in Files
         /\ Reporting(w) => cut[w] \in AnyLine
<1>1. Reporting(w) => cut[w] \in AnyLine
  BY DEF Reporting, TypeOK
<1>2. call[w] \in AnyCall
  BY DEF CallsDiffer, Working
<1> QED BY <1>1, <1>2, JsonlAssumption
        DEF Text, File, Target, Files, AnyLine, AnyCall, Ids, Kinds

LEMMA TypeStep ==
  ASSUME TypeOK, CallsDiffer, [Next]_vars
  PROVE  TypeOK'
<1> USE JsonlAssumption DEF TypeOK
<1>1. ASSUME NEW f \in Files, NEW c \in AnyContent, Put(f, c)
      PROVE  /\ content' \in [Files -> AnyContent]
             /\ unsynced' \in [Files -> SUBSET AnyContent]
  BY <1>1 DEF Put
<1>2. ASSUME NEW f \in Files, Synced(f)
      PROVE  unsynced' \in [Files -> SUBSET AnyContent]
  BY <1>2 DEF Synced
<1>3. \A w \in Writers : Target(w) \in Files
  BY DEF Target, Files
<1>4. ASSUME NEW w \in Writers, Acquire(w) PROVE TypeOK'
  BY <1>4 DEF Acquire, Goto, First, Files, Working, counters
<1>5. ASSUME NEW w \in Writers, Release(w) PROVE TypeOK'
  <2>1. holder' \in [Files -> Writers \cup {Nobody}]
    BY <1>5 DEF Release, Last, Files
  <2>2. /\ raised' \in [Writers -> BOOLEAN]
        /\ pc' \in [Writers -> Working \cup {"idle", "lock", "release"}]
        /\ faults' \in Nat
    <3>1. CASE UNCHANGED <<raised, faults, pc>>
      BY <3>1
    <3>2. CASE Raise(w)
      BY <3>2 DEF Raise, Goto
    <3> QED BY <1>5, <3>1, <3>2 DEF Release
  <2> QED BY <1>5, <2>1, <2>2 DEF Release
<1>6. ASSUME NEW w \in Writers, Return(w) PROVE TypeOK'
  <2>1. acked' \subseteq Ids
    BY <1>6 DEF Return, CallsDiffer, AnyCall
  <2> QED BY <1>6, <2>1 DEF Return, Goto, counters
<1>7. ASSUME NEW w \in Writers, Inspect(w) PROVE TypeOK'
  BY <1>7 DEF Inspect, Goto, Working, counters
<1>8. ASSUME NEW w \in Writers, Truncate(w) PROVE TypeOK'
  <2>1. content[Target(w)] \in AnyContent
    BY <1>3
  <2>2. /\ WithoutTorn(content[Target(w)]) \in AnyContent
        /\ content[Target(w)].torn \in AnyLine
    BY <1>8, <2>1 DEF Truncate, WithoutTorn, AnyContent
  <2>3. /\ content' \in [Files -> AnyContent]
        /\ unsynced' \in [Files -> SUBSET AnyContent]
    BY <1>1, <1>3, <1>8, <2>2 DEF Truncate
  <2> QED BY <1>8, <2>2, <2>3 DEF Truncate, Goto, Working, counters
<1>9. ASSUME NEW w \in Writers, SyncTruncated(w) PROVE TypeOK'
  <2>1. unsynced' \in [Files -> SUBSET AnyContent]
    BY <1>2, <1>3, <1>9 DEF SyncTruncated
  <2> QED BY <1>9, <2>1 DEF SyncTruncated, Goto, Working, counters
<1>10. ASSUME NEW w \in Writers, WritePiece(w) PROVE TypeOK'
  <2>1. Text(w) \in AnyLine /\ File(w) \in Files
    BY <1>10, TextType DEF WritePiece, Working
  <2>2. WithPiece(content[File(w)], Text(w)) \in AnyContent
    BY <2>1, PieceType
  <2>3. /\ content' \in [Files -> AnyContent]
        /\ unsynced' \in [Files -> SUBSET AnyContent]
    BY <1>1, <1>10, <2>1, <2>2 DEF WritePiece
  <2> QED BY <1>10, <2>3 DEF WritePiece, Goto, Working, counters
<1>11. ASSUME NEW w \in Writers, WriteRest(w) PROVE TypeOK'
  <2>1. Text(w) \in AnyLine /\ File(w) \in Files
    BY <1>11, TextType DEF WriteRest, Working
  <2>2. WithRest(content[File(w)], Text(w)) \in AnyContent
    BY <2>1, PieceType
  <2>3. /\ content' \in [Files -> AnyContent]
        /\ unsynced' \in [Files -> SUBSET AnyContent]
    BY <1>1, <1>11, <2>1, <2>2 DEF WriteRest
  <2> QED BY <1>11, <2>3 DEF WriteRest, Goto, Working, counters
<1>12. ASSUME NEW w \in Writers, Sync(w) PROVE TypeOK'
  <2>1. File(w) \in Files
    BY <1>12, TextType DEF Sync, Working
  <2>2. unsynced' \in [Files -> SUBSET AnyContent]
    BY <1>2, <1>12, <2>1 DEF Sync
  <2> QED BY <1>12, <2>2 DEF Sync, Goto, Working, counters
<1>13. ASSUME NEW w \in Writers, Fail(w) PROVE TypeOK'
  BY <1>13 DEF Fail, Raise, Goto
<1>14. ASSUME NEW w \in Writers, Kill(w) PROVE TypeOK'
  BY <1>14 DEF Kill, Goto
<1>15. ASSUME NEW w \in Writers, NEW kind \in Kinds, Call(w, kind) PROVE TypeOK'
  <2>1. [kind |-> kind, id |-> calls + 1] \in AnyCall
    BY <1>15 DEF Call, AnyCall, Ids
  <2> QED BY <1>15, <2>1 DEF Call, Goto
<1>16. CASE PowerFailure
  <2>1. content' \in [Files -> AnyContent]
    BY <1>16 DEF PowerFailure
  <2> QED BY <1>16, <2>1 DEF PowerFailure
<1>17. CASE UNCHANGED vars
  BY <1>17 DEF vars
<1> QED BY <1>4, <1>5, <1>6, <1>7, <1>8, <1>9, <1>10, <1>11, <1>12, <1>13,
           <1>14, <1>15, <1>16, <1>17 DEF Next, Step

(***************************************************************************)
(* The calls, and the lock of the log.                                     *)
(***************************************************************************)
LEMMA CallsDifferStep ==
  ASSUME TypeOK, CallsDiffer, [Next]_vars
  PROVE  CallsDiffer'
<1> USE DEF CallsDiffer
<1>1. ASSUME NEW w \in Writers, NEW kind \in Kinds, Call(w, kind)
      PROVE  CallsDiffer'
  <2>1. /\ [kind |-> kind, id |-> calls + 1] \in AnyCall
        /\ \A v \in Writers : call[v].id \in Nat /\ call[v].id < calls + 1
    BY <1>1, JsonlAssumption DEF TypeOK, Call, AnyCall, Ids, Nothing
  <2> QED BY <1>1, <2>1 DEF TypeOK, Call, Goto
<1>2. ASSUME NEW w \in Writers, Step(w) \/ Fail(w) \/ Kill(w)
      PROVE  /\ UNCHANGED <<call, calls>>
             /\ \A v \in Writers : pc'[v] # "idle" => pc[v] # "idle"
  BY <1>2 DEF TypeOK, Step, Fail, Raise, Kill, Goto, counters, Acquire, Release, Return, Inspect,
              Truncate, SyncTruncated, WritePiece, WriteRest, Sync
<1>3. CASE PowerFailure
  BY <1>3 DEF PowerFailure
<1>4. CASE UNCHANGED vars
  BY <1>4 DEF vars
<1> QED BY <1>1, <1>2, <1>3, <1>4 DEF Next

(* What a process takes it had to wait for, and what it needs it holds     *)
(* when it sets to work.                                                   *)
LEMMA AcquireTakes ==
  ASSUME TypeOK, CallsDiffer, NEW w \in Writers, Acquire(w)
  PROVE  /\ \A f \in Files, v \in Writers : holder[f] = v => holder'[f] = v
         /\ pc'[w] = "repair" /\ call[w].kind # "reject" => holder'["log"] = w
<1> DEFINE f == First(ToLock(w) \ Held(w))
<1>1. /\ f \in Files /\ holder[f] = Nobody
      /\ holder' = [holder EXCEPT ![f] = w]
      /\ pc'[w] = IF ToLock(w) \ Held(w) = {f} THEN "repair" ELSE "lock"
  BY DEF Acquire, First, Files, Goto, TypeOK
<1>2. call[w].kind # "reject" => "log" \in ToLock(w)
  BY DEF ToLock, Target
<1> HIDE DEF f
<1> QED BY <1>1, <1>2, WritersAssumption DEF TypeOK, Held, Files

LEMMA LogIsHeldStep ==
  ASSUME TypeOK, CallsDiffer, LogIsHeld, [Next]_vars
  PROVE  LogIsHeld'
<1> DEFINE Works(v) == pc[v] \in Working /\ call[v].kind # "reject"
           Fine(v) == /\ holder["log"] = v
                      /\ pc[v] # "repair" => content["log"].torn = OwnFragment(v)
                      /\ pc[v] # "repair" /\ call[v].kind = "repair" => Reporting(v)
           Own(v) == <<pc[v], call[v], cut[v]>>
<1> USE JsonlAssumption, WritersAssumption
(* A process that works on the log is disturbed by no other. *)
<1>1. ASSUME NEW w \in Writers, NEW v \in Writers, v # w, Works(v)',
             \/ Step(w) \/ Fail(w) \/ Kill(w)
             \/ \E kind \in Kinds : Call(w, kind)
      PROVE  Fine(v)'
  <2>1. UNCHANGED Own(v)
    <3>1. UNCHANGED call[v] /\ UNCHANGED pc[v]
      BY <1>1 DEF TypeOK, Step, Fail, Raise, Kill, Call, Goto, Acquire, Release, Return,
                  Inspect, Truncate, SyncTruncated, WritePiece, WriteRest, Sync
    <3>2. UNCHANGED cut[v]
      BY <1>1 DEF TypeOK, Step, Fail, Raise, Kill, Call, Goto, Acquire, Release, Return,
                  Inspect, Truncate, SyncTruncated, WritePiece, WriteRest, Sync
    <3> QED BY <3>1, <3>2
  <2>2. Works(v) /\ Fine(v)
    BY <1>1, <2>1 DEF LogIsHeld
  <2>3. holder'["log"] = v
    <3>1. CASE Acquire(w)
      BY <2>2, <3>1, AcquireTakes DEF Files
    <3>2. CASE Release(w)
      <4>1. Held(w) = {"quarantine"}
        BY <1>1, <2>2, <3>2 DEF Release, Held, Files
      <4> QED BY <2>2, <3>2, <4>1 DEF TypeOK, Release, Last, Files
    <3>3. CASE Kill(w)
      BY <1>1, <2>2, <3>3 DEF TypeOK, Kill, Files
    <3> QED BY <1>1, <2>2, <3>1, <3>2, <3>3
            DEF Step, Fail, Call, Return, Inspect, Truncate, SyncTruncated, WritePiece,
                WriteRest, Sync
  <2>4. content'["log"] = content["log"]
    <3>1. ~Works(w)
      BY <1>1, <2>2 DEF LogIsHeld
    <3>2. CASE Truncate(w)
      BY <3>1, <3>2 DEF TypeOK, Truncate, Put, Target, Working
    <3>3. CASE WritePiece(w) \/ WriteRest(w)
      <4>1. File(w) = "quarantine"
        BY <3>1, <3>3 DEF WritePiece, WriteRest, File, Target, Working
      <4> QED BY <3>3, <4>1 DEF TypeOK, WritePiece, WriteRest, Put, Files
    <3> QED BY <1>1, <3>2, <3>3 DEF Step, Fail, Kill, Call, Acquire, Release, Return, Inspect,
                                    SyncTruncated, Sync
  <2> QED BY <2>1, <2>2, <2>3, <2>4 DEF OwnFragment, Reporting
(* Its own steps find the lock held and know what they leave at the end.   *)
<1>2. ASSUME NEW w \in Writers, Works(w)', Acquire(w) PROVE Fine(w)'
  <2>1. pc'[w] = "repair" /\ call' = call
    BY <1>2 DEF TypeOK, Acquire, Goto, Working
  <2> QED BY <1>2, <2>1, AcquireTakes
<1>3. ASSUME NEW w \in Writers, Works(w)', Inspect(w) PROVE Fine(w)'
  BY <1>3 DEF TypeOK, LogIsHeld, Inspect, Goto, OwnFragment, Target, Working
<1>4. ASSUME NEW w \in Writers, Works(w)', Truncate(w) PROVE Fine(w)'
  <2>1. /\ Target(w) = "log" /\ content["log"] \in AnyContent
        /\ holder'["log"] = w
    BY <1>4 DEF TypeOK, LogIsHeld, Truncate, Target, Files, Working
  <2>2. content'["log"].torn = Nothing /\ cut'[w] # Nothing /\ pc'[w] = "truncated"
    BY <1>4, <2>1 DEF TypeOK, Truncate, Goto, Put, WithoutTorn, AnyContent, Files
  <2> QED BY <2>1, <2>2 DEF OwnFragment, Reporting
<1>5. ASSUME NEW w \in Writers, Works(w)', SyncTruncated(w) PROVE Fine(w)'
  BY <1>5 DEF TypeOK, LogIsHeld, SyncTruncated, Goto, OwnFragment, Reporting, Working
<1>6. ASSUME NEW w \in Writers, Works(w)', WritePiece(w) PROVE Fine(w)'
  <2>1. Fine(w) /\ Works(w) /\ content["log"].torn = Nothing
    BY <1>6 DEF LogIsHeld, WritePiece, OwnFragment, Working
  <2>2. UNCHANGED <<call, cut, holder>> /\ pc'[w] = "piece"
    BY <1>6 DEF TypeOK, WritePiece, Goto
  <2>3. content'["log"].torn = IF Reporting(w) THEN Nothing ELSE call[w]
    <3>1. CASE Reporting(w)
      BY <1>6, <2>1, <3>1 DEF TypeOK, WritePiece, Put, File, Files
    <3>2. CASE ~Reporting(w)
      <4>1. File(w) = "log" /\ Text(w) = call[w]
        BY <2>1, <3>2 DEF File, Target, Text
      <4>2. content'["log"] = WithPiece(content["log"], call[w])
        BY <1>6, <4>1 DEF TypeOK, WritePiece, Put, Files
      <4>3. content["log"] \in AnyContent
        BY DEF TypeOK, Files
      <4> QED BY <2>1, <3>2, <4>2, <4>3 DEF WithPiece, AnyContent
    <3> QED BY <3>1, <3>2
  <2> QED BY <1>6, <2>1, <2>2, <2>3 DEF WritePiece, OwnFragment, Reporting
<1>7. ASSUME NEW w \in Writers, Works(w)', WriteRest(w) PROVE Fine(w)'
  <2>1. Fine(w) /\ Works(w)
    BY <1>7 DEF LogIsHeld, WriteRest, Working
  <2>2. UNCHANGED <<call, cut, holder>> /\ pc'[w] = "flushed"
    BY <1>7 DEF TypeOK, WriteRest, Goto
  <2>3. content'["log"].torn = Nothing
    <3>1. CASE Reporting(w)
      <4>1. content["log"].torn = Nothing
        BY <1>7, <2>1, <3>1 DEF WriteRest, OwnFragment
      <4> QED BY <1>7, <3>1, <4>1 DEF TypeOK, WriteRest, Put, File, Files
    <3>2. CASE ~Reporting(w)
      <4>1. File(w) = "log"
        BY <2>1, <3>2 DEF File, Target
      <4> QED BY <1>7, <4>1 DEF TypeOK, WriteRest, Put, WithRest, Files
    <3> QED BY <3>1, <3>2
  <2> QED BY <1>7, <2>1, <2>2, <2>3 DEF WriteRest, OwnFragment, Reporting
<1>8. ASSUME NEW w \in Writers, Works(w)', Sync(w) PROVE Fine(w)'
  <2>1. Fine(w) /\ Works(w) /\ content["log"].torn = Nothing
    BY <1>8 DEF TypeOK, LogIsHeld, Sync, OwnFragment, Working
  <2>2. UNCHANGED <<call, holder, content>> /\ pc'[w] = "open" /\ call[w].kind # "repair"
    BY <1>8 DEF TypeOK, Sync, Goto, Working
  <2> QED BY <2>1, <2>2 DEF OwnFragment
<1>9. ASSUME NEW w \in Writers, Works(w)',
             \/ Release(w) \/ Return(w) \/ Fail(w) \/ Kill(w)
             \/ \E kind \in Kinds : Call(w, kind)
      PROVE  FALSE
  BY <1>9 DEF TypeOK, Release, Return, Fail, Raise, Kill, Call, Goto, Working
<1>10. CASE PowerFailure
  BY <1>10 DEF PowerFailure, LogIsHeld, Working
<1>11. CASE UNCHANGED vars
  BY <1>11 DEF vars, LogIsHeld, OwnFragment, Reporting
<1>12. ASSUME NEW v \in Writers, Works(v)', Next, ~PowerFailure PROVE Fine(v)'
  <2>1. PICK w \in Writers : \/ Step(w) \/ Fail(w) \/ Kill(w)
                             \/ \E kind \in Kinds : Call(w, kind)
    BY <1>12 DEF Next
  <2>2. CASE v # w
    BY <1>1, <1>12, <2>1, <2>2
  <2>3. CASE v = w
    BY <1>2, <1>3, <1>4, <1>5, <1>6, <1>7, <1>8, <1>9, <1>12, <2>1, <2>3 DEF Step
  <2> QED BY <2>2, <2>3
<1> QED BY <1>10, <1>11, <1>12 DEF LogIsHeld

(***************************************************************************)
(* What a step does to the log, and to what it may be after a power        *)
(* failure.                                                                *)
(***************************************************************************)
Lines == content["log"].lines
LogAlone == UNCHANGED <<content["log"], unsynced["log"]>>
LogSynced == content'["log"] = content["log"] /\ unsynced'["log"] = {content["log"]}
LogPut(lines) ==
  /\ content'["log"] \in AnyContent
  /\ content'["log"].lines = lines
  /\ unsynced'["log"] = unsynced["log"] \cup {content'["log"]}

LEMMA LogWrites ==
  ASSUME TypeOK, CallsDiffer, LogIsHeld, NEW w \in Writers, Step(w)
  PROVE  \/ /\ LogAlone \/ LogPut(Lines)
            /\ WriteRest(w) => call[w].kind # "append" \/ Reporting(w)
            /\ ~(Sync(w) /\ call[w].kind = "append" /\ ~Reporting(w))
         \/ /\ LogSynced
            /\ Sync(w) \/ SyncTruncated(w)
         \/ /\ LogPut(Append(Lines, call[w]))
            /\ WriteRest(w) /\ call[w].kind = "append" /\ ~Reporting(w)
<1> USE JsonlAssumption DEF Files
<1>1. content["log"] \in AnyContent /\ content \in [Files -> AnyContent]
  BY DEF TypeOK
<1>2. unsynced \in [Files -> SUBSET AnyContent]
  BY DEF TypeOK
<1>3. ASSUME NEW f \in Files, NEW c \in AnyContent, Put(f, c)
      PROVE  \/ f = "quarantine" /\ LogAlone
             \/ f = "log" /\ LogPut(c.lines)
  BY <1>1, <1>2, <1>3 DEF Put, LogAlone, LogPut
<1>4. ASSUME NEW f \in Files, Synced(f), UNCHANGED content
      PROVE  \/ f = "quarantine" /\ LogAlone
             \/ f = "log" /\ LogSynced
  BY <1>1, <1>2, <1>4 DEF Synced, LogAlone, LogSynced
<1>5. CASE Acquire(w) \/ Release(w) \/ Return(w) \/ Inspect(w)
  <2>1. UNCHANGED <<content, unsynced>>
    BY <1>5 DEF Acquire, Release, Return, Inspect
  <2>2. ~Sync(w) /\ ~WriteRest(w)
    BY <1>5 DEF Acquire, Release, Return, Inspect, Sync, WriteRest
  <2> QED BY <2>1, <2>2 DEF LogAlone
<1>6. CASE Truncate(w)
  <2>1. Target(w) \in Files
    BY DEF Target
  <2>2. Put(Target(w), WithoutTorn(content[Target(w)]))
    BY <1>6 DEF Truncate
  <2>3. /\ WithoutTorn(content[Target(w)]) \in AnyContent
        /\ WithoutTorn(content[Target(w)]).lines = content[Target(w)].lines
    BY <1>1, <2>1 DEF WithoutTorn, AnyContent
  <2>4. LogAlone \/ LogPut(Lines)
    BY <1>3, <2>1, <2>2, <2>3 DEF Lines
  <2> QED BY <1>6, <2>4 DEF Truncate, Sync, WriteRest
<1>7. CASE SyncTruncated(w)
  <2>1. Target(w) \in Files
    BY DEF Target
  <2> QED BY <1>4, <1>7, <2>1 DEF SyncTruncated, Sync, WriteRest
<1>8. CASE WritePiece(w)
  <2>1. Text(w) \in AnyLine /\ File(w) \in Files
    BY <1>8, TextType DEF WritePiece, Working
  <2>2. /\ WithPiece(content[File(w)], Text(w)) \in AnyContent
        /\ WithPiece(content[File(w)], Text(w)).lines = content[File(w)].lines
    BY <1>1, <2>1, PieceType
  <2>3. LogAlone \/ LogPut(Lines)
    BY <1>3, <1>8, <2>1, <2>2 DEF WritePiece, Lines
  <2> QED BY <1>8, <2>3 DEF WritePiece, Sync, WriteRest
<1>9. CASE WriteRest(w)
  <2>1. Text(w) \in AnyLine /\ File(w) \in Files
    BY <1>9, TextType DEF WriteRest, Working
  <2>2. WithRest(content[File(w)], Text(w)) \in AnyContent
    BY <1>1, <2>1, PieceType
  <2>3. ~Sync(w)
    BY <1>9 DEF WriteRest, Sync
  <2>4. CASE File(w) = "quarantine"
    <3>1. Reporting(w) \/ call[w].kind # "append"
      BY <2>4 DEF File, Target
    <3> QED BY <1>3, <1>9, <2>1, <2>2, <2>3, <2>4, <3>1 DEF WriteRest
  <2>5. CASE File(w) = "log"
    <3>1. ~Reporting(w) /\ call[w].kind # "reject"
      BY <2>5 DEF File, Target
    <3>2. call[w].kind = "append"
      BY <1>9, <3>1 DEF LogIsHeld, CallsDiffer, WriteRest, AnyCall, Kinds, Working
    <3>3. content["log"].torn = call[w]
      BY <1>9, <3>1 DEF LogIsHeld, WriteRest, OwnFragment, Working
    <3>4. WithRest(content["log"], call[w]).lines = Append(Lines, call[w])
      BY <3>3 DEF WithRest, Lines
    <3>5. Text(w) = call[w]
      BY <3>1 DEF Text
    <3> QED BY <1>3, <1>9, <2>1, <2>2, <2>5, <3>1, <3>2, <3>4, <3>5 DEF WriteRest
  <2> QED BY <2>1, <2>4, <2>5
<1>10. CASE Sync(w)
  <2>1. File(w) \in Files
    BY <1>10, TextType DEF Sync, Working
  <2>2. ~WriteRest(w)
    BY <1>10 DEF WriteRest, Sync
  <2>3. File(w) = "quarantine" => Reporting(w) \/ call[w].kind # "append"
    BY DEF File, Target
  <2> QED BY <1>4, <1>10, <2>1, <2>2, <2>3 DEF Sync
<1> QED BY <1>5, <1>6, <1>7, <1>8, <1>9, <1>10 DEF Step

LEMMA LogOnlyGrowsStep ==
  ASSUME IInv, [Next]_vars
  PROVE  LogOnlyGrows'
<1> USE JsonlAssumption DEF IInv
<1> DEFINE Safe(c, log, done) ==
             /\ c.lines \in Seq(Appends)
             /\ StartsWith(log.lines, c.lines)
             /\ done \subseteq Recorded(c.lines)
<1>1. /\ content["log"] \in unsynced["log"] /\ content["log"].lines \in Seq(Appends)
      /\ \A c \in unsynced["log"] : Safe(c, content["log"], acked)
  BY DEF LogOnlyGrows
<1>2. ASSUME NEW w \in Writers, Step(w), ~Return(w) PROVE LogOnlyGrows'
  <2>1. UNCHANGED <<acked, calls>>
    BY <1>2 DEF Step, Acquire, Release, Inspect, Truncate, SyncTruncated, WritePiece, WriteRest,
                Sync, counters
  <2>2. CASE LogAlone \/ LogSynced
    BY <1>1, <2>1, <2>2 DEF LogAlone, LogSynced, LogOnlyGrows
  <2>3. CASE LogPut(Lines)
    <3>1. \A c \in unsynced["log"] : Safe(c, content'["log"], acked)
      BY <1>1, <2>3 DEF LogPut, Lines, StartsWith
    <3>2. Safe(content'["log"], content'["log"], acked)
      BY <1>1, <2>3 DEF LogPut, Lines, StartsWith
    <3> QED BY <1>1, <2>1, <2>3, <3>1, <3>2 DEF LogOnlyGrows, LogPut, Lines
  <2>4. CASE LogPut(Append(Lines, call[w])) /\ WriteRest(w) /\ call[w].kind = "append"
    <3>1. call[w] \in Appends /\ call[w].id <= calls
      BY <2>4 DEF CallsDiffer, WriteRest, AnyCall, Appends
    <3>2. /\ content'["log"].lines \in Seq(Appends)
          /\ Recorded(content'["log"].lines) = Recorded(Lines) \cup {call[w].id}
          /\ \A c \in unsynced["log"] : Safe(c, content'["log"], acked)
      BY <1>1, <2>4, <3>1, OneMoreLine DEF LogPut, Lines
    <3>3. acked \subseteq Recorded(content'["log"].lines)
      BY <1>1, <3>2 DEF Lines
    <3>4. Safe(content'["log"], content'["log"], acked)
      BY <3>2, <3>3, Starts
    <3> QED BY <2>1, <2>4, <3>1, <3>2, <3>4 DEF LogOnlyGrows, LogPut, Lines
  <2> QED BY <1>2, <2>2, <2>3, <2>4, LogWrites
<1>3. ASSUME NEW w \in Writers, Return(w) PROVE LogOnlyGrows'
  <2>1. UNCHANGED <<content, unsynced, calls>>
    BY <1>3 DEF Return, counters
  <2>2. \A c \in unsynced["log"] : acked' \subseteq Recorded(c.lines)
    BY <1>1, <1>3 DEF Return, OneLinePerCall
  <2> QED BY <1>1, <2>1, <2>2 DEF LogOnlyGrows
<1>4. ASSUME NEW w \in Writers, Fail(w) \/ Kill(w) PROVE LogOnlyGrows'
  BY <1>1, <1>4 DEF Fail, Kill, LogOnlyGrows
<1>5. ASSUME NEW w \in Writers, NEW kind \in Kinds, Call(w, kind) PROVE LogOnlyGrows'
  <2>1. UNCHANGED <<content, unsynced, acked>> /\ calls' = calls + 1 /\ calls \in Nat
    BY <1>5 DEF Call, TypeOK
  <2>2. Recorded(content["log"].lines) \subseteq Nat
    <3> DEFINE L == content["log"].lines
    <3>1. L \in Seq(Appends)
      BY <1>1
    <3>2. \A i \in DOMAIN L : L[i] \in Appends
      BY <3>1
    <3> QED BY <3>2 DEF Recorded, Appends, Ids
  <2> QED BY <1>1, <2>1, <2>2 DEF LogOnlyGrows
<1>6. CASE PowerFailure
  <2>1. /\ content'["log"] \in unsynced["log"] /\ unsynced'["log"] = {content'["log"]}
        /\ UNCHANGED <<acked, calls>>
    BY <1>6 DEF PowerFailure, Files
  <2>2. Safe(content'["log"], content'["log"], acked)
    BY <1>1, <2>1, Starts
  <2>3. Recorded(content'["log"].lines) \subseteq Recorded(content["log"].lines)
    BY <1>1, <2>1, Starts
  <2> QED BY <2>1, <2>2, <2>3 DEF LogOnlyGrows
<1>7. CASE UNCHANGED vars
  BY <1>1, <1>7 DEF vars, LogOnlyGrows
<1> QED BY <1>2, <1>3, <1>4, <1>5, <1>6, <1>7 DEF Next

LEMMA OneLinePerCallStep ==
  ASSUME IInv, [Next]_vars
  PROVE  OneLinePerCall'
<1> USE JsonlAssumption DEF IInv
<1> DEFINE Waits(v) ==
             pc[v] \in Working \cup {"lock"} =>
               (Written(v) <=> call[v].id \in Recorded(Lines))
           Safe(v) ==
             pc[v] = "release" /\ ~raised[v] =>
               \A c \in unsynced["log"] : call[v].id \in Recorded(c.lines)
<1>1. /\ content["log"] \in unsynced["log"] /\ Lines \in Seq(Appends)
      /\ \A c \in unsynced["log"] :
           c.lines \in Seq(Appends) /\ Recorded(c.lines) \subseteq Recorded(Lines)
  BY Starts DEF LogOnlyGrows, Lines
<1>2. ASSUME NEW v \in Writers, call[v].kind = "append"
      PROVE  Waits(v) /\ Safe(v)
  BY <1>2 DEF OneLinePerCall, Lines
(* Another process puts no line of this call into the log, and makes       *)
(* nothing of the log that a power failure could bring back without it.    *)
<1>3. ASSUME NEW w \in Writers, NEW v \in Writers, v # w, call'[v].kind = "append",
             Step(w) \/ Fail(w) \/ Kill(w) \/ \E kind \in Kinds : Call(w, kind)
      PROVE  Waits(v)' /\ Safe(v)'
  <2>1. UNCHANGED <<pc[v], call[v], cut[v], raised[v]>>
    <3>1. UNCHANGED call[v] /\ UNCHANGED pc[v]
      BY <1>3 DEF TypeOK, Step, Fail, Raise, Kill, Call, Goto, Acquire, Release, Return,
                  Inspect, Truncate, SyncTruncated, WritePiece, WriteRest, Sync
    <3>2. UNCHANGED cut[v]
      BY <1>3 DEF TypeOK, Step, Fail, Raise, Kill, Call, Goto, Acquire, Release, Return,
                  Inspect, Truncate, SyncTruncated, WritePiece, WriteRest, Sync
    <3>3. UNCHANGED raised[v]
      BY <1>3 DEF TypeOK, Step, Fail, Raise, Kill, Call, Goto, Acquire, Release, Return,
                  Inspect, Truncate, SyncTruncated, WritePiece, WriteRest, Sync
    <3> QED BY <3>1, <3>2, <3>3
  <2>2. Waits(v) /\ Safe(v)
    BY <1>2, <1>3, <2>1
  <2>3. Written(v)' <=> Written(v)
    BY <2>1 DEF Written, Reporting
  <2>4. CASE LogAlone \/ LogSynced \/ LogPut(Lines)
    <3>1. Lines' = Lines
      BY <2>4 DEF LogAlone, LogSynced, LogPut, Lines
    <3>2. Safe(v)'
      BY <1>1, <2>1, <2>2, <2>4, <3>1 DEF LogAlone, LogSynced, LogPut, Lines
    <3> QED BY <2>1, <2>2, <2>3, <3>1, <3>2
  <2>5. CASE LogPut(Append(Lines, call[w])) /\ WriteRest(w) /\ call[w].kind = "append"
    <3>1. call[w] \in Appends /\ call[w] # Nothing
      BY <2>5 DEF CallsDiffer, WriteRest, AnyCall, Appends, Nothing, Kinds
    <3>2. Recorded(Lines') = Recorded(Lines) \cup {call[w].id}
      BY <1>1, <2>5, <3>1, OneMoreLine DEF LogPut, Lines
    <3>3. call[v].id # call[w].id
      BY <1>3, <3>1 DEF CallsDiffer
    <3>4. Safe(v)'
      BY <1>1, <2>1, <2>2, <2>5, <3>2 DEF LogPut, Lines
    <3> QED BY <2>1, <2>2, <2>3, <3>2, <3>3, <3>4
  <2>6. CASE ~Step(w)
    BY <1>3, <2>4, <2>6 DEF Fail, Kill, Call, LogAlone
  <2> QED BY <2>4, <2>5, <2>6, LogWrites
<1>4. ASSUME NEW w \in Writers, call'[w].kind = "append", Step(w)
      PROVE  Waits(w)' /\ Safe(w)'
  <2>1. UNCHANGED call /\ call[w].kind = "append" /\ call[w].id \in Ids
    BY <1>4 DEF Step, Acquire, Release, Return, Inspect, Truncate, SyncTruncated, WritePiece,
                WriteRest, Sync, TypeOK, AnyCall, Nothing
  <2>2. Waits(w) /\ Safe(w)
    BY <1>2, <2>1
  <2>3. CASE Acquire(w) \/ Inspect(w)
    <3>1. /\ UNCHANGED <<content, unsynced>>
          /\ pc[w] \in {"lock", "repair"} /\ pc'[w] \in {"lock", "repair", "open"}
      BY <2>1, <2>3 DEF Acquire, Inspect, Goto, TypeOK
    <3> QED BY <2>1, <2>2, <3>1 DEF Written, Lines, Working
  <2>4. CASE Truncate(w) \/ SyncTruncated(w) \/ WritePiece(w)
    <3>1. /\ pc[w] \in {"repair", "truncated", "open"}
          /\ pc'[w] \in {"truncated", "open", "piece"}
      BY <2>4 DEF Truncate, SyncTruncated, WritePiece, Goto, TypeOK
    <3>2. Lines' = Lines
      BY <2>4, LogWrites DEF Step, LogAlone, LogPut, LogSynced, Lines, Truncate, SyncTruncated,
                             WritePiece, WriteRest
    <3> QED BY <2>1, <2>2, <3>1, <3>2 DEF Written, Working
  <2>5. CASE WriteRest(w)
    <3>1. pc[w] = "piece" /\ pc'[w] = "flushed" /\ UNCHANGED cut
      BY <2>5 DEF WriteRest, Goto, TypeOK
    <3>2. call[w].id \notin Recorded(Lines)
      BY <2>2, <3>1 DEF Written, Working
    <3>3. CASE Reporting(w)
      <4>1. Lines' = Lines
        BY <2>5, <3>1, <3>3, LogWrites DEF Step, LogAlone, LogPut, LogSynced, Lines,
                                           WriteRest, Sync, SyncTruncated
      <4> QED BY <2>1, <3>1, <3>2, <3>3, <4>1 DEF Written, Reporting
    <3>4. CASE ~Reporting(w)
      <4>1. LogPut(Append(Lines, call[w]))
        BY <2>1, <2>5, <3>4, LogWrites DEF Step, WriteRest, Sync, SyncTruncated
      <4>2. call[w] \in Appends
        BY <2>1, <3>1 DEF CallsDiffer, AnyCall, Appends
      <4>3. call[w].id \in Recorded(Lines')
        BY <1>1, <4>1, <4>2, OneMoreLine DEF LogPut, Lines
      <4> QED BY <2>1, <3>1, <3>4, <4>3 DEF Written, Reporting
    <3> QED BY <3>3, <3>4
  <2>6. CASE Sync(w)
    <3>1. /\ pc[w] = "flushed"
          /\ pc'[w] = IF Reporting(w) THEN "open" ELSE "release"
      BY <2>1, <2>6 DEF Sync, Goto, TypeOK
    <3>2. Lines' = Lines
      BY <2>6, LogWrites DEF Step, LogAlone, LogPut, LogSynced, Lines, WriteRest, Sync
    <3>3. CASE Reporting(w)
      BY <2>1, <2>2, <3>1, <3>2, <3>3 DEF Written, Working
    <3>4. CASE ~Reporting(w)
      <4>1. LogSynced
        BY <2>1, <2>6, <3>4, LogWrites DEF Step, Sync, WriteRest
      <4>2. call[w].id \in Recorded(Lines)
        BY <2>2, <3>1, <3>4 DEF Written, Working
      <4> QED BY <2>1, <3>1, <3>4, <4>1, <4>2 DEF LogSynced, Lines, Working
    <3> QED BY <3>3, <3>4
  <2>7. CASE Release(w)
    <3>1. /\ UNCHANGED <<content, unsynced>>
          /\ pc[w] = "release" /\ pc'[w] = "release" /\ (raised[w] => raised'[w])
      BY <2>7 DEF Release, Raise, Goto, TypeOK
    <3> QED BY <2>1, <2>2, <3>1 DEF Working
  <2>8. CASE Return(w)
    BY <2>8 DEF Return, Goto, TypeOK, Working
  <2> QED BY <1>4, <2>3, <2>4, <2>5, <2>6, <2>7, <2>8 DEF Step
<1>5. ASSUME NEW w \in Writers, Fail(w) \/ Kill(w) PROVE Waits(w)' /\ Safe(w)'
  BY <1>5 DEF Fail, Raise, Kill, Goto, TypeOK, Working
<1>6. ASSUME NEW w \in Writers, NEW kind \in Kinds, Call(w, kind)
      PROVE  Waits(w)' /\ Safe(w)'
  <2>1. /\ pc'[w] = "lock" /\ call'[w].id = calls + 1 /\ UNCHANGED <<content, unsynced>>
        /\ calls \in Nat
    BY <1>6 DEF Call, Goto, TypeOK
  <2>2. calls + 1 \notin Recorded(Lines)
    BY <2>1 DEF LogOnlyGrows, Lines
  <2> QED BY <2>1, <2>2 DEF Written, Lines, Working
<1>7. CASE PowerFailure
  BY <1>7 DEF PowerFailure, OneLinePerCall, Working
<1>8. CASE UNCHANGED vars
  BY <1>8 DEF vars, OneLinePerCall, Written, Reporting
<1>9. ASSUME NEW v \in Writers, call'[v].kind = "append", Next, ~PowerFailure
      PROVE  Waits(v)' /\ Safe(v)'
  <2>1. PICK w \in Writers : \/ Step(w) \/ Fail(w) \/ Kill(w)
                             \/ \E kind \in Kinds : Call(w, kind)
    BY <1>9 DEF Next
  <2> QED BY <1>3, <1>4, <1>5, <1>6, <1>9, <2>1
<1> QED BY <1>7, <1>8, <1>9 DEF OneLinePerCall, Lines

LEMMA InitIInv == Init => IInv
<1> SUFFICES ASSUME Init PROVE IInv
  OBVIOUS
<1> USE JsonlAssumption DEF Init
<1>1. Empty \in AnyContent /\ Empty.lines = <<>> /\ <<>> \in Seq(Appends)
  BY DEF Empty, AnyContent
<1>2. TypeOK
  BY <1>1 DEF TypeOK, Files
<1>3. CallsDiffer
  BY DEF CallsDiffer, Nothing
<1>4. LogIsHeld /\ OneLinePerCall
  BY DEF LogIsHeld, OneLinePerCall, Working, Nothing
<1>5. LogOnlyGrows
  <2>1. content["log"] = Empty /\ unsynced["log"] = {Empty} /\ acked = {}
    BY DEF Files
  <2>2. Recorded(<<>>) = {} /\ StartsWith(<<>>, <<>>)
    BY DEF Recorded, StartsWith
  <2> QED BY <1>1, <2>1, <2>2 DEF LogOnlyGrows
<1> QED BY <1>2, <1>3, <1>4, <1>5 DEF IInv

LEMMA StepIInv == IInv /\ [Next]_vars => IInv'
  BY TypeStep, CallsDifferStep, LogIsHeldStep, LogOnlyGrowsStep, OneLinePerCallStep DEF IInv

(* However processes interleave and whatever fails, no two of them work on *)
(* the log at a time, no line is lost or doubled, and what a power failure *)
(* brings back has every record whose call returned                        *)
(* (append_strict_jsonl, jsonl.py:104).                                    *)
THEOREM LogIsWhole == Spec => []IInv
<1> QED BY InitIInv, StepIInv, PTL DEF Spec

(***************************************************************************)
(* The refinement.                                                         *)
(***************************************************************************)
LEMMA RecordsOfLines ==
  ASSUME NEW lines \in Seq(Appends)
  PROVE  LET ids == [i \in DOMAIN lines |-> lines[i].id]
         IN  /\ ids \in Seq(Ids) /\ Len(ids) = Len(lines)
             /\ Promise!Range(ids) = Recorded(lines)
             /\ \A line \in Appends :
                  [i \in DOMAIN Append(lines, line) |-> Append(lines, line)[i].id]
                    = Append(ids, line.id)
             /\ \A first \in Seq(Appends) :
                  StartsWith(lines, first) =>
                    [i \in DOMAIN first |-> first[i].id] = SubSeq(ids, 1, Len(first))
<1> DEFINE ids == [i \in DOMAIN lines |-> lines[i].id]
<1>1. /\ Len(lines) \in Nat /\ DOMAIN lines = 1 .. Len(lines)
      /\ \A i \in 1 .. Len(lines) : lines[i] \in Appends
  OBVIOUS
<1>2. ids \in Seq(Ids) /\ Len(ids) = Len(lines)
  <2>1. ids \in [1 .. Len(lines) -> Ids]
    BY <1>1 DEF Appends
  <2> QED BY <1>1, <2>1, SeqDef
<1>3. Promise!Range(ids) = Recorded(lines)
  BY DEF Promise!Range, Recorded
<1>4. ASSUME NEW line \in Appends
      PROVE  [i \in DOMAIN Append(lines, line) |-> Append(lines, line)[i].id]
               = Append(ids, line.id)
  <2> DEFINE longer == Append(lines, line)
  <2>1. /\ longer \in Seq(Appends) /\ Len(longer) = Len(lines) + 1
        /\ \A i \in 1 .. Len(lines) : longer[i] = lines[i]
        /\ longer[Len(lines) + 1] = line
    BY AppendProperties
  <2>2. DOMAIN longer = 1 .. (Len(lines) + 1)
    BY <2>1
  <2>3. line.id \in Ids
    BY DEF Appends
  <2> DEFINE more == Append(ids, line.id)
  <2>4. /\ more \in Seq(Ids) /\ Len(more) = Len(ids) + 1
        /\ \A i \in 1 .. Len(ids) : more[i] = ids[i]
        /\ more[Len(ids) + 1] = line.id
    BY <1>2, <2>3, AppendProperties
  <2>5. DOMAIN more = 1 .. (Len(lines) + 1)
    BY <1>2, <2>4
  <2>6. ASSUME NEW i \in 1 .. (Len(lines) + 1) PROVE longer[i].id = more[i]
    BY <1>1, <1>2, <2>1, <2>4
  <2>7. more = [i \in 1 .. (Len(lines) + 1) |-> more[i]]
    BY <2>4, <2>5
  <2> HIDE DEF longer, more
  <2>8. [i \in DOMAIN longer |-> longer[i].id] = more
    BY <2>2, <2>6, <2>7
  <2> QED BY <2>8 DEF longer, more
<1>5. ASSUME NEW first \in Seq(Appends), StartsWith(lines, first)
      PROVE  [i \in DOMAIN first |-> first[i].id] = SubSeq(ids, 1, Len(first))
  <2>1. /\ Len(first) \in Nat /\ DOMAIN first = 1 .. Len(first)
        /\ Len(first) <= Len(ids)
    BY <1>2, <1>5 DEF StartsWith
  <2> DEFINE sub == SubSeq(ids, 1, Len(first))
  <2>2. sub = [i \in 1 .. Len(first) |-> ids[i]]
    BY <1>2, <2>1
  <2>3. \A i \in 1 .. Len(first) : ids[i] = first[i].id
    BY <1>1, <1>2, <1>5, <2>1 DEF StartsWith
  <2> HIDE DEF ids
  <2> QED BY <2>1, <2>2, <2>3
<1> HIDE DEF ids
<1>6. QED
  BY <1>2, <1>3, <1>4, <1>5 DEF ids

(* When a call ends it leaves the open calls, and none but it. *)
LEMMA CallCloses ==
  ASSUME IInv, NEW w \in Writers, pc[w] # "idle",
         pc' = [pc EXCEPT ![w] = "idle"], call' = call
  PROVE  /\ call[w].kind # "append" => OpenCalls' = OpenCalls
         /\ call[w].kind = "append" =>
              /\ OpenCalls' = OpenCalls \ {call[w].id}
              /\ call[w].id \in OpenCalls
<1>1. /\ pc'[w] = "idle"
      /\ \A v \in Writers \ {w} : pc'[v] = pc[v]
  BY DEF IInv, TypeOK
<1>2. ASSUME NEW v \in Writers, v # w, pc[v] # "idle" PROVE call[v].id # call[w].id
  <2>1. call[v] \in AnyCall
    BY <1>2 DEF IInv, CallsDiffer
  <2>2. call[v] # Nothing
    BY <2>1 DEF AnyCall, Nothing, Kinds
  <2> QED BY <1>2, <2>2 DEF IInv, CallsDiffer
<1> QED BY <1>1, <1>2 DEF OpenCalls

LEMMA SameRecords ==
  content'["log"].lines = content["log"].lines => Records' = Records
BY DEF Records

LEMMA CallRefines ==
  ASSUME IInv, NEW w \in Writers, NEW kind \in Kinds, Call(w, kind)
  PROVE  [Promise!Next]_Promise!vars
<1> USE DEF IInv
<1>1. /\ pc[w] = "idle" /\ pc'[w] = "lock"
      /\ call'[w] = [kind |-> kind, id |-> calls + 1]
      /\ \A v \in Writers \ {w} : pc'[v] = pc[v] /\ call'[v] = call[v]
  BY DEF Call, Goto, TypeOK
<1>2. acked' = acked /\ Records' = Records
  BY SameRecords DEF Call
<1>3. calls + 1 \in Ids
  BY JsonlAssumption DEF Call, TypeOK, Ids
<1>4. CASE kind # "append"
  <2>1. OpenCalls' = OpenCalls
    BY <1>1, <1>4 DEF OpenCalls
  <2> QED BY <1>2, <2>1 DEF Promise!vars
<1>5. CASE kind = "append"
  <2>1. OpenCalls' = OpenCalls \cup {calls + 1}
    BY <1>1, <1>5 DEF OpenCalls
  <2>2. calls + 1 \notin OpenCalls
    <3>1. \A v \in Writers : call[v].id <= calls /\ call[v].id \in Nat
      BY DEF CallsDiffer, TypeOK, AnyCall, Nothing, Ids
    <3> QED BY <3>1 DEF OpenCalls, TypeOK
  <2>3. calls + 1 \notin Recorded(content["log"].lines) /\ content["log"].lines \in Seq(Appends)
    BY DEF LogOnlyGrows, TypeOK
  <2>4. calls + 1 \notin Promise!Range(Records)
    BY <2>3, RecordsOfLines DEF Records
  <2>5. calls + 1 \notin acked
    <3>1. acked \subseteq Recorded(content["log"].lines)
      BY DEF LogOnlyGrows
    <3> QED BY <2>3, <3>1
  <2>6. Promise!Begin(calls + 1)
    BY <1>2, <2>1, <2>2, <2>4, <2>5 DEF Promise!Begin
  <2> QED BY <1>3, <2>6 DEF Promise!Next, Ids
<1> QED BY <1>4, <1>5

LEMMA StepRefines ==
  ASSUME IInv, NEW w \in Writers, Step(w)
  PROVE  [Promise!Next]_Promise!vars
<1> USE DEF IInv
<1>1. content["log"].lines \in Seq(Appends)
  BY DEF LogOnlyGrows
<1>2. CASE Return(w)
  <2>1. Records' = Records
    BY <1>2, SameRecords DEF Return
  <2>2. pc[w] # "idle" /\ pc' = [pc EXCEPT ![w] = "idle"] /\ call' = call
    BY <1>2 DEF Return, Goto
  <2>3. CASE call[w].kind # "append"
    <3>1. OpenCalls' = OpenCalls
      BY <2>2, <2>3, CallCloses
    <3>2. acked' = acked
      BY <1>2, <2>3 DEF Return
    <3> QED BY <2>1, <3>1, <3>2 DEF Promise!vars
  <2>4. CASE call[w].kind = "append"
    <3>1. OpenCalls' = OpenCalls \ {call[w].id} /\ call[w].id \in OpenCalls
      BY <2>2, <2>4, CallCloses
    <3>2. call[w].id \in Ids
      BY <2>2 DEF CallsDiffer, AnyCall
    <3>3. CASE raised[w]
      <4>1. acked' = acked
        BY <1>2, <3>3 DEF Return
      <4>2. Promise!Abandon(call[w].id)
        BY <2>1, <3>1, <4>1 DEF Promise!Abandon
      <4> QED BY <3>2, <4>2 DEF Promise!Next, Ids
    <3>4. CASE ~raised[w]
      <4>1. acked' = acked \cup {call[w].id}
        BY <1>2, <2>4, <3>4 DEF Return
      <4>2. pc[w] = "release"
        BY <1>2 DEF Return
      <4>3. call[w].id \in Recorded(content["log"].lines)
        BY <2>4, <3>4, <4>2 DEF OneLinePerCall, LogOnlyGrows
      <4>4. call[w].id \in Promise!Range(Records)
        BY <1>1, <4>3, RecordsOfLines DEF Records
      <4>5. Promise!Confirm(call[w].id)
        BY <2>1, <3>1, <4>1, <4>4 DEF Promise!Confirm
      <4> QED BY <3>2, <4>5 DEF Promise!Next, Ids
    <3> QED BY <3>3, <3>4
  <2> QED BY <2>3, <2>4
<1>3. CASE ~Return(w)
  <2>1. /\ call' = call /\ acked' = acked
        /\ pc[w] # "idle" /\ pc'[w] # "idle"
        /\ \A v \in Writers \ {w} : pc'[v] = pc[v]
    <3>1. CASE Acquire(w) \/ Release(w) \/ Inspect(w)
      BY <3>1 DEF Acquire, Release, Inspect, Goto, Raise, TypeOK
    <3>2. CASE Truncate(w) \/ SyncTruncated(w) \/ WritePiece(w) \/ WriteRest(w)
      BY <3>2 DEF Truncate, SyncTruncated, WritePiece, WriteRest, Goto, TypeOK
    <3>3. CASE Sync(w)
      BY <3>3 DEF Sync, Goto, TypeOK
    <3> QED BY <1>3, <3>1, <3>2, <3>3 DEF Step
  <2>2. OpenCalls' = OpenCalls
    BY <2>1 DEF OpenCalls
  <2>3. CASE content'["log"].lines = content["log"].lines
    BY <2>1, <2>2, <2>3, SameRecords DEF Promise!vars
  <2>4. CASE /\ content'["log"].lines = Append(content["log"].lines, call[w])
             /\ WriteRest(w) /\ call[w].kind = "append" /\ ~Reporting(w)
    <3>1. pc[w] = "piece"
      BY <2>4 DEF WriteRest
    <3>2. call[w] \in Appends /\ call[w].id \in Ids
      BY <2>4, <3>1 DEF CallsDiffer, AnyCall, Appends
    <3>3. Records' = Append(Records, call[w].id)
      BY <1>1, <2>4, <3>2, RecordsOfLines DEF Records
    <3>4. call[w].id \notin Recorded(content["log"].lines)
      BY <2>4, <3>1 DEF OneLinePerCall, Written, Working, Lines
    <3>5. call[w].id \notin Promise!Range(Records)
      BY <1>1, <3>4, RecordsOfLines DEF Records
    <3>6. call[w].id \in OpenCalls
      BY <2>4, <3>1 DEF OpenCalls
    <3>7. Promise!Add(call[w].id)
      BY <2>1, <2>2, <3>3, <3>5, <3>6 DEF Promise!Add
    <3> QED BY <3>2, <3>7 DEF Promise!Next, Ids
  <2> QED BY <2>3, <2>4, LogWrites DEF LogAlone, LogSynced, LogPut, Lines
<1> QED BY <1>2, <1>3

LEMMA PowerFailureRefines ==
  ASSUME IInv, PowerFailure
  PROVE  [Promise!Next]_Promise!vars
<1> USE DEF IInv
<1> DEFINE kept == content'["log"].lines
<1>1. /\ content'["log"] \in unsynced["log"]
      /\ pc' = [w \in Writers |-> "idle"] /\ acked' = acked
  BY DEF PowerFailure, Files
<1>2. /\ kept \in Seq(Appends) /\ content["log"].lines \in Seq(Appends)
      /\ StartsWith(content["log"].lines, kept)
      /\ acked \subseteq Recorded(kept)
  BY <1>1 DEF LogOnlyGrows
<1>3. OpenCalls' = {}
  BY <1>1 DEF OpenCalls
<1>4. Records' = SubSeq(Records, 1, Len(kept))
  BY <1>2, RecordsOfLines DEF Records
<1>5. acked \subseteq Promise!Range(Records')
  BY <1>2, RecordsOfLines DEF Records
<1>6. Len(kept) \in 0 .. Len(Records)
  BY <1>2, RecordsOfLines DEF Records, StartsWith
<1>7. Promise!Lose
  BY <1>1, <1>3, <1>4, <1>5, <1>6 DEF Promise!Lose
<1> QED BY <1>7 DEF Promise!Next

LEMMA NextRefines == IInv /\ [Next]_vars => [Promise!Next]_Promise!vars
<1> SUFFICES ASSUME IInv, [Next]_vars PROVE [Promise!Next]_Promise!vars
  OBVIOUS
<1>1. CASE UNCHANGED vars
  BY <1>1 DEF vars, Promise!vars, Records, OpenCalls
<1>2. ASSUME NEW w \in Writers, Step(w) PROVE [Promise!Next]_Promise!vars
  BY <1>2, StepRefines
<1>3. ASSUME NEW w \in Writers, Fail(w) PROVE [Promise!Next]_Promise!vars
  <2>1. content' = content /\ acked' = acked /\ call' = call
    BY <1>3 DEF Fail
  <2>2. \A v \in Writers : pc'[v] = "idle" <=> pc[v] = "idle"
    BY <1>3 DEF Fail, Raise, Goto, IInv, TypeOK
  <2> QED BY <2>1, <2>2 DEF Promise!vars, Records, OpenCalls
<1>4. ASSUME NEW w \in Writers, Kill(w) PROVE [Promise!Next]_Promise!vars
  <2>1. /\ content' = content /\ acked' = acked /\ call' = call
        /\ pc[w] # "idle" /\ pc' = [pc EXCEPT ![w] = "idle"]
    BY <1>4 DEF Kill, Goto
  <2>2. Records' = Records
    BY <2>1 DEF Records
  <2>3. CASE call[w].kind # "append"
    BY <2>1, <2>2, <2>3, CallCloses DEF Promise!vars
  <2>4. CASE call[w].kind = "append"
    <3>1. OpenCalls' = OpenCalls \ {call[w].id} /\ call[w].id \in OpenCalls
      BY <2>1, <2>4, CallCloses
    <3>2. call[w].id \in Ids
      BY <2>1 DEF IInv, CallsDiffer, AnyCall
    <3>3. Promise!Abandon(call[w].id)
      BY <2>1, <2>2, <3>1 DEF Promise!Abandon
    <3> QED BY <3>2, <3>3 DEF Promise!Next, Ids
  <2> QED BY <2>3, <2>4
<1>5. ASSUME NEW w \in Writers, NEW kind \in Kinds, Call(w, kind)
      PROVE  [Promise!Next]_Promise!vars
  BY <1>5, CallRefines
<1>6. CASE PowerFailure
  BY <1>6, PowerFailureRefines
<1> QED BY <1>1, <1>2, <1>3, <1>4, <1>5, <1>6 DEF Next

(* The log is what AppendOnlyLog promises to the callers of                *)
(* append_strict_jsonl (jsonl.py:104): a call begins with it, adds with    *)
(* the write that completes its line, confirms as it returns and abandons  *)
(* as it raises or is killed; a power failure loses a tail nobody was      *)
(* promised; locks, repairs and diagnostics are no steps of the log.       *)
THEOREM AppendsAreKept == Spec => ImplementsLog
<1>1. Init => Promise!Init
  <2> SUFFICES ASSUME Init PROVE Promise!Init
    OBVIOUS
  <2>1. content["log"].lines = <<>>
    BY DEF Init, Files, Empty
  <2>2. Records = <<>>
    BY <2>1 DEF Records
  <2>3. OpenCalls = {}
    BY DEF OpenCalls, Init
  <2> QED BY <2>2, <2>3 DEF Promise!Init, Init
<1> QED BY <1>1, NextRefines, LogIsWhole, PTL DEF Spec, ImplementsLog, Promise!Spec
=============================================================================
