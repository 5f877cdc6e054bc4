-------------------------- MODULE DeploymentProofs -------------------------
(***************************************************************************)
(* Proofs about Deployment, for lists of any length, any filters and any    *)
(* number of configurations: the URL of a handle, the length of the query,  *)
(* what a success says, and that nothing of an answer is lost.              *)
(***************************************************************************)
EXTENDS Deployment, SequenceTheorems, TLAPS

-----------------------------------------------------------------------------
(* The URL of a handle.                                                    *)

\* The URL of the configuration's core is allocated: a handle may copy it.
UrlsAlive == configuration.url \in urls \cup {Nothing} /\ UrlAlive

-----------------------------------------------------------------------------
(* The parser.                                                             *)

\* The stack of parsers belongs to the parsing; errors rise in it alone.
StackIsParsing ==
    /\ pc = "parse" => stack # <<>> /\ delivered = Nothing /\ stack[1].kind \in {"workflow", "list"}
    /\ pc # "parse" => stack = <<>> /\ raised = "OK"
    /\ pc # "done" => delivered = Nothing

ObjectKinds == Kinds \ {"string"}

\* An object has gone through its fields in their order.  Only a workflow goes without some,
\* and a state has all of them.
FrameFits(frame) ==
    /\ frame.whole /\ frame.next \in 1..(frame.size + 1)
    /\ IF IsList(frame) THEN frame.of \in Kinds
       ELSE frame.kind \in ObjectKinds /\ frame.size <= Len(Fields(frame.kind))
    /\ frame.kind = "workflow" =>
           /\ frame.size = 7
           /\ \A i \in 1..(frame.next - 1) : WorkflowFields[i] \in frame.has \cup {"history", "model"}
    /\ frame.kind = "state" =>
           frame.size = 6 /\ frame.has = {StateFields[i] : i \in 1..(frame.next - 1)}

\* All but the innermost wait at a field or an entry, and so does one that has failed there.
StackFits ==
    /\ \A i \in 1..Len(stack) : FrameFits(stack[i])
    /\ \A i \in 1..(Len(stack) - 1) : stack[i].next <= stack[i].size
    /\ raised # "OK" => Top.next <= Top.size

DeliveredFits ==
    delivered # Nothing => delivered.whole /\ (IsList(delivered) \/ Required \subseteq delivered.has)

\* The sum of what the parsers of a stack would free, by a function of its partial sums.
IsTotal(frames, n) ==
    \E sum \in [0..Len(frames) -> Nat] :
        /\ sum[0] = 0 /\ sum[Len(frames)] = n
        /\ \A i \in 1..Len(frames) : sum[i] = sum[i - 1] + frames[i].cells

\* Every allocation of the parser is in one of the parsers at work, or in what was delivered.
LiveIsCounted ==
    /\ pc = "parse" => IsTotal(stack, live)
    /\ pc # "parse" => live = IF delivered = Nothing THEN 0 ELSE delivered.cells

\* The results, and what the service has applied, at each place of the call.
ResultIsKnown ==
    /\ result = "none" <=> pc # "done"
    /\ pc \in {"idle", "token", "compose"} => ~applied
    /\ pc \in {"answer", "parse"} /\ op = "update" => applied
    /\ pc = "done" => heap \subseteq {"token"}

IInv ==
    /\ TypeOK
    /\ UrlsAlive
    /\ StackIsParsing
    /\ StackFits
    /\ DeliveredFits
    /\ LiveIsCounted
    /\ ResultIsKnown
    /\ UpdateTruth
-----------------------------------------------------------------------------
(* Stacks and what they hold.                                              *)

\* A stack with a parser more, and one without the innermost.
LEMMA Pushed ==
    ASSUME NEW frames \in Seq(Frame), NEW f \in Frame
    PROVE  /\ Append(frames, f) \in Seq(Frame) /\ Append(frames, f) # <<>>
           /\ Len(Append(frames, f)) = Len(frames) + 1 /\ Len(frames) \in Nat
           /\ \A i \in 1..Len(frames) : Append(frames, f)[i] = frames[i]
           /\ Append(frames, f)[Len(frames) + 1] = f
           /\ Last(Append(frames, f)) = f
BY DEF Last

LEMMA Popped ==
    ASSUME NEW frames \in Seq(Frame), frames # <<>>
    PROVE  /\ Front(frames) \in Seq(Frame) /\ Len(frames) \in Nat \ {0}
           /\ Len(Front(frames)) = Len(frames) - 1
           /\ \A i \in 1..(Len(frames) - 1) : Front(frames)[i] = frames[i]
           /\ Last(frames) = frames[Len(frames)] /\ Last(frames) \in Frame
<1>1. Len(frames) \in Nat \ {0} /\ Last(frames) = frames[Len(frames)] /\ Last(frames) \in Frame
  BY LenProperties, EmptySeq DEF Last
<1>2. \A i \in 1..(Len(frames) - 1) : frames[i] \in Frame
  BY <1>1
<1>3. /\ Front(frames) \in Seq(Frame)
      /\ Len(Front(frames)) = IF 1 <= Len(frames) - 1 THEN (Len(frames) - 1) - 1 + 1 ELSE 0
      /\ \A i \in 1..((Len(frames) - 1) - 1 + 1) : Front(frames)[i] = frames[1 + i - 1]
  BY <1>1, <1>2, SubSeqProperties DEF Front
<1>4. Len(Front(frames)) = Len(frames) - 1
  <2> DEFINE n == Len(frames)
             m == Len(Front(frames))
  <2>1. n \in Nat \ {0} /\ m = IF 1 <= n - 1 THEN (n - 1) - 1 + 1 ELSE 0
    BY <1>1, <1>3
  <2> HIDE DEF n, m
  <2>2. m = n - 1
    BY <2>1
  <2>. QED BY <2>2 DEF n, m
<1>5. \A i \in 1..(Len(frames) - 1) : Front(frames)[i] = frames[i]
  BY <1>1, <1>3
<1>. QED BY <1>1, <1>3, <1>4, <1>5

LEMMA TotalPushed ==
    ASSUME NEW frames \in Seq(Frame), NEW f \in Frame, NEW n \in Nat, IsTotal(frames, n)
    PROVE  IsTotal(Append(frames, f), n + f.cells) /\ n + f.cells \in Nat
<1> DEFINE more == Append(frames, f)
           k == Len(frames)
<1>1. /\ k \in Nat /\ Len(more) = k + 1 /\ \A i \in 1..k : more[i] = frames[i]
      /\ more[k + 1] = f
  BY Pushed
<1>2. f.cells \in Nat
  BY DEF Frame
<1>3. PICK sum \in [0..k -> Nat] :
        /\ sum[0] = 0 /\ sum[k] = n
        /\ \A i \in 1..k : sum[i] = sum[i - 1] + frames[i].cells
  BY DEF IsTotal
<1> DEFINE next == [i \in 0..(k + 1) |-> IF i = k + 1 THEN n + f.cells ELSE sum[i]]
<1> HIDE DEF more, k
<1>4. next \in [0..(k + 1) -> Nat]
  BY <1>1, <1>2, <1>3
<1>5. next[0] = 0 /\ next[k] = n /\ next[k + 1] = n + f.cells
  BY <1>1, <1>3
<1>6. ASSUME NEW i \in 1..(k + 1)
      PROVE  next[i] = next[i - 1] + more[i].cells
  <2>1. CASE i = k + 1
    BY <1>1, <1>5, <2>1
  <2>2. CASE i \in 1..k
    <3>1. next[i] = sum[i] /\ next[i - 1] = sum[i - 1]
      BY <1>1, <2>2
    <3>. QED BY <1>1, <1>3, <2>2, <3>1
  <2>. QED BY <1>1, <2>1, <2>2
<1> HIDE DEF next
<1>7. IsTotal(more, n + f.cells)
  BY <1>1, <1>4, <1>5, <1>6 DEF IsTotal
<1>. QED BY <1>2, <1>7 DEF more

LEMMA TotalPopped ==
    ASSUME NEW frames \in Seq(Frame), frames # <<>>, NEW n \in Nat, IsTotal(frames, n)
    PROVE  IsTotal(Front(frames), n - Last(frames).cells) /\ n - Last(frames).cells \in Nat
<1> DEFINE less == Front(frames)
           k == Len(frames)
<1>1. /\ k \in Nat \ {0} /\ Len(less) = k - 1 /\ \A i \in 1..(k - 1) : less[i] = frames[i]
      /\ Last(frames) = frames[k]
  BY Popped
<1>2. Last(frames).cells \in Nat
  BY Popped DEF Frame
<1>3. PICK sum \in [0..k -> Nat] :
        /\ sum[0] = 0 /\ sum[k] = n
        /\ \A i \in 1..k : sum[i] = sum[i - 1] + frames[i].cells
  BY DEF IsTotal
<1>4. sum[k - 1] = n - Last(frames).cells /\ sum[k - 1] \in Nat
  <2>1. k \in 1..k /\ k - 1 \in 0..k
    BY <1>1
  <2>2. sum[k] = sum[k - 1] + frames[k].cells
    BY <1>3, <2>1
  <2>. QED BY <1>1, <1>2, <1>3, <2>1, <2>2
<1> DEFINE next == [i \in 0..(k - 1) |-> sum[i]]
<1> HIDE DEF less, k
<1>5. next \in [0..(k - 1) -> Nat] /\ next[0] = 0 /\ next[k - 1] = sum[k - 1]
  BY <1>1, <1>3
<1>6. ASSUME NEW i \in 1..(k - 1)
      PROVE  next[i] = next[i - 1] + less[i].cells
  <2>1. next[i] = sum[i] /\ next[i - 1] = sum[i - 1] /\ i \in 1..k
    BY <1>1
  <2>2. sum[i] = sum[i - 1] + frames[i].cells /\ frames[i] = less[i]
    BY <1>1, <1>3, <2>1
  <2>. QED BY <2>1, <2>2
<1> HIDE DEF next
<1>7. IsTotal(less, n - Last(frames).cells)
  BY <1>1, <1>4, <1>5, <1>6 DEF IsTotal
<1>. QED BY <1>4, <1>7 DEF less

LEMMA TotalOfNone ==
    IsTotal(<<>>, 0)
<1> DEFINE sum == [i \in 0..0 |-> 0]
<1>1. sum \in [0..0 -> Nat] /\ sum[0] = 0 /\ Len(<<>>) = 0
  OBVIOUS
<1> HIDE DEF sum
<1>2. \A i \in 1..0 : sum[i] = sum[i - 1] + <<>>[i].cells
  OBVIOUS
<1>. QED BY <1>1, <1>2 DEF IsTotal

LEMMA TotalOfOne ==
    ASSUME NEW f \in Frame
    PROVE  /\ <<f>> \in Seq(Frame) /\ IsTotal(<<f>>, f.cells)
           /\ \A n \in Nat : IsTotal(<<f>>, n) => n = f.cells
<1>1. <<f>> = Append(<<>>, f) /\ <<>> \in Seq(Frame) /\ f.cells \in Nat /\ <<f>> \in Seq(Frame)
  BY DEF Frame
<1>2. IsTotal(<<f>>, 0 + f.cells)
  BY <1>1, TotalOfNone, TotalPushed
<1>3. ASSUME NEW n \in Nat, IsTotal(<<f>>, n) PROVE n = f.cells
  <2>1. Len(<<f>>) = 1 /\ <<f>>[1] = f
    OBVIOUS
  <2>2. PICK sum \in [0..1 -> Nat] : sum[0] = 0 /\ sum[1] = n /\ sum[1] = sum[0] + f.cells
    BY <1>3, <2>1 DEF IsTotal
  <2>. QED BY <1>1, <2>2
<1>. QED BY <1>1, <1>2, <1>3

-----------------------------------------------------------------------------
(* The steps outside the parser.                                           *)

\* What concerns the parser stays as it is.
LEMMA OutsideParser ==
    ASSUME IInv, TypeOK', pc # "parse", pc # "done", pc' # "parse", UNCHANGED parseVars
    PROVE  StackIsParsing' /\ StackFits' /\ DeliveredFits' /\ LiveIsCounted'
<1>1. stack = <<>> /\ raised = "OK" /\ delivered = Nothing /\ live = 0
  BY DEF IInv, StackIsParsing, LiveIsCounted
<1>2. stack' = <<>> /\ raised' = "OK" /\ delivered' = Nothing /\ live' = 0
  BY <1>1 DEF parseVars
<1>3. Len(stack') = 0
  BY <1>2
<1>. QED BY <1>2, <1>3 DEF StackIsParsing, StackFits, DeliveredFits, LiveIsCounted

\* The handle and its configuration, between the calls: the URL of a handle is one of the
\* configuration's, before or now, and none of those is freed while there is a handle.
LEMMA IdleStep ==
    ASSUME IInv, SetCore \/ Initialize \/ Destroy \/ DestroyConfiguration
    PROVE  IInv'
<1>1. /\ pc = "idle" /\ UNCHANGED <<pc, callVars, parts, applied, parseVars, result>>
      /\ heap' \in {heap, {}}
  BY DEF SetCore, Initialize, Destroy, DestroyConfiguration
<1>2. TypeOK /\ UrlsAlive
  BY DEF IInv
<1>3. /\ configuration' \in [core : BOOLEAN, url : 1..MaxUrls \cup {Nothing}]
      /\ handle' \in [url : 1..MaxUrls \cup {Nothing}] \cup {Nothing}
      /\ urls' \subseteq 1..MaxUrls /\ nextUrl' \in 1..(MaxUrls + 1)
      /\ UrlsAlive'
  <2>1. CASE SetCore
    <3>1. nextUrl \in 1..MaxUrls /\ nextUrl' = nextUrl + 1 /\ handle' = handle
      BY <1>2, <2>1, DeploymentAssumption DEF SetCore, TypeOK
    <3>2. PICK url \in {nextUrl, Nothing} :
            urls' = urls \cup ({url} \ {Nothing}) /\ configuration' = [core |-> TRUE, url |-> url]
      BY <2>1 DEF SetCore, ReplaceUrl
    <3>3. nextUrl' \in 1..(MaxUrls + 1)
      BY <3>1, DeploymentAssumption
    <3>4. configuration'.url = url /\ url \in 1..MaxUrls \cup {Nothing}
      BY <3>1, <3>2
    <3>. QED BY <1>2, <3>1, <3>2, <3>3, <3>4 DEF TypeOK, UrlsAlive, UrlAlive
  <2>2. CASE Initialize
    <3>1. /\ handle' = [url |-> configuration.url] /\ configuration' = configuration
          /\ urls' = urls /\ nextUrl' = nextUrl
      BY <2>2 DEF Initialize
    <3>2. configuration.url \in 1..MaxUrls \cup {Nothing} /\ handle'.url = configuration.url
      BY <1>2, <3>1 DEF TypeOK
    <3>. QED BY <1>2, <3>1, <3>2 DEF TypeOK, UrlsAlive, UrlAlive
  <2>3. CASE Destroy
    BY <1>2, <2>3 DEF Destroy, TypeOK, UrlsAlive, UrlAlive
  <2>4. CASE DestroyConfiguration
    <3>1. NoConfiguration \in [core : BOOLEAN, url : 1..MaxUrls \cup {Nothing}] /\ NoConfiguration.url = Nothing
      BY DEF NoConfiguration
    <3>. QED BY <1>2, <2>4, <3>1 DEF DestroyConfiguration, TypeOK, UrlsAlive, UrlAlive
  <2>. QED BY <2>1, <2>2, <2>3, <2>4
<1>4. TypeOK'
  BY <1>1, <1>2, <1>3 DEF TypeOK, callVars, parseVars
<1>5. ResultIsKnown' /\ UpdateTruth'
  BY <1>1 DEF IInv, ResultIsKnown, UpdateTruth, callVars
<1>. QED BY <1>1, <1>3, <1>4, <1>5, OutsideParser DEF IInv

LEMMA BeginStep ==
    ASSUME IInv, Begin
    PROVE  IInv'
<1>1. /\ pc = "idle" /\ pc' = "token" /\ op' \in {"list", "get", "update"}
      /\ state' \subseteq {"state", "message"} /\ filter' \in Filters \cup {Nothing}
      /\ heap' = {} /\ UNCHANGED <<confVars, applied, parseVars, result>>
  BY DeploymentAssumption DEF Begin, Call
<1>2. TypeOK'
  BY <1>1 DEF IInv, TypeOK, confVars, parseVars
<1>3. UrlsAlive'
  BY <1>1 DEF IInv, UrlsAlive, UrlAlive, confVars
<1>4. ResultIsKnown' /\ UpdateTruth'
  BY <1>1 DEF IInv, ResultIsKnown, UpdateTruth
<1>. QED BY <1>1, <1>2, <1>3, <1>4, OutsideParser DEF IInv

\* A call that ends before the parser is at work.
LEMMA FinishedStep ==
    ASSUME IInv, pc \in {"token", "compose", "answer"},
           NEW code \in {"FAIL", "TRIGGERED_WITH_NULL", "OUT_OF_MEMORY", "NON_EXISTING_CHILD",
                         "TYPE_MISMATCH", "NO_ACCESS_TOKEN_EXISTS", "INVALID_PARAMETER"},
           pc = "answer" => code \notin {"NO_ACCESS_TOKEN_EXISTS", "INVALID_PARAMETER"},
           Finished(code)
    PROVE  IInv'
<1>1. /\ pc' = "done" /\ result' = code /\ heap' = heap \cap {"token"}
      /\ UNCHANGED <<confVars, callVars, parts, applied, parseVars>>
  BY DEF Finished
<1>2. TypeOK'
  BY <1>1 DEF IInv, TypeOK, confVars, callVars, parseVars
<1>3. UrlsAlive'
  BY <1>1 DEF IInv, UrlsAlive, UrlAlive, confVars
<1>4. ResultIsKnown' /\ UpdateTruth'
  BY <1>1 DEF IInv, ResultIsKnown, UpdateTruth, callVars
<1>. QED BY <1>1, <1>2, <1>3, <1>4, OutsideParser DEF IInv

LEMMA GetTokenStep ==
    ASSUME IInv, pc = "token", pc' = "compose", heap' = {"token"},
           UNCHANGED <<confVars, callVars, parts, applied, parseVars, result>>
    PROVE  IInv'
<1>1. TypeOK'
  BY DEF IInv, TypeOK, confVars, callVars, parseVars
<1>2. UrlsAlive' /\ ResultIsKnown' /\ UpdateTruth'
  BY DEF IInv, UrlsAlive, UrlAlive, confVars, callVars, ResultIsKnown, UpdateTruth
<1>. QED BY <1>1, <1>2, OutsideParser DEF IInv

LEMMA ComposeStep ==
    ASSUME IInv, pc = "compose", NEW part, heap' = Allocated(part), pc' \in {"compose", "crashed"},
           UNCHANGED <<confVars, callVars, applied, parseVars, result>>
    PROVE  IInv'
<1>1. heap' \subseteq {"token", "request", "query", "url", "body", "response", "json"}
  <2>1. heap \subseteq {"token", "request", "query", "url", "body", "response", "json"}
    BY DEF IInv, TypeOK
  <2>2. heap' \subseteq heap \cup {"query", "url", "request", "body"}
    BY DEF Allocated
  <2>. QED BY <2>1, <2>2
<1>2. TypeOK'
  <2> HIDE DEF Allocated
  <2>. QED BY <1>1 DEF IInv, TypeOK, confVars, callVars, parseVars
<1>3. UrlsAlive' /\ ResultIsKnown' /\ UpdateTruth'
  BY DEF IInv, UrlsAlive, UrlAlive, confVars, callVars, ResultIsKnown, UpdateTruth
<1>. QED BY <1>2, <1>3, OutsideParser DEF IInv

\* The request is sent: a success means that the service has applied an update.
LEMMA SendStep ==
    ASSUME IInv, Send
    PROVE  IInv'
<1>1. /\ pc = "compose" /\ filter' = Nothing /\ state' = {}
      /\ UNCHANGED <<confVars, op, parts, parseVars>>
      /\ heap' \subseteq {"token", "response"}
      /\ pc' # "answer" => heap' = {"token"}
  BY DEF Send
<1>2. /\ applied' \in BOOLEAN
      /\ \/ pc' = "done" /\ result' \in {"NETWORK_SEND_FAIL", "NETWORK_RECEIVE_FAIL", "UNEXPECTED_RESULT_CODE"}
         \/ pc' = "answer" /\ result' = "none" /\ (op = "update" => applied')
  <2>1. CASE applied' = FALSE /\ result' = "NETWORK_SEND_FAIL" /\ pc' = "done"
    BY <2>1
  <2>2. CASE applied' \in {FALSE, op = "update"} /\ result' = "NETWORK_RECEIVE_FAIL" /\ pc' = "done"
    BY <2>2
  <2>3. ASSUME NEW status \in {"success", "created", "other"},
               applied' \in IF status = "success" THEN {op = "update"} ELSE {FALSE, op = "update"},
               IF IsSuccess(status) THEN pc' = "answer" /\ result' = "none"
               ELSE pc' = "done" /\ result' = "UNEXPECTED_RESULT_CODE"
        PROVE  <1>2
    BY <2>3 DEF IsSuccess
  <2>. QED BY <2>1, <2>2, <2>3 DEF Send
<1>3. TypeOK'
  BY <1>1, <1>2 DEF IInv, TypeOK, confVars, parseVars
<1>4. UrlsAlive'
  BY <1>1 DEF IInv, UrlsAlive, UrlAlive, confVars
<1>5. ResultIsKnown' /\ UpdateTruth'
  BY <1>1, <1>2 DEF IInv, ResultIsKnown, UpdateTruth
<1>. QED BY <1>1, <1>2, <1>3, <1>4, <1>5, OutsideParser DEF IInv

\* The caller has destroyed what it got.
LEMMA FinishStep ==
    ASSUME IInv, Finish
    PROVE  IInv'
<1>1. /\ pc = "done" /\ pc' = "idle" /\ op' = "none" /\ filter' = Nothing /\ state' = {}
      /\ applied' = FALSE /\ delivered' = Nothing /\ result' = "none"
      /\ live' = live - (IF delivered = Nothing THEN 0 ELSE delivered.cells)
      /\ UNCHANGED <<confVars, heap, stack, raised>>
  BY DEF Finish, Freed
<1>2. /\ stack = <<>> /\ raised = "OK" /\ live \in Nat
      /\ live = IF delivered = Nothing THEN 0 ELSE delivered.cells
  BY <1>1 DEF IInv, TypeOK, StackIsParsing, LiveIsCounted
<1>3. live' = 0 /\ stack' = <<>> /\ Len(stack') = 0
  BY <1>1, <1>2
<1>4. TypeOK'
  <2>1. live' \in Nat /\ delivered' \in Frame \cup {Nothing} /\ stack' \in Seq(Frame) /\ state' \subseteq {"state", "message"}
    BY <1>1, <1>3
  <2>2. TypeOK /\ pc' = "idle" /\ op' = "none" /\ filter' = Nothing /\ applied' = FALSE /\ result' = "none"
        /\ UNCHANGED <<confVars, heap, raised>>
    BY <1>1 DEF IInv
  <2>. QED BY <2>1, <2>2 DEF TypeOK, confVars
<1>5. UrlsAlive' /\ StackIsParsing' /\ StackFits' /\ DeliveredFits' /\ LiveIsCounted'
  BY <1>1, <1>2, <1>3 DEF IInv, UrlsAlive, UrlAlive, confVars, StackIsParsing, StackFits,
     DeliveredFits, LiveIsCounted
<1>6. ResultIsKnown' /\ UpdateTruth'
  BY <1>1 DEF ResultIsKnown, UpdateTruth
<1>. QED BY <1>4, <1>5, <1>6 DEF IInv

\* A process that is started anew.
LEMMA FreshState ==
    ASSUME configuration = NoConfiguration, handle = Nothing, urls = {}, nextUrl = 1,
           pc = "idle", op = "none", filter = Nothing, state = {}, heap = {}, applied = FALSE,
           stack = <<>>, raised = "OK", live = 0, delivered = Nothing, result = "none"
    PROVE  IInv
<1>1. /\ NoConfiguration \in [core : BOOLEAN, url : 1..MaxUrls \cup {Nothing}]
      /\ NoConfiguration.url = Nothing /\ <<>> \in Seq(Frame) /\ Len(<<>>) = 0
      /\ 1 \in 1..(MaxUrls + 1)
  BY DeploymentAssumption DEF NoConfiguration
<1>2. TypeOK
  BY <1>1 DEF TypeOK
<1>. QED
  BY <1>1, <1>2 DEF IInv, UrlsAlive, UrlAlive, StackIsParsing, StackFits, DeliveredFits,
     LiveIsCounted, ResultIsKnown, UpdateTruth

-----------------------------------------------------------------------------
(* The steps of the parser.                                                *)

\* Where the parser is.
LEMMA TopFacts ==
    ASSUME IInv, pc = "parse"
    PROVE  /\ stack \in Seq(Frame) /\ stack # <<>> /\ Len(stack) \in Nat \ {0}
           /\ Top = stack[Len(stack)] /\ Top \in Frame /\ FrameFits(Top)
           /\ live \in Nat /\ IsTotal(stack, live)
BY Popped DEF IInv, TypeOK, StackIsParsing, StackFits, LiveIsCounted, Top

\* A step inside the parser: what it does to the stack decides.
LEMMA InsideParser ==
    ASSUME IInv, pc = "parse", pc' = "parse",
           UNCHANGED <<confVars, callVars, parts, heap, applied, delivered, result>>,
           stack' \in Seq(Frame), stack' # <<>>, stack'[1].kind \in {"workflow", "list"}, StackFits',
           raised' \in {"OK", "TRIGGERED_WITH_NULL", "NON_EXISTING_CHILD", "OUT_OF_MEMORY", "TYPE_MISMATCH"},
           live' \in Nat, IsTotal(stack', live')
    PROVE  IInv'
<1>1. TypeOK' /\ UrlsAlive'
  BY DEF IInv, TypeOK, UrlsAlive, UrlAlive, confVars, callVars
<1>2. StackIsParsing' /\ DeliveredFits' /\ LiveIsCounted'
  BY DEF IInv, StackIsParsing, DeliveredFits, LiveIsCounted
<1>3. ResultIsKnown' /\ UpdateTruth'
  BY DEF IInv, ResultIsKnown, UpdateTruth, callVars
<1>. QED BY <1>1, <1>2, <1>3 DEF IInv

\* A parser is put in the place of the innermost.
LEMMA ReplaceTop ==
    ASSUME IInv, pc = "parse", pc' = "parse",
           UNCHANGED <<confVars, callVars, parts, heap, applied, delivered, result>>,
           NEW frame \in Frame, NEW more \in Nat, FrameFits(frame),
           frame.kind = Top.kind, frame.cells = Top.cells + more,
           stack' = Append(Front(stack), frame), live' = live + more, raised' = "OK"
    PROVE  IInv'
<1> DEFINE less == Front(stack)
           k == Len(stack)
<1>1. /\ stack \in Seq(Frame) /\ stack # <<>> /\ k \in Nat \ {0} /\ Top = stack[k] /\ Top \in Frame
      /\ live \in Nat /\ IsTotal(stack, live)
  BY TopFacts
<1>2. /\ less \in Seq(Frame) /\ Len(less) = k - 1 /\ \A i \in 1..(k - 1) : less[i] = stack[i]
  BY <1>1, Popped
<1>3. /\ stack' \in Seq(Frame) /\ stack' # <<>> /\ Len(stack') = k
      /\ \A i \in 1..(k - 1) : stack'[i] = stack[i]
      /\ stack'[k] = frame
  BY <1>1, <1>2, Pushed
<1>4. IsTotal(stack', live') /\ live' \in Nat
  <2>1. IsTotal(less, live - Top.cells) /\ live - Top.cells \in Nat
    BY <1>1, TotalPopped DEF Top
  <2>2. IsTotal(stack', (live - Top.cells) + frame.cells)
    BY <1>2, <2>1, TotalPushed
  <2>3. Top.cells \in Nat
    BY <1>1 DEF Frame
  <2>4. (live - Top.cells) + frame.cells = live + more
    BY <1>1, <2>3
  <2>. QED BY <1>1, <2>2, <2>4
<1>5. stack'[1].kind \in {"workflow", "list"}
  <2>1. stack[1].kind \in {"workflow", "list"}
    BY DEF IInv, StackIsParsing
  <2>. QED BY <1>1, <1>3, <2>1
<1>6. StackFits'
  <2>1. \A i \in 1..k : FrameFits(stack'[i])
    BY <1>1, <1>3 DEF IInv, StackFits
  <2>2. \A i \in 1..(k - 1) : stack'[i].next <= stack'[i].size
    BY <1>1, <1>3 DEF IInv, StackFits
  <2>. QED BY <1>3, <2>1, <2>2 DEF StackFits
<1>. QED BY <1>3, <1>4, <1>5, <1>6, InsideParser

\* A parser is called for a field or an entry.
LEMMA PushStep ==
    ASSUME IInv, AtField \/ AtItem, NEW frame \in Frame, FrameFits(frame), frame.cells = 1, Push(frame)
    PROVE  IInv'
<1> DEFINE k == Len(stack)
<1>1. /\ pc = "parse" /\ pc' = "parse" /\ raised' = "OK" /\ raised = "OK" /\ Top.next <= Top.size
      /\ UNCHANGED <<confVars, callVars, parts, heap, applied, delivered, result>>
      /\ stack' = Append(stack, frame) /\ live' = live + 1
  BY DEF AtField, AtItem, Push
<1>2. /\ stack \in Seq(Frame) /\ stack # <<>> /\ k \in Nat \ {0} /\ Top = stack[k]
      /\ live \in Nat /\ IsTotal(stack, live)
  BY <1>1, TopFacts
<1>3. /\ stack' \in Seq(Frame) /\ stack' # <<>> /\ Len(stack') = k + 1
      /\ \A i \in 1..k : stack'[i] = stack[i]
      /\ stack'[k + 1] = frame
  BY <1>1, <1>2, Pushed
<1>4. IsTotal(stack', live') /\ live' \in Nat
  BY <1>1, <1>2, TotalPushed
<1>5. stack'[1].kind \in {"workflow", "list"}
  <2>1. stack[1].kind \in {"workflow", "list"}
    BY <1>1 DEF IInv, StackIsParsing
  <2>. QED BY <1>2, <1>3, <2>1
<1>6. StackFits'
  <2>1. \A i \in 1..(k + 1) : FrameFits(stack'[i])
    BY <1>2, <1>3 DEF IInv, StackFits
  <2>2. \A i \in 1..k : stack'[i].next <= stack'[i].size
    BY <1>1, <1>2, <1>3 DEF IInv, StackFits
  <2>. QED BY <1>1, <1>2, <1>3, <2>1, <2>2 DEF StackFits
<1>. QED BY <1>1, <1>3, <1>4, <1>5, <1>6, InsideParser

LEMMA RaiseStep ==
    ASSUME IInv, AtField \/ AtItem, Raise(raised'),
           raised' \in {"OK", "TRIGGERED_WITH_NULL", "NON_EXISTING_CHILD", "OUT_OF_MEMORY", "TYPE_MISMATCH"}
    PROVE  IInv'
<1>1. /\ pc = "parse" /\ pc' = "parse" /\ Top.next <= Top.size
      /\ UNCHANGED <<confVars, callVars, parts, heap, applied, delivered, result, stack, live>>
  BY DEF AtField, AtItem, Raise
<1>2. /\ stack \in Seq(Frame) /\ stack # <<>> /\ live \in Nat /\ IsTotal(stack, live)
      /\ stack[1].kind \in {"workflow", "list"}
  BY <1>1, TopFacts DEF IInv, StackIsParsing
<1>3. StackFits'
  BY <1>1 DEF IInv, StackFits, Top
<1>4. stack' = stack /\ live' = live
  BY <1>1
<1>. QED BY <1>1, <1>2, <1>3, <1>4, InsideParser

\* An error leaves the innermost parser, which frees what it has.
LEMMA PopStep ==
    ASSUME IInv, pc = "parse", pc' = "parse", Len(stack) > 1,
           UNCHANGED <<confVars, callVars, parts, heap, applied, delivered, result>>,
           raised' \in {"OK", "TRIGGERED_WITH_NULL", "NON_EXISTING_CHILD", "OUT_OF_MEMORY", "TYPE_MISMATCH"},
           stack' = Front(stack), live' = live - Top.cells
    PROVE  IInv'
<1> DEFINE k == Len(stack)
<1>1. /\ stack \in Seq(Frame) /\ stack # <<>> /\ k \in Nat /\ k > 1
      /\ live \in Nat /\ IsTotal(stack, live)
  BY TopFacts
<1>2. /\ stack' \in Seq(Frame) /\ Len(stack') = k - 1 /\ \A i \in 1..(k - 1) : stack'[i] = stack[i]
  BY <1>1, Popped
<1>3. IsTotal(stack', live') /\ live' \in Nat
  BY <1>1, TotalPopped DEF Top
<1>4. stack' # <<>> /\ Top' = stack[k - 1]
  <2>1. stack' # <<>>
    BY <1>1, <1>2
  <2>2. Top' = stack'[k - 1]
    BY <1>2, <2>1, Popped DEF Top
  <2>. QED BY <1>1, <1>2, <2>1, <2>2
<1>5. stack'[1].kind \in {"workflow", "list"}
  <2>1. stack[1].kind \in {"workflow", "list"}
    BY DEF IInv, StackIsParsing
  <2>. QED BY <1>1, <1>2, <2>1
<1>6. StackFits'
  <2>1. \A i \in 1..(k - 1) : FrameFits(stack'[i]) /\ stack'[i].next <= stack'[i].size
    BY <1>1, <1>2 DEF IInv, StackFits
  <2>2. \A i \in 1..(k - 2) : stack'[i].next <= stack'[i].size
    BY <1>1, <2>1
  <2>3. Top'.next <= Top'.size
    BY <1>1, <1>2, <1>4, <2>1
  <2>. QED BY <1>1, <1>2, <2>1, <2>2, <2>3 DEF StackFits
<1>. QED BY <1>2, <1>3, <1>4, <1>5, <1>6, InsideParser

-----------------------------------------------------------------------------
(* The parsers of the objects and of the lists.                            *)

\* The fields of every kind, and that they are names.
LEMMA FieldsAreNames ==
    ASSUME NEW kind \in ObjectKinds
    PROVE  /\ Len(Fields(kind)) \in Nat
           /\ \A i \in 1..Len(Fields(kind)) : Fields(kind)[i] \in FieldNames
           /\ kind = "workflow" => Fields(kind) = WorkflowFields /\ Len(Fields(kind)) = 7
           /\ kind = "state" => Fields(kind) = StateFields /\ Len(Fields(kind)) = 6
<1>1. /\ Len(WorkflowFields) = 7 /\ DOMAIN WorkflowFields = 1..7
      /\ Len(StateFields) = 6 /\ DOMAIN StateFields = 1..6
  BY DEF WorkflowFields, StateFields
<1>2. /\ Len(ModelFields) = 4 /\ DOMAIN ModelFields = 1..4
      /\ Len(ModelStateFields) = 5 /\ DOMAIN ModelStateFields = 1..5
      /\ Len(TransitionFields) = 4 /\ DOMAIN TransitionFields = 1..4
      /\ Len(StateGroupFields) = 2 /\ DOMAIN StateGroupFields = 1..2
  BY DEF ModelFields, ModelStateFields, TransitionFields, StateGroupFields
<1>3. /\ Fields("workflow") = WorkflowFields /\ Fields("state") = StateFields
      /\ Fields("model") = ModelFields /\ Fields("modelState") = ModelStateFields
      /\ Fields("transition") = TransitionFields /\ Fields("stateGroup") = StateGroupFields
  BY DEF Fields
<1>4. Len(Fields(kind)) \in Nat /\ DOMAIN Fields(kind) = 1..Len(Fields(kind))
  BY <1>1, <1>2, <1>3 DEF ObjectKinds, Kinds
<1>5. \A i \in DOMAIN Fields(kind) : Fields(kind)[i] \in ToSet(Fields(kind))
  BY DEF ToSet
<1>6. \A i \in DOMAIN Fields(kind) : Fields(kind)[i] \in FieldNames
  BY <1>5 DEF FieldNames, ObjectKinds
<1>. QED BY <1>1, <1>3, <1>4, <1>6

\* A parser begins at the first field.
LEMMA NewObject ==
    ASSUME NEW kind \in ObjectKinds
    PROVE  /\ Object(kind) \in Frame /\ FrameFits(Object(kind))
           /\ Object(kind).kind = kind /\ Object(kind).cells = 1
<1> DEFINE n == Len(Fields(kind))
           f == [kind |-> kind, of |-> "fields", next |-> 1, size |-> n, has |-> {},
                 whole |-> TRUE, cells |-> 1]
<1>1. n \in Nat /\ (kind = "workflow" => n = 7) /\ (kind = "state" => n = 6)
  BY FieldsAreNames
<1>2. Object(kind) = f
  BY DEF Object
<1>3. kind \in Kinds /\ kind # "list"
  BY DEF ObjectKinds, Kinds
<1> HIDE DEF n
<1>4. /\ f \in Frame /\ f.kind = kind /\ f.cells = 1 /\ f.next = 1 /\ f.size = n /\ f.has = {} /\ f.whole
  BY <1>1, <1>3 DEF Frame
<1> HIDE DEF f
<1>5. {StateFields[i] : i \in 1..(1 - 1)} = {}
  OBVIOUS
<1>6. FrameFits(f)
  <2>1. 1 \in 1..(n + 1) /\ 1..(1 - 1) = {}
    BY <1>1
  <2>2. f.size <= Len(Fields(f.kind))
    BY <1>1, <1>4 DEF n
  <2>. QED BY <1>1, <1>3, <1>4, <1>5, <2>1, <2>2 DEF FrameFits, IsList
<1>. QED BY <1>2, <1>4, <1>6

LEMMA NewList ==
    ASSUME NEW kind \in Kinds, NEW n \in Nat
    PROVE  /\ List(kind, n) \in Frame /\ FrameFits(List(kind, n))
           /\ List(kind, n).kind = "list" /\ List(kind, n).cells = 1
BY DEF List, Frame, FrameFits, IsList

\* A field is taken: it is there from now on.
LEMMA FieldTaken ==
    ASSUME NEW f \in Frame, NEW g \in Frame, FrameFits(f), f.next <= f.size,
           g.kind = f.kind, g.of = f.of, g.size = f.size, g.next = f.next + 1, g.whole,
           IsList(f) \/ g.has = f.has \cup {Field(f)}
    PROVE  FrameFits(g)
<1>1. f.next \in Nat /\ f.size \in Nat /\ f.next >= 1
  BY DEF Frame, FrameFits
<1>2. g.next \in 1..(g.size + 1)
  BY <1>1
<1>3. CASE IsList(f)
  BY <1>2, <1>3 DEF FrameFits, IsList
<1>4. CASE ~IsList(f)
  <2>1. g.has = f.has \cup {Fields(f.kind)[f.next]}
    BY <1>4 DEF Field
  <2>2. ASSUME f.kind = "workflow"
        PROVE  \A i \in 1..(g.next - 1) : WorkflowFields[i] \in g.has \cup {"history", "model"}
    <3>1. Fields(f.kind) = WorkflowFields
      BY <2>2 DEF Fields
    <3>2. \A i \in 1..(f.next - 1) : WorkflowFields[i] \in f.has \cup {"history", "model"}
      BY <2>2 DEF FrameFits
    <3>3. \A i \in 1..(g.next - 1) : i \in 1..(f.next - 1) \/ i = f.next
      BY <1>1
    <3>. QED BY <2>1, <3>1, <3>2, <3>3
  <2>3. ASSUME f.kind = "state"
        PROVE  g.has = {StateFields[i] : i \in 1..(g.next - 1)}
    <3>1. Fields(f.kind) = StateFields
      BY <2>3 DEF Fields
    <3>2. f.has = {StateFields[i] : i \in 1..(f.next - 1)}
      BY <2>3 DEF FrameFits
    <3>3. 1..(g.next - 1) = 1..(f.next - 1) \cup {f.next}
      BY <1>1
    <3>. QED BY <2>1, <3>1, <3>2, <3>3
  <2>. QED BY <1>2, <1>4, <2>2, <2>3 DEF FrameFits, IsList
<1>. QED BY <1>3, <1>4

\* What a parser at a field has to do with it.
LEMMA AtFieldFacts ==
    ASSUME IInv, AtField
    PROVE  /\ Top \in Frame /\ FrameFits(Top) /\ ~IsList(Top) /\ Top.next <= Top.size
           /\ pc = "parse" /\ raised = "OK" /\ Field(Top) \in FieldNames
<1>1. /\ Top \in Frame /\ FrameFits(Top) /\ ~IsList(Top) /\ Top.next <= Top.size
      /\ pc = "parse" /\ raised = "OK"
  BY TopFacts DEF AtField
<1>2. Top.kind \in ObjectKinds /\ Top.next \in 1..Len(Fields(Top.kind))
  <2>1. Top.next \in Nat /\ Top.size \in Nat /\ Top.next >= 1
    BY <1>1 DEF Frame, FrameFits
  <2>2. Top.kind \in ObjectKinds /\ Top.size <= Len(Fields(Top.kind))
    BY <1>1 DEF FrameFits
  <2>3. Len(Fields(Top.kind)) \in Nat
    BY <2>2, FieldsAreNames
  <2>. QED BY <1>1, <2>1, <2>2, <2>3
<1>4. Field(Top) \in FieldNames
  BY <1>2, FieldsAreNames DEF Field
<1>. QED BY <1>1, <1>4

LEMMA SetTopStep ==
    ASSUME IInv, pc = "parse", raised = "OK", NEW frame \in Frame, NEW more \in Nat, FrameFits(frame),
           frame.kind = Top.kind, frame.cells = Top.cells + more, SetTop(frame, more)
    PROVE  IInv'
BY ReplaceTop DEF SetTop

LEMMA ParseScalarStep ==
    ASSUME IInv, ParseScalar
    PROVE  IInv'
<1> DEFINE field == Field(Top)
           With(n) == [Top EXCEPT !.next = @ + 1, !.has = @ \cup {field}, !.cells = @ + n]
<1>1. AtField /\ ((\E code \in {"NON_EXISTING_CHILD", "TYPE_MISMATCH", "OUT_OF_MEMORY"} : Raise(code))
                  \/ SetTop(With(0), 0) \/ SetTop(With(1), 1))
  BY DEF ParseScalar
<1>2. /\ Top \in Frame /\ FrameFits(Top) /\ ~IsList(Top) /\ Top.next <= Top.size
      /\ pc = "parse" /\ raised = "OK" /\ field \in FieldNames
  BY <1>1, AtFieldFacts
<1>3. ASSUME NEW m \in {0, 1}, SetTop(With(m), m)
      PROVE  IInv'
  <2> DEFINE d == Top.next + 1
             h == Top.has \cup {field}
             c == Top.cells + m
             g == With(m)
  <2>1. d \in Nat /\ h \in SUBSET FieldNames /\ c \in Nat /\ m \in Nat
    BY <1>2 DEF Frame
  <2>2. g = [Top EXCEPT !.next = d, !.has = h, !.cells = c]
    BY <1>2 DEF Frame
  <2> HIDE DEF d, h, c
  <2>3. /\ g \in Frame /\ g.kind = Top.kind /\ g.of = Top.of /\ g.size = Top.size /\ g.next = d
        /\ g.whole = Top.whole /\ g.has = h /\ g.cells = c
    BY <1>2, <2>1, <2>2 DEF Frame
  <2> HIDE DEF g
  <2>4. FrameFits(g)
    <3>1. Top.whole
      BY <1>2 DEF FrameFits
    <3>. QED BY <1>2, <2>3, <3>1, FieldTaken DEF d, h
  <2>. QED BY <1>2, <1>3, <2>1, <2>3, <2>4, SetTopStep DEF g, c
<1>4. ASSUME NEW code \in {"NON_EXISTING_CHILD", "TYPE_MISMATCH", "OUT_OF_MEMORY"}, Raise(code)
      PROVE  IInv'
  <2>1. raised' = code
    BY <1>4 DEF Raise
  <2>. QED BY <1>1, <1>4, <2>1, RaiseStep
<1>. QED BY <1>1, <1>3, <1>4

LEMMA EnterFieldStep ==
    ASSUME IInv, EnterField
    PROVE  IInv'
<1> DEFINE field == Field(Top)
<1>1. /\ AtField /\ field \in DOMAIN Nested \cup DOMAIN Lists
      /\ \/ \E code \in {"NON_EXISTING_CHILD", "OUT_OF_MEMORY", "TYPE_MISMATCH"} : Raise(code)
         \/ field \in DOMAIN Nested /\ Push(Object(Nested[field]))
         \/ field \in DOMAIN Lists /\ \E n \in 0..MaxItems[Lists[field]] : Push(List(Lists[field], n))
  BY DEF EnterField
<1>2. ASSUME NEW code \in {"NON_EXISTING_CHILD", "OUT_OF_MEMORY", "TYPE_MISMATCH"}, Raise(code)
      PROVE  IInv'
  <2>1. raised' = code
    BY <1>2 DEF Raise
  <2>. QED BY <1>1, <1>2, <2>1, RaiseStep
<1>3. ASSUME field \in DOMAIN Nested, Push(Object(Nested[field]))
      PROVE  IInv'
  <2>1. Nested[field] \in ObjectKinds
    BY <1>3 DEF Nested, ObjectKinds, Kinds
  <2>. QED BY <1>1, <1>3, <2>1, NewObject, PushStep
<1>4. ASSUME field \in DOMAIN Lists, NEW n \in 0..MaxItems[Lists[field]], Push(List(Lists[field], n))
      PROVE  IInv'
  <2>1. Lists[field] \in Kinds
    BY <1>4 DEF Lists, Kinds
  <2>2. n \in Nat
    BY <1>4, <2>1, DeploymentAssumption
  <2>. QED BY <1>1, <1>4, <2>1, <2>2, NewList, PushStep
<1>. QED BY <1>1, <1>2, <1>3, <1>4

LEMMA EnterItemStep ==
    ASSUME IInv, EnterItem
    PROVE  IInv'
<1>1. /\ AtItem
      /\ \/ \E code \in {"OUT_OF_MEMORY", "TYPE_MISMATCH", "TRIGGERED_WITH_NULL"} : Raise(code)
         \/ SetTop([Top EXCEPT !.next = @ + 1, !.cells = @ + 2], 2)
         \/ Top.of # "string" /\ Push(Object(Top.of))
  BY DEF EnterItem
<1>2. /\ Top \in Frame /\ FrameFits(Top) /\ IsList(Top) /\ Top.next <= Top.size
      /\ pc = "parse" /\ raised = "OK"
  BY <1>1, TopFacts DEF AtItem
<1>3. ASSUME NEW code \in {"OUT_OF_MEMORY", "TYPE_MISMATCH", "TRIGGERED_WITH_NULL"}, Raise(code)
      PROVE  IInv'
  <2>1. raised' = code
    BY <1>3 DEF Raise
  <2>. QED BY <1>1, <1>3, <2>1, RaiseStep
<1>4. ASSUME SetTop([Top EXCEPT !.next = @ + 1, !.cells = @ + 2], 2)
      PROVE  IInv'
  <2> DEFINE d == Top.next + 1
             c == Top.cells + 2
             g == [Top EXCEPT !.next = @ + 1, !.cells = @ + 2]
  <2>1. d \in Nat /\ c \in Nat
    BY <1>2 DEF Frame
  <2>2. g = [Top EXCEPT !.next = d, !.cells = c]
    BY <1>2 DEF Frame
  <2> HIDE DEF d, c
  <2>3. /\ g \in Frame /\ g.kind = Top.kind /\ g.of = Top.of /\ g.size = Top.size /\ g.next = d
        /\ g.whole = Top.whole /\ g.cells = c
    BY <1>2, <2>1, <2>2 DEF Frame
  <2> HIDE DEF g
  <2>4. FrameFits(g)
    <3>1. Top.whole
      BY <1>2 DEF FrameFits
    <3>. QED BY <1>2, <2>3, <3>1, FieldTaken DEF d
  <2>. QED BY <1>2, <1>4, <2>3, <2>4, SetTopStep DEF g, c
<1>5. ASSUME Top.of # "string", Push(Object(Top.of))
      PROVE  IInv'
  <2>1. Top.of \in ObjectKinds
    BY <1>2, <1>5 DEF FrameFits, ObjectKinds
  <2>. QED BY <1>1, <1>5, <2>1, NewObject, PushStep
<1>. QED BY <1>1, <1>3, <1>4, <1>5

\* An object that has gone through its fields is whole.
LEMMA LeftWhole ==
    ASSUME NEW f \in Frame, FrameFits(f), f.next > f.size
    PROVE  IsWhole(f)
<1>1. CASE f.kind = "state"
  <2>1. f.size = 6 /\ f.next \in 1..(f.size + 1) /\ f.has = {StateFields[i] : i \in 1..(f.next - 1)}
    BY <1>1 DEF FrameFits
  <2>2. f.next - 1 = 6
    BY <2>1
  <2>3. ToSet(Fields("state")) = {StateFields[i] : i \in DOMAIN StateFields}
    BY DEF ToSet, Fields
  <2>4. DOMAIN StateFields = 1..6
    BY DEF StateFields
  <2>5. f.has = ToSet(Fields("state"))
    BY <2>1, <2>2, <2>3, <2>4
  <2>. QED BY <2>5 DEF IsWhole, FrameFits
<1>2. CASE f.kind # "state"
  BY <1>2 DEF IsWhole, FrameFits
<1>. QED BY <1>1, <1>2

\* An object is complete, and goes into the one that asked for it.
LEMMA MergeStep ==
    ASSUME IInv, pc = "parse", pc' = "parse", raised = "OK", raised' = "OK", Len(stack) > 1,
           UNCHANGED <<confVars, callVars, parts, heap, applied, delivered, result>>,
           NEW frame \in Frame, NEW more \in Nat, FrameFits(frame),
           frame.kind = stack[Len(stack) - 1].kind,
           frame.cells = stack[Len(stack) - 1].cells + Top.cells + more,
           stack' = Append(SubSeq(stack, 1, Len(stack) - 2), frame), live' = live + more
    PROVE  IInv'
<1> DEFINE k == Len(stack)
           less == Front(stack)
           rest == SubSeq(stack, 1, k - 2)
<1>1. /\ stack \in Seq(Frame) /\ stack # <<>> /\ k \in Nat /\ k > 1 /\ Top = stack[k] /\ Top \in Frame
      /\ live \in Nat /\ IsTotal(stack, live)
  BY TopFacts
<1>2. /\ less \in Seq(Frame) /\ Len(less) = k - 1 /\ \A i \in 1..(k - 1) : less[i] = stack[i]
      /\ less # <<>>
  BY <1>1, Popped
<1>3. /\ Front(less) \in Seq(Frame) /\ Len(Front(less)) = k - 2
      /\ \A i \in 1..(k - 2) : Front(less)[i] = less[i]
      /\ Last(less) = stack[k - 1] /\ Last(less) \in Frame
  <2>1. /\ Front(less) \in Seq(Frame) /\ Len(Front(less)) = Len(less) - 1
        /\ \A i \in 1..(Len(less) - 1) : Front(less)[i] = less[i]
        /\ Last(less) = less[Len(less)] /\ Last(less) \in Frame
    BY <1>2, Popped
  <2>2. Len(less) = k - 1 /\ Len(less) - 1 = k - 2 /\ k - 1 \in 1..(k - 1)
    BY <1>1, <1>2
  <2>. QED BY <1>2, <2>1, <2>2
<1>4. rest = Front(less)
  <2>1. /\ rest \in Seq(Frame) /\ Len(rest) = k - 2 /\ \A i \in 1..(k - 2) : rest[i] = stack[i]
    <3>1. \A i \in 1..(k - 2) : stack[i] \in Frame
      BY <1>1
    <3>2. /\ rest \in Seq(Frame) /\ Len(rest) = IF 1 <= k - 2 THEN (k - 2) - 1 + 1 ELSE 0
          /\ \A i \in 1..((k - 2) - 1 + 1) : rest[i] = stack[1 + i - 1]
      BY <1>1, <3>1, SubSeqProperties
    <3> DEFINE m == Len(rest)
    <3>3. k \in Nat /\ k > 1 /\ m = IF 1 <= k - 2 THEN (k - 2) - 1 + 1 ELSE 0
      BY <1>1, <3>2
    <3> HIDE DEF k, m
    <3>4. m = k - 2
      BY <3>3
    <3>5. \A i \in 1..(k - 2) : rest[i] = stack[i]
      BY <1>1, <3>2
    <3>. QED BY <3>2, <3>4, <3>5 DEF m
  <2>2. \A i \in 1..(k - 2) : Front(less)[i] = rest[i]
    BY <1>1, <1>2, <1>3, <2>1
  <2>. QED BY <1>3, <2>1, <2>2, SeqEqual
<1>5. /\ stack' \in Seq(Frame) /\ stack' # <<>> /\ Len(stack') = k - 1
      /\ \A i \in 1..(k - 2) : stack'[i] = stack[i]
      /\ stack'[k - 1] = frame
  <2>1. /\ stack' \in Seq(Frame) /\ stack' # <<>> /\ Len(stack') = (k - 2) + 1
        /\ \A i \in 1..(k - 2) : stack'[i] = Front(less)[i]
        /\ stack'[(k - 2) + 1] = frame
    BY <1>3, <1>4, Pushed
  <2>2. (k - 2) + 1 = k - 1 /\ \A i \in 1..(k - 2) : Front(less)[i] = stack[i]
    BY <1>1, <1>2, <1>3
  <2>. QED BY <2>1, <2>2
<1>6. IsTotal(stack', live') /\ live' \in Nat
  <2> DEFINE parent == stack[k - 1]
  <2>1. IsTotal(less, live - Top.cells) /\ live - Top.cells \in Nat
    BY <1>1, TotalPopped DEF Top
  <2>2. /\ IsTotal(Front(less), (live - Top.cells) - parent.cells)
        /\ (live - Top.cells) - parent.cells \in Nat
    BY <1>2, <1>3, <2>1, TotalPopped
  <2>3. IsTotal(stack', ((live - Top.cells) - parent.cells) + frame.cells)
    BY <1>3, <1>4, <2>2, TotalPushed
  <2>4. Top.cells \in Nat /\ parent.cells \in Nat
    BY <1>1, <1>3 DEF Frame
  <2>5. ((live - Top.cells) - parent.cells) + frame.cells = live + more
    BY <1>1, <2>4
  <2>. QED BY <1>1, <2>3, <2>5
<1>7. stack'[1].kind \in {"workflow", "list"}
  <2>1. stack[1].kind \in {"workflow", "list"}
    BY DEF IInv, StackIsParsing
  <2>2. k \in Nat /\ k > 1
    BY <1>1
  <2> HIDE DEF k
  <2>3. k - 1 = 1 \/ 1 \in 1..(k - 2)
    BY <2>2
  <2>4. stack[k - 1].kind = frame.kind
    BY DEF k
  <2>. QED BY <1>5, <2>1, <2>3, <2>4
<1>8. StackFits'
  <2>1. ASSUME NEW i \in 1..(k - 1)
        PROVE  FrameFits(stack'[i])
    <3>1. \A j \in 1..k : FrameFits(stack[j])
      BY DEF IInv, StackFits
    <3>2. k \in Nat
      BY <1>1
    <3> HIDE DEF k
    <3>3. i = k - 1 \/ i \in 1..(k - 2)
      BY <3>2
    <3>4. i \in 1..k
      BY <3>2
    <3>. QED BY <1>5, <3>1, <3>3, <3>4
  <2>2. \A i \in 1..((k - 1) - 1) : stack'[i].next <= stack'[i].size
    BY <1>1, <1>5 DEF IInv, StackFits
  <2>. QED BY <1>5, <2>1, <2>2 DEF StackFits
<1>. QED BY <1>5, <1>6, <1>7, <1>8, InsideParser

LEMMA LeaveStep ==
    ASSUME IInv, Leave
    PROVE  IInv'
<1> DEFINE parent == stack[Len(stack) - 1]
           rest == SubSeq(stack, 1, Len(stack) - 2)
           whole == parent.whole /\ IsWhole(Top)
<1>1. /\ pc = "parse" /\ pc' = "parse" /\ raised = "OK" /\ Top.next > Top.size /\ Len(stack) > 1
      /\ UNCHANGED <<confVars, callVars, parts, heap, applied, delivered, result>>
  BY DEF Leave
<1>2. /\ Top \in Frame /\ FrameFits(Top) /\ parent \in Frame /\ FrameFits(parent)
      /\ parent.next <= parent.size
  <2>1. Top \in Frame /\ FrameFits(Top) /\ stack \in Seq(Frame) /\ Len(stack) \in Nat
    BY <1>1, TopFacts
  <2>2. Len(stack) - 1 \in 1..Len(stack) /\ Len(stack) - 1 \in 1..(Len(stack) - 1)
    BY <1>1, <2>1
  <2>. QED BY <2>1, <2>2 DEF IInv, StackFits
<1>3. whole = TRUE
  BY <1>1, <1>2, LeftWhole DEF FrameFits
<1>4. parent.cells \in Nat /\ parent.next \in Nat /\ Top.cells \in Nat /\ parent.has \in SUBSET FieldNames
  BY <1>2 DEF Frame
\* The list takes the entry.
<1>5. ASSUME IsList(parent), live' = live + 1, raised' = raised,
             stack' = Append(rest, [parent EXCEPT !.next = @ + 1, !.whole = whole, !.cells = @ + Top.cells + 1])
      PROVE  IInv'
  <2> DEFINE d == parent.next + 1
             c == parent.cells + Top.cells + 1
             g == [parent EXCEPT !.next = d, !.whole = TRUE, !.cells = c]
  <2>1. d \in Nat /\ c \in Nat
    BY <1>4
  <2>2. stack' = Append(rest, g)
    BY <1>2, <1>3, <1>5 DEF Frame
  <2> HIDE DEF d, c
  <2>3. /\ g \in Frame /\ g.kind = parent.kind /\ g.of = parent.of /\ g.size = parent.size
        /\ g.next = d /\ g.whole /\ g.cells = c
    BY <1>2, <2>1 DEF Frame
  <2> HIDE DEF g
  <2>4. FrameFits(g)
    BY <1>2, <1>5, <2>3, FieldTaken DEF d
  <2>. QED BY <1>1, <1>5, <2>2, <2>3, <2>4, MergeStep DEF c
\* There is no memory for it.
<1>6. ASSUME stack' = Front(stack), live' = live - Freed(Top), raised' = "OUT_OF_MEMORY"
      PROVE  IInv'
  BY <1>1, <1>6, PopStep DEF Freed
\* The object takes the field.
<1>7. ASSUME ~IsList(parent), live' = live, raised' = raised,
             stack' = Append(rest, [parent EXCEPT !.next = @ + 1, !.whole = whole, !.cells = @ + Top.cells,
                                                  !.has = @ \cup {Field(parent)}])
      PROVE  IInv'
  <2> DEFINE d == parent.next + 1
             c == parent.cells + Top.cells
             h == parent.has \cup {Field(parent)}
             g == [parent EXCEPT !.next = d, !.whole = TRUE, !.cells = c, !.has = h]
  <2>1. Field(parent) \in FieldNames
    <3>1. parent.kind \in ObjectKinds /\ parent.size <= Len(Fields(parent.kind)) /\ parent.next >= 1
          /\ parent.size \in Nat
      BY <1>2, <1>7 DEF FrameFits, Frame
    <3>2. /\ \A i \in 1..Len(Fields(parent.kind)) : Fields(parent.kind)[i] \in FieldNames
          /\ Len(Fields(parent.kind)) \in Nat
      BY <3>1, FieldsAreNames
    <3>3. parent.next \in 1..Len(Fields(parent.kind))
      BY <1>2, <1>4, <3>1, <3>2
    <3>. QED BY <3>2, <3>3 DEF Field
  <2>2. d \in Nat /\ c \in Nat /\ h \in SUBSET FieldNames
    BY <1>4, <2>1
  <2>3. stack' = Append(rest, g)
    BY <1>2, <1>3, <1>7 DEF Frame
  <2> HIDE DEF d, c, h
  <2>4. /\ g \in Frame /\ g.kind = parent.kind /\ g.of = parent.of /\ g.size = parent.size
        /\ g.next = d /\ g.whole /\ g.cells = c /\ g.has = h
    BY <1>2, <2>2 DEF Frame
  <2> HIDE DEF g
  <2>5. FrameFits(g)
    BY <1>2, <2>4, FieldTaken DEF d, h
  <2>6. g.cells = parent.cells + Top.cells + 0 /\ live' = live + 0
    BY <1>1, <1>4, <1>7, <2>4, TopFacts DEF c
  <2>. QED BY <1>1, <1>7, <2>3, <2>4, <2>5, <2>6, MergeStep
<1>8. \/ /\ IsList(parent) /\ live' = live + 1 /\ raised' = raised
         /\ stack' = Append(rest, [parent EXCEPT !.next = @ + 1, !.whole = whole, !.cells = @ + Top.cells + 1])
      \/ stack' = Front(stack) /\ live' = live - Freed(Top) /\ raised' = "OUT_OF_MEMORY"
      \/ /\ ~IsList(parent) /\ live' = live /\ raised' = raised
         /\ stack' = Append(rest, [parent EXCEPT !.next = @ + 1, !.whole = whole, !.cells = @ + Top.cells,
                                                 !.has = @ \cup {Field(parent)}])
  BY DEF Leave
<1>. QED BY <1>5, <1>6, <1>7, <1>8

\* The answer is a tree: a parser for the whole of it, or a failure.
LEMMA ParseStep ==
    ASSUME IInv, Parse
    PROVE  IInv'
<1>1. CASE \E code \in {"TRIGGERED_WITH_NULL", "FAIL", "OUT_OF_MEMORY", "NON_EXISTING_CHILD", "TYPE_MISMATCH"} :
              Finished(code)
  BY <1>1, FinishedStep DEF Parse
<1>2. ASSUME NEW frame \in Frame, stack' = <<frame>>, FrameFits(frame), frame.cells = 1,
             frame.kind \in {"workflow", "list"}, pc' = "parse", live' = 1, heap' = heap \cup {"json"},
             UNCHANGED <<confVars, callVars, parts, applied, raised, delivered, result>>
      PROVE  IInv'
  <2>1. /\ stack' \in Seq(Frame) /\ IsTotal(stack', live') /\ stack' # <<>>
        /\ Len(stack') = 1 /\ stack'[1] = frame
    BY <1>2, TotalOfOne
  <2>2. pc = "answer" /\ raised = "OK" /\ delivered = Nothing
    BY DEF Parse, IInv, StackIsParsing
  <2>3. TypeOK'
    BY <1>2, <2>1 DEF IInv, TypeOK, confVars, callVars
  <2>4. UrlsAlive' /\ DeliveredFits' /\ LiveIsCounted' /\ StackIsParsing'
    BY <1>2, <2>1, <2>2 DEF IInv, UrlsAlive, UrlAlive, confVars, DeliveredFits, LiveIsCounted, StackIsParsing
  <2>5. StackFits'
    BY <1>2, <2>1, <2>2 DEF StackFits
  <2>6. ResultIsKnown' /\ UpdateTruth'
    BY <1>2, <2>2 DEF IInv, ResultIsKnown, UpdateTruth, callVars
  <2>. QED BY <2>3, <2>4, <2>5, <2>6 DEF IInv
<1>3. CASE /\ pc' = "parse" /\ live' = 1 /\ heap' = heap \cup {"json"}
           /\ \/ \E n \in 0..MaxItems["workflow"] : stack' = <<List("workflow", n)>>
              \/ stack' = <<Object("workflow")>>
           /\ UNCHANGED <<confVars, callVars, parts, applied, raised, delivered, result>>
  <2>1. ASSUME NEW n \in 0..MaxItems["workflow"], stack' = <<List("workflow", n)>>
        PROVE  IInv'
    <3>1. "workflow" \in Kinds /\ n \in Nat
      BY DeploymentAssumption DEF Kinds
    <3>. QED BY <1>2, <1>3, <2>1, <3>1, NewList
  <2>2. ASSUME stack' = <<Object("workflow")>>
        PROVE  IInv'
    <3>1. "workflow" \in ObjectKinds
      BY DEF ObjectKinds, Kinds
    <3>. QED BY <1>2, <1>3, <2>2, <3>1, NewObject
  <2>. QED BY <1>3, <2>1, <2>2
<1>. QED BY <1>1, <1>3 DEF Parse

\* The rest of such an object is left out: what it has so far is what it has.
LEMMA EndsEarlyStep ==
    ASSUME IInv, pc = "parse", pc' = "parse", raised # "OK", raised' = "OK", EndsEarly(Top),
           UNCHANGED <<confVars, callVars, parts, heap, applied, live, delivered, result>>,
           stack' = Append(Front(stack), [Top EXCEPT !.size = Top.next - 1])
    PROVE  IInv'
<1> DEFINE d == Top.next - 1
           g == [Top EXCEPT !.size = d]
<1>1. Top \in Frame /\ FrameFits(Top) /\ Top.next <= Top.size /\ live \in Nat
  BY TopFacts DEF IInv, StackFits
<1>2. d \in Nat /\ Top.next \in Nat /\ Top.size \in Nat /\ Top.next >= 1 /\ d + 1 = Top.next /\ d <= Top.size
      /\ Top.cells \in Nat
  BY <1>1 DEF Frame, FrameFits
<1>3. Top.kind \in {"model", "modelState", "transition", "stateGroup"}
  BY DEF EndsEarly
<1> HIDE DEF d
<1>4. /\ g \in Frame /\ g.kind = Top.kind /\ g.of = Top.of /\ g.next = Top.next /\ g.size = d
      /\ g.whole = Top.whole /\ g.cells = Top.cells
  BY <1>1, <1>2 DEF Frame
<1>5. stack' = Append(Front(stack), g) /\ live' = live + 0 /\ g.cells = Top.cells + 0
  BY <1>1, <1>2, <1>4 DEF d
<1> HIDE DEF g
<1>6. FrameFits(g)
  <2>1. ~IsList(Top) /\ ~IsList(g) /\ g.kind \in ObjectKinds
    BY <1>3, <1>4 DEF IsList, ObjectKinds, Kinds
  <2>2. Len(Fields(Top.kind)) \in Nat /\ Top.size <= Len(Fields(Top.kind))
    BY <1>1, <1>4, <2>1, FieldsAreNames DEF FrameFits
  <2>3. g.size <= Len(Fields(g.kind))
    <3> DEFINE m == Len(Fields(Top.kind))
    <3>1. m \in Nat /\ Top.size <= m /\ g.size = d /\ Len(Fields(g.kind)) = m
      BY <1>4, <2>2
    <3> HIDE DEF m
    <3>. QED BY <1>2, <3>1
  <2>4. g.next \in 1..(g.size + 1)
    BY <1>2, <1>4
  <2>. QED BY <1>1, <1>3, <1>4, <2>1, <2>3, <2>4 DEF FrameFits
<1>. QED BY <1>4, <1>5, <1>6, ReplaceTop

\* A workflow goes on without its history or its model.
LEMMA SkipStep ==
    ASSUME IInv, pc = "parse", pc' = "parse", raised # "OK", raised' = "OK", Skips(Top),
           UNCHANGED <<confVars, callVars, parts, heap, applied, live, delivered, result>>,
           stack' = Append(Front(stack), [Top EXCEPT !.next = @ + 1])
    PROVE  IInv'
<1> DEFINE d == Top.next + 1
           g == [Top EXCEPT !.next = d]
<1>1. Top \in Frame /\ FrameFits(Top) /\ Top.next <= Top.size /\ live \in Nat
  BY TopFacts DEF IInv, StackFits
<1>2. Top.kind = "workflow" /\ Field(Top) \in {"history", "model"}
  BY DEF Skips
<1>3. d \in Nat /\ Top.next \in Nat /\ Top.size \in Nat /\ Top.next >= 1 /\ Top.cells \in Nat
      /\ d - 1 = Top.next
  BY <1>1 DEF Frame, FrameFits
<1>4. stack' = Append(Front(stack), g)
  BY <1>1 DEF Frame
<1> HIDE DEF d
<1>5. /\ g \in Frame /\ g.kind = Top.kind /\ g.of = Top.of /\ g.next = d /\ g.size = Top.size
      /\ g.whole = Top.whole /\ g.cells = Top.cells /\ g.has = Top.has
  BY <1>1, <1>3 DEF Frame
<1>6. live' = live + 0 /\ g.cells = Top.cells + 0
  BY <1>1, <1>3, <1>5
<1> HIDE DEF g
<1>7. FrameFits(g)
  <2>1. g.next \in 1..(g.size + 1)
    BY <1>1, <1>3, <1>5 DEF d
  <2>2. \A i \in 1..(Top.next - 1) : WorkflowFields[i] \in Top.has \cup {"history", "model"}
    BY <1>1, <1>2 DEF FrameFits
  <2>3. WorkflowFields[Top.next] \in {"history", "model"}
    BY <1>2 DEF Field, Fields
  <2>4. \A i \in 1..(g.next - 1) : i \in 1..(Top.next - 1) \/ i = Top.next
    BY <1>3, <1>5
  <2>5. \A i \in 1..(g.next - 1) : WorkflowFields[i] \in g.has \cup {"history", "model"}
    BY <1>5, <2>2, <2>3, <2>4
  <2>. QED BY <1>1, <1>2, <1>5, <2>1, <2>5 DEF FrameFits, IsList
<1>. QED BY <1>4, <1>5, <1>6, <1>7, ReplaceTop

\* The last parser gives up: the call reports the error, and nothing is left of the answer.
LEMMA GiveUpStep ==
    ASSUME IInv, pc = "parse", raised # "OK", Len(stack) = 1, live' = live - Top.cells, stack' = <<>>,
           raised' = "OK", pc' = "done", result' = raised, heap' = {"token"},
           UNCHANGED <<confVars, callVars, parts, applied, delivered>>
    PROVE  IInv'
<1>1. /\ stack \in Seq(Frame) /\ Top = stack[1] /\ Top \in Frame /\ live \in Nat /\ IsTotal(stack, live)
      /\ delivered = Nothing
  BY TopFacts DEF IInv, StackIsParsing
<1>2. stack = <<Top>>
  <2>1. <<Top>> \in Seq(Frame) /\ Len(<<Top>>) = 1 /\ <<Top>>[1] = Top
    BY <1>1
  <2>. QED BY <1>1, <2>1, SeqEqual
<1>3. live' = 0
  <2>1. live = Top.cells
    BY <1>1, <1>2, TotalOfOne
  <2>. QED BY <1>1, <2>1
<1>4. TypeOK'
  <2>1. live' \in Nat /\ stack' \in Seq(Frame) /\ heap' \subseteq {"token"}
    BY <1>3
  <2>2. TypeOK
    BY DEF IInv
  <2>. QED BY <1>1, <2>1, <2>2 DEF TypeOK, confVars, callVars
<1>5. UrlsAlive' /\ StackIsParsing' /\ DeliveredFits' /\ LiveIsCounted'
  BY <1>1, <1>3 DEF IInv, UrlsAlive, UrlAlive, confVars, StackIsParsing, DeliveredFits, LiveIsCounted
<1>6. StackFits'
  <2>1. Len(stack') = 0
    OBVIOUS
  <2>. QED BY <2>1 DEF StackFits
<1>7. ResultIsKnown' /\ UpdateTruth'
  <2>1. raised \in {"TRIGGERED_WITH_NULL", "NON_EXISTING_CHILD", "OUT_OF_MEMORY", "TYPE_MISMATCH"}
    BY DEF IInv, TypeOK
  <2>. QED BY <2>1 DEF IInv, ResultIsKnown, UpdateTruth, callVars
<1>. QED BY <1>4, <1>5, <1>6, <1>7 DEF IInv

\* An error on its way up.
LEMMA UnwindStep ==
    ASSUME IInv, Unwind
    PROVE  IInv'
<1>1. pc = "parse" /\ raised # "OK" /\ UNCHANGED <<confVars, callVars, parts, applied>>
      /\ Len(stack) \in Nat \ {0}
  BY TopFacts DEF Unwind
<1>2. CASE /\ EndsEarly(Top) /\ stack' = Append(Front(stack), [Top EXCEPT !.size = Top.next - 1])
           /\ raised' = "OK" /\ UNCHANGED <<pc, heap, live, delivered, result>>
  BY <1>1, <1>2, EndsEarlyStep
<1>3. CASE /\ Skips(Top) /\ stack' = Append(Front(stack), [Top EXCEPT !.next = @ + 1])
           /\ raised' = "OK" /\ UNCHANGED <<pc, heap, live, delivered, result>>
  BY <1>1, <1>3, SkipStep
<1>4. CASE /\ live' = live - Freed(Top) /\ Len(stack) > 1 /\ stack' = Front(stack)
           /\ UNCHANGED <<pc, heap, raised, delivered, result>>
  <2>1. raised' \in {"OK", "TRIGGERED_WITH_NULL", "NON_EXISTING_CHILD", "OUT_OF_MEMORY", "TYPE_MISMATCH"}
    BY <1>4 DEF IInv, TypeOK
  <2>. QED BY <1>1, <1>4, <2>1, PopStep DEF Freed
<1>5. CASE /\ live' = live - Freed(Top) /\ ~(Len(stack) > 1) /\ stack' = <<>> /\ raised' = "OK"
           /\ pc' = "done" /\ result' = raised /\ heap' = {"token"} /\ UNCHANGED delivered
  <2> DEFINE k == Len(stack)
  <2>1. k \in Nat \ {0} /\ ~(k > 1)
    BY <1>1, <1>5
  <2> HIDE DEF k
  <2>2. k = 1
    BY <2>1
  <2>. QED BY <1>1, <1>5, <2>2, GiveUpStep DEF Freed, k
<1>. QED BY <1>2, <1>3, <1>4, <1>5 DEF Unwind

\* The caller gets the workflow, or the list of them.
LEMMA DeliverStep ==
    ASSUME IInv, Deliver
    PROVE  IInv'
<1>1. /\ pc = "parse" /\ raised = "OK" /\ Len(stack) = 1 /\ Top.next > Top.size
      /\ delivered' = Top /\ stack' = <<>> /\ pc' = "done" /\ result' = "OK" /\ heap' = {"token"}
      /\ UNCHANGED <<confVars, callVars, parts, applied, raised, live>>
  BY DEF Deliver
<1>2. /\ stack \in Seq(Frame) /\ Top = stack[1] /\ Top \in Frame /\ live \in Nat /\ IsTotal(stack, live)
      /\ FrameFits(Top) /\ Top.kind \in {"workflow", "list"}
  BY <1>1, TopFacts DEF IInv, StackIsParsing
<1>3. stack = <<Top>>
  <2>1. <<Top>> \in Seq(Frame) /\ Len(<<Top>>) = 1 /\ <<Top>>[1] = Top
    BY <1>2
  <2>. QED BY <1>1, <1>2, <2>1, SeqEqual
<1>4. live = Top.cells
  BY <1>2, <1>3, TotalOfOne
<1>5. Top # Nothing
  BY <1>2, FrameAssumption
<1>6. TypeOK'
  <2>1. delivered' \in Frame \cup {Nothing} /\ stack' \in Seq(Frame)
    BY <1>1, <1>2
  <2>2. TypeOK
    BY DEF IInv
  <2>. QED BY <1>1, <2>1, <2>2 DEF TypeOK, confVars, callVars
<1>7. UrlsAlive' /\ StackIsParsing' /\ LiveIsCounted'
  BY <1>1, <1>4, <1>5 DEF IInv, UrlsAlive, UrlAlive, confVars, StackIsParsing, LiveIsCounted
<1>8. DeliveredFits'
  <2>1. Top.whole
    BY <1>2 DEF FrameFits
  <2>2. ASSUME Top.kind = "workflow"
        PROVE  Required \subseteq Top.has
    <3>1. /\ Top.size = 7 /\ Top.next \in 1..(Top.size + 1)
          /\ \A i \in 1..(Top.next - 1) : WorkflowFields[i] \in Top.has \cup {"history", "model"}
      BY <1>2, <2>2 DEF FrameFits
    <3>2. Top.next - 1 = 7
      BY <1>1, <3>1
    <3>3. \A i \in 1..7 : WorkflowFields[i] \in Top.has \cup {"history", "model"}
      BY <3>1, <3>2
    <3>4. /\ WorkflowFields[1] = "id" /\ WorkflowFields[2] = "deviceId" /\ WorkflowFields[3] = "createdAt"
          /\ WorkflowFields[4] = "currentState" /\ WorkflowFields[7] = "data"
      BY DEF WorkflowFields
    <3>5. {WorkflowFields[1], WorkflowFields[2], WorkflowFields[3], WorkflowFields[4], WorkflowFields[7]}
              \subseteq Top.has \cup {"history", "model"}
      BY <3>3
    <3>. QED BY <3>4, <3>5 DEF Required
  <2>. QED BY <1>1, <1>2, <2>1, <2>2 DEF DeliveredFits, IsList
<1>9. StackFits'
  <2>1. Len(stack') = 0
    BY <1>1
  <2>. QED BY <1>1, <2>1 DEF StackFits
<1>10. ResultIsKnown' /\ UpdateTruth'
  BY <1>1 DEF IInv, ResultIsKnown, UpdateTruth, callVars
<1>. QED BY <1>6, <1>7, <1>8, <1>9, <1>10 DEF IInv

-----------------------------------------------------------------------------
(* The invariant, and what it shows.                                       *)

LEMMA InitHolds == Init => IInv
BY FreshState DEF Init

LEMMA RestartStep ==
    ASSUME IInv, Restart
    PROVE  IInv'
<1>1. Init'
  BY DEF Restart, Init
<1>2. Init' => IInv'
  BY InitHolds, PTL
<1>. QED BY <1>1, <1>2

LEMMA StutterStep ==
    ASSUME IInv, UNCHANGED vars
    PROVE  IInv'
BY DEF IInv, TypeOK, UrlsAlive, UrlAlive, StackIsParsing, StackFits, Top, DeliveredFits, LiveIsCounted,
   ResultIsKnown, UpdateTruth, vars, confVars, callVars, parseVars

LEMMA StepHolds == IInv /\ [Next]_vars => IInv'
<1> SUFFICES ASSUME IInv, [Next]_vars
             PROVE  IInv'
  OBVIOUS
<1>1. CASE SetCore \/ Initialize \/ Destroy \/ DestroyConfiguration
  BY <1>1, IdleStep
<1>2. CASE Begin
  BY <1>2, BeginStep
<1>3. CASE GetToken
  BY <1>3, FinishedStep, GetTokenStep DEF GetToken
<1>4. CASE Compose
  BY <1>4, FinishedStep, ComposeStep DEF Compose
<1>5. CASE Send
  BY <1>5, SendStep
<1>6. CASE Parse
  BY <1>6, ParseStep
<1>7. CASE ParseScalar
  BY <1>7, ParseScalarStep
<1>8. CASE EnterField
  BY <1>8, EnterFieldStep
<1>9. CASE EnterItem
  BY <1>9, EnterItemStep
<1>10. CASE Leave
  BY <1>10, LeaveStep
<1>11. CASE Unwind
  BY <1>11, UnwindStep
<1>12. CASE Deliver
  BY <1>12, DeliverStep
<1>13. CASE Finish
  BY <1>13, FinishStep
<1>14. CASE Restart
  BY <1>14, RestartStep
<1>15. CASE UNCHANGED vars
  BY <1>15, StutterStep
<1>. QED
  BY <1>1, <1>2, <1>3, <1>4, <1>5, <1>6, <1>7, <1>8, <1>9, <1>10, <1>11, <1>12, <1>13, <1>14, <1>15
  DEF Next

\* The invariant holds in every state: calls, parsers and configurations in any order.
THEOREM Invariance == Spec => []IInv
<1>1. Init => IInv
  BY InitHolds
<1>2. IInv /\ [Next]_vars => IInv'
  BY StepHolds
<1>. QED BY <1>1, <1>2, PTL DEF Spec

\* The copy of the URL that a handle has is valid for as long as the handle is there,
\* whatever core the configuration is given meanwhile
\* (mcl_deployment_configuration_set_parameter, mcl_deployment_destroy).
THEOREM UrlStaysAlive == Spec => []UrlAlive
<1>1. IInv => UrlAlive
  BY DEF IInv, UrlsAlive
<1>. QED BY <1>1, Invariance, PTL

\* Wherever the parsing of an answer breaks off, and however long its lists are, all that
\* was allocated for it is freed once (the destroy functions of deployment_object.c).
THEOREM FreesItsMemory == Spec => []NothingLost
<1>1. IInv => NothingLost
  BY DEF IInv, StackIsParsing, LiveIsCounted, ResultIsKnown, NothingLost
<1>. QED BY <1>1, Invariance, PTL

\* What a call reports with success is so: a workflow has what its users rely on, an
\* update was applied (_parse_workflow, deployment_processor_update_workflow).
THEOREM SuccessTellsTheTruth == Spec => []SuccessIsTrue
<1>1. IInv => SuccessIsTrue
  BY DEF IInv, DeliveredFits, SuccessIsTrue, Complete
<1>. QED BY <1>1, Invariance, PTL

\* The terms of the two sums, for one parameter.
LEMMA TermFits ==
    ASSUME NEW key \in Nat, NEW overhead \in Nat, NEW value \in Nat, overhead = key + 2
    PROVE  Written(key, value) = Counted(overhead, value)
BY DEF Written, Counted

\* The string that is written needs one character more than was counted, and this is
\* the ampersand that ends it.
LEMMA QueryIsCounted ==
    ASSUME NEW f \in FilterRecord
    PROVE  QueryWritten(f) = QueryLength(f) + 1
<1>1. /\ f.model \in BOOLEAN /\ f.history \in BOOLEAN /\ f.currentState \in Nat
      /\ f.deviceId \in Nat /\ f.group \in Nat /\ f.modelKey \in Nat
  BY DEF FilterRecord
<1>2. /\ Overheads[1] = 11 /\ Overheads[2] = 13 /\ Overheads[3] = 14 /\ Overheads[4] = 10
      /\ Overheads[5] = 7 /\ Overheads[6] = 10
  BY DEF Overheads
<1>3. /\ Written(5, IF f.model THEN 4 ELSE 0) = IF f.model THEN 11 ELSE 0
      /\ Written(7, IF f.history THEN 4 ELSE 0) = IF f.history THEN 13 ELSE 0
  BY <1>1 DEF Written
<1>4. /\ Written(12, f.currentState) = Counted(14, f.currentState)
      /\ Written(8, f.deviceId) = Counted(10, f.deviceId)
      /\ Written(5, f.group) = Counted(7, f.group)
      /\ Written(8, f.modelKey) = Counted(10, f.modelKey)
  BY <1>1, TermFits
<1>5. /\ Counted(14, f.currentState) \in Nat /\ Counted(10, f.deviceId) \in Nat
      /\ Counted(7, f.group) \in Nat /\ Counted(10, f.modelKey) \in Nat
  BY <1>1 DEF Counted
<1>. QED BY <1>2, <1>3, <1>4, <1>5 DEF QueryWritten, QueryLength, Parameters

\* The buffer of the query string holds what is written, whatever the filter and whichever
\* of its parts a call sends (_calculate_query_string_length, _add_query_parameter).
THEOREM QueryIsInBounds == Spec => []QueryFits
<1>1. IInv => QueryFits
  <2> SUFFICES ASSUME IInv, filter # Nothing
               PROVE  QueryWritten(Query) = QueryLength(Query) + 1
    BY DEF QueryFits
  <2>1. filter \in FilterRecord
    BY DeploymentAssumption DEF IInv, TypeOK
  <2>2. [filter EXCEPT !.currentState = 0, !.deviceId = 0, !.group = 0, !.modelKey = 0] \in FilterRecord
    BY <2>1 DEF FilterRecord
  <2>3. Query \in FilterRecord
    BY <2>1, <2>2 DEF Query
  <2>. QED BY <2>3, QueryIsCounted
<1>. QED BY <1>1, Invariance, PTL

=============================================================================
