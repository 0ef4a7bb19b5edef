-------------------------- MODULE InstallLog_proofs --------------------------
(***************************************************************************)
(* What the page of a server shows of a SteamCMD run, for any number of    *)
(* lines, any size of chunks and of pages, any number of polls that        *)
(* overlap, of posts that fail and of streams that break.                  *)
(***************************************************************************)
EXTENDS InstallLog, Integers, TLAPS, FiniteSetTheorems, SequenceTheorems,
        WellFoundedInduction

(* How far the pass has been posted, and the lines that have been.         *)
PostedTo == IF slice # Empty THEN slice.lo
         ELSE IF pass = 1 THEN postedIdx ELSE written
Sent(x) == x[1] < pass \/ (x[1] = pass /\ x[2] <= PostedTo)

Posts == [pass : {1, 2}, lo : Nat, to : Nat, id : Nat, awaited : BOOLEAN]

(* The agent: it posts what it has written, and the second pass follows    *)
(* a run that has ended with every line posted.                            *)
LogTyped ==
    /\ overWs \in BOOLEAN /\ steam \in {"running", "closed", "ended"}
    /\ written \in Nat /\ postedIdx \in Nat /\ postedIdx <= written
    /\ pass \in {1, 2}
    /\ slice = [lo |-> slice.lo, hi |-> slice.hi]
    /\ slice.lo \in Nat /\ slice.hi \in Nat
    /\ slice # Empty => /\ slice.lo < slice.hi
                        /\ slice.hi = IF pass = 1 THEN postedIdx ELSE written
    /\ pass = 2 => steam = "ended" /\ postedIdx = written

(* A post carries a line at least.                                         *)
TableTyped ==
    /\ posts \subseteq Posts /\ rows \in Seq(Nat \X Nat)
    /\ \A p \in posts : p.lo < p.to

(* Posts share no line and no row, and their rows are not seen yet.        *)
PostsInv ==
    /\ \A p \in posts : Sent(<<p.pass, p.to>>)
    /\ \A p \in posts : p.id # 0 => IdsOf(p) \subseteq DOMAIN rows \ Visible
    /\ \A p \in posts : \A q \in posts \ {p} :
          /\ LinesOf(p) \cap LinesOf(q) = {}
          /\ p.id # 0 /\ q.id # 0 => IdsOf(p) \cap IdsOf(q) = {}

(* A line is in one row, and not on its way any more.                      *)
RowsInv ==
    /\ \A i \in Visible :
          Sent(rows[i]) /\ \A p \in posts : rows[i] \notin LinesOf(p)
    /\ \A i, j \in Visible : rows[i] = rows[j] => i = j

(* As long as each post was over before the next, there is one at a time.  *)
OrderInv ==
    /\ \A p, q \in posts : p = q
    /\ \A i, j \in Visible : i < j => Before(rows[i], rows[j])
    /\ \A i \in Visible, p \in posts :
          /\ \A x \in LinesOf(p) : Before(rows[i], x)
          /\ p.id # 0 => i < p.id
    /\ \A x \in Lines : Sent(x) /\ x[2] <= written =>
          \/ x \in lost \/ \E p \in posts : x \in LinesOf(p)
          \/ \E i \in Visible : rows[i] = x

(* The page, its stream and the polls know only rows that are seen; no     *)
(* row is on the page twice, and the page knows the largest it has.        *)
PageInv ==
    /\ stream \in [open : BOOLEAN, after : Nat] /\ lastLogId \in Nat
    /\ reads \in [LogPolls -> SUBSET Nat] /\ shown \in Seq(SUBSET Nat)
    /\ OnPage \subseteq Visible
    /\ \A j, k \in DOMAIN shown : j # k => shown[j] \cap shown[k] = {}
    /\ \A q \in LogPolls : reads[q] \subseteq Visible
    /\ \A i \in OnPage : i <= lastLogId
    /\ lastLogId = 0 \/ lastLogId \in OnPage

(* Then ids come in order too, so the page has every row up to the         *)
(* largest it knows, and a poll leaves no gap behind what it has read.     *)
PageOrderInv ==
    /\ \A i \in Visible : i <= lastLogId => i \in OnPage
    /\ stream.open => stream.after <= lastLogId
    /\ \A q \in LogPolls : \A m \in reads[q], i \in Visible :
          i < m => i \in reads[q] \/ i <= lastLogId
    /\ \A j, k \in DOMAIN shown : \A a \in shown[j], b \in shown[k] :
          j < k => a < b

(* Over REST, while no call has failed, every post is waited for.          *)
AwaitInv ==
    /\ overtaken \in BOOLEAN /\ logFaults \in Nat
    /\ overtaken => overWs \/ logFaults > 0
    /\ \A p \in posts : p.awaited \/ overWs \/ logFaults > 0

TableInv ==
    LogTyped /\ TableTyped /\ PostsInv /\ RowsInv /\ (~overtaken => OrderInv)

LogInv == TableInv /\ AwaitInv /\ PageInv /\ (~overtaken => PageOrderInv)

(* In the beginning nothing is written, posted or shown.                   *)
LEMMA LogBegins == InstallLogInit => LogInv
  <1> SUFFICES ASSUME InstallLogInit PROVE LogInv
    OBVIOUS
  <1>1. /\ posts = {} /\ rows = <<>> /\ pass = 1 /\ written = 0
        /\ slice = [lo |-> 0, hi |-> 0] /\ postedIdx = 0 /\ shown = <<>>
        /\ lastLogId = 0 /\ reads = [q \in LogPolls |-> {}]
        /\ stream = [open |-> FALSE, after |-> 0]
        /\ overWs \in BOOLEAN /\ steam = "running"
        /\ overtaken = FALSE /\ logFaults = 0
    BY DEF InstallLogInit, Empty
  <1>2. Visible = {} /\ OnPage = {}
    BY <1>1 DEF Visible, OnPage
  <1>3. LogTyped /\ TableTyped
    BY <1>1 DEF LogTyped, TableTyped, Empty
  <1>4. PostsInv /\ RowsInv
    BY <1>1, <1>2 DEF PostsInv, RowsInv
  <1>5. \A x \in Lines : ~Sent(x)
    BY <1>1 DEF Lines, Sent, PostedTo, Empty
  <1>6. OrderInv
    BY <1>1, <1>2, <1>5 DEF OrderInv
  <1>7. PageInv /\ PageOrderInv
    BY <1>1, <1>2 DEF PageInv, PageOrderInv
  <1>8. AwaitInv
    BY <1>1 DEF AwaitInv
  <1> QED BY <1>3, <1>4, <1>6, <1>7, <1>8 DEF LogInv, TableInv

(* The largest of a set of ids.                                            *)
LEMMA LargestIsLast ==
    ASSUME NEW S, S \subseteq Nat, S # {}, NEW n \in Nat, \A i \in S : i <= n
    PROVE  Largest(S) \in S /\ \A j \in S : j <= Largest(S)
  <1> DEFINE T == {k \in Nat : n - k \in S}
  <1>1. T # {} /\ T \subseteq Nat
    <2>1. PICK i : i \in S
      OBVIOUS
    <2>2. n - i \in Nat /\ n - (n - i) = i
      BY <2>1
    <2> QED BY <2>1, <2>2
  <1> HIDE DEF T
  <1>2. PICK m \in T : \A k \in T : ~(<<k, m>> \in OpToRel(<, Nat))
    BY <1>1, NatLessThanWellFounded, WFMin
  <1>3. \A k \in T : ~(k < m)
    <2>1. ASSUME NEW k \in T, k < m PROVE FALSE
      <3>1. <<k, m>> \in Nat \X Nat /\ <<k, m>>[1] < <<k, m>>[2]
        BY <1>1, <2>1
      <3>2. <<k, m>> \in OpToRel(<, Nat)
        BY <3>1 DEF OpToRel
      <3> QED BY <1>2, <2>1, <3>2
    <2> QED BY <2>1
  <1>4. n - m \in S /\ m \in Nat
    BY <1>2 DEF T
  <1>5. \A j \in S : j <= n - m
    <2> SUFFICES ASSUME NEW j \in S PROVE j <= n - m
      OBVIOUS
    <2>1. n - j \in Nat /\ n - (n - j) = j
      OBVIOUS
    <2>2. n - j \in T
      BY <2>1 DEF T
    <2>3. ~(n - j < m)
      BY <1>3, <2>2
    <2> QED BY <1>4, <2>1, <2>3
  <1> QED BY <1>4, <1>5 DEF Largest

-----------------------------------------------------------------------------
(***************************************************************************)
(* The agent and the table.                                                *)
(***************************************************************************)
LEMMA PostPlaces ==
    TableTyped => \A p \in posts : <<p.pass, p.to>> \in Nat \X Nat
  <1> SUFFICES ASSUME TableTyped, NEW p \in posts
               PROVE  <<p.pass, p.to>> \in Nat \X Nat
    OBVIOUS
  <1>1. p \in Posts
    BY DEF TableTyped
  <1>2. p.pass \in {1, 2} /\ p.to \in Nat
    BY <1>1 DEF Posts
  <1> QED BY <1>2

(* The agent's own steps: they change what counts as sent no more than the *)
(* posts say.                                                              *)
LEMMA AgentMoves ==
    ASSUME TableInv, LogTyped',
           UNCHANGED <<overtaken, posts, rows, lost>>,
           \A x \in Nat \X Nat : Sent(x) => Sent(x)',
           \A x \in Lines : Sent(x)' /\ x[2] <= written'
                               => Sent(x) /\ x[2] <= written
    PROVE  TableInv'
  <1>1. Visible' = Visible /\ Visible \subseteq DOMAIN rows
        /\ \A i \in DOMAIN rows : rows[i] \in Nat \X Nat
    BY DEF Visible, TableInv, TableTyped
  <1>2. \A p \in posts : LinesOf(p)' = LinesOf(p) /\ IdsOf(p)' = IdsOf(p)
    BY DEF LinesOf, IdsOf
  <1>3. TableTyped'
    BY DEF TableInv, TableTyped
  <1>4. PostsInv'
    <2>1. \A p \in posts : <<p.pass, p.to>> \in Nat \X Nat
      BY PostPlaces DEF TableInv
    <2>2. \A p \in posts : Sent(<<p.pass, p.to>>)'
      BY <2>1 DEF TableInv, PostsInv
    <2> QED BY <1>1, <1>2, <2>2 DEF TableInv, PostsInv
  <1>5. RowsInv'
    BY <1>1, <1>2 DEF TableInv, RowsInv
  <1>6. ~overtaken' => OrderInv'
    BY <1>1, <1>2 DEF TableInv, OrderInv
  <1> QED BY <1>3, <1>4, <1>5, <1>6 DEF TableInv

(* A line is its pass and its place in it.                                 *)
LEMMA LinesArePairs ==
    \A x \in Lines : x \in Nat \X Nat /\ x[1] \in {1, 2} /\ x[2] >= 1
  BY DEF Lines

(* A line is written, a flush begins, or the run ends.                     *)
LEMMA AgentKeepsTable ==
    ASSUME TableInv, AppendLine \/ FlushNow \/ Exit PROVE TableInv'
  <1>0. LogTyped
    BY DEF TableInv
  <1>1. UNCHANGED <<overtaken, posts, rows, lost>>
    BY DEF AppendLine, FlushNow, Exit
  <1>2. CASE AppendLine
    <2>1. /\ steam = "running" /\ written' = written + 1
          /\ steam' \in {"running", "closed"}
          /\ UNCHANGED <<overWs, postedIdx, pass, slice>>
      BY <1>2 DEF AppendLine
    <2>2. pass = 1
      BY <1>0, <2>1 DEF LogTyped
    <2>3. PostedTo' = PostedTo /\ PostedTo <= written
      BY <1>0, <2>1, <2>2 DEF LogTyped, PostedTo
    <2>4. LogTyped'
      BY <1>0, <2>1, <2>2 DEF LogTyped
    <2>5. \A x \in Nat \X Nat : Sent(x) => Sent(x)'
      BY <2>1, <2>3 DEF Sent
    <2>6. \A x \in Lines : Sent(x)' /\ x[2] <= written'
                              => Sent(x) /\ x[2] <= written
      <3> SUFFICES ASSUME NEW x \in Lines, Sent(x)'
                   PROVE  Sent(x) /\ x[2] <= written
        OBVIOUS
      <3>1. x[1] = 1 /\ x[2] <= PostedTo /\ x[2] \in Nat
        BY <2>1, <2>2, <2>3, LinesArePairs DEF Sent
      <3>2. PostedTo \in Nat /\ written \in Nat
        BY <1>0 DEF PostedTo, LogTyped
      <3> QED BY <2>2, <2>3, <3>1, <3>2 DEF Sent
    <2> QED BY <1>1, <2>4, <2>5, <2>6, AgentMoves
  <1>3. CASE FlushNow
    <2>1. /\ pass = 1 /\ slice = Empty /\ postedIdx < written
          /\ slice' = [lo |-> postedIdx, hi |-> written]
          /\ postedIdx' = written
          /\ UNCHANGED <<overWs, steam, written, pass>>
      BY <1>3 DEF FlushNow
    <2>2. slice' # Empty /\ slice'.lo = postedIdx /\ slice'.hi = written
      BY <1>0, <2>1 DEF LogTyped, Empty
    <2>3. PostedTo' = PostedTo
      BY <2>1, <2>2 DEF PostedTo
    <2>4. LogTyped'
      BY <1>0, <2>1, <2>2 DEF LogTyped
    <2>5. \A x \in Nat \X Nat : Sent(x) => Sent(x)'
      BY <2>1, <2>3 DEF Sent
    <2>6. \A x \in Lines : Sent(x)' /\ x[2] <= written'
                              => Sent(x) /\ x[2] <= written
      BY <2>1, <2>3 DEF Sent
    <2> QED BY <1>1, <2>4, <2>5, <2>6, AgentMoves
  <1>4. CASE Exit
    <2>1. /\ steam = "closed" /\ slice = Empty /\ postedIdx = written
          /\ steam' = "ended" /\ UNCHANGED <<overWs, written, postedIdx>>
      BY <1>4 DEF Exit
    <2>2. pass = 1 /\ PostedTo = written
      BY <1>0, <2>1 DEF LogTyped, PostedTo
    <2>3. CASE UNCHANGED <<pass, slice>>
      <3>1. PostedTo' = PostedTo
        BY <2>1, <2>3 DEF PostedTo
      <3>2. LogTyped'
        BY <1>0, <2>1, <2>3 DEF LogTyped
      <3>3. \A x \in Nat \X Nat : Sent(x) => Sent(x)'
        BY <2>3, <3>1 DEF Sent
      <3>4. \A x \in Lines : Sent(x)' /\ x[2] <= written'
                                => Sent(x) /\ x[2] <= written
        BY <2>1, <2>3, <3>1 DEF Sent
      <3> QED BY <1>1, <3>2, <3>3, <3>4, AgentMoves
    <2>4. CASE pass' = 2 /\ slice' = [lo |-> 0, hi |-> written]
      <3>1. slice' # Empty => 0 < written
        BY <1>0, <2>4 DEF LogTyped, Empty
      <3>2. LogTyped'
        BY <1>0, <2>1, <2>4, <3>1 DEF LogTyped
      <3>3. PostedTo' = 0
        BY <2>1, <2>4, <3>1 DEF PostedTo, Empty
      <3>4. \A x \in Nat \X Nat : Sent(x) => Sent(x)'
        BY <2>2, <2>4 DEF Sent
      <3>5. \A x \in Lines : Sent(x)' /\ x[2] <= written'
                                => Sent(x) /\ x[2] <= written
        <4> SUFFICES ASSUME NEW x \in Lines, Sent(x)', x[2] <= written
                     PROVE  Sent(x)
          BY <2>1
        <4>1. x[1] = 1
          BY <2>4, <3>3, LinesArePairs DEF Sent
        <4> QED BY <2>2, <4>1 DEF Sent
      <3> QED BY <1>1, <3>2, <3>4, <3>5, AgentMoves
    <2> QED BY <1>4, <2>3, <2>4 DEF Exit
  <1> QED BY <1>2, <1>3, <1>4

(* A chunk takes the lines from the front on.                              *)
LEMMA PostChunkKeepsTable ==
    ASSUME TableInv, PostChunk PROVE TableInv'
  <1> DEFINE to == IF slice.lo + Chunk < slice.hi THEN slice.lo + Chunk
                   ELSE slice.hi
             chunk == [pass |-> pass, lo |-> slice.lo, to |-> to, id |-> 0,
                       awaited |-> ~overWs]
  <1>p. PICK p : p = chunk
    OBVIOUS
  <1>0. LogTyped /\ TableTyped /\ PostsInv /\ RowsInv /\ (~overtaken => OrderInv)
    BY DEF TableInv
  <1>1. /\ slice # Empty /\ \A q \in posts : ~q.awaited
        /\ posts' = posts \cup {p}
        /\ slice' = IF to = slice.hi THEN Empty ELSE [slice EXCEPT !.lo = to]
        /\ overtaken' = (overtaken \/ posts # {})
        /\ UNCHANGED <<overWs, steam, written, postedIdx, pass, rows, lost>>
    BY <1>p DEF PostChunk
  <1>2. /\ to \in Nat /\ slice.lo < to /\ to <= slice.hi /\ slice.lo \in Nat
        /\ slice.hi \in Nat
    BY <1>0, <1>1, InstallLogAssumption DEF LogTyped
  <1>3. /\ p \in Posts /\ p.pass = pass /\ p.lo = slice.lo /\ p.to = to
        /\ p.id = 0 /\ p.awaited = ~overWs
    BY <1>0, <1>2, <1>p DEF Posts, LogTyped
  <1> HIDE DEF chunk, to
  <1>4. PostedTo = slice.lo /\ PostedTo' = to
    <2>1. PostedTo = slice.lo
      BY <1>1 DEF PostedTo
    <2>2. CASE to = slice.hi
      <3>1. slice' = Empty
        BY <1>1, <2>2
      <3> QED BY <1>0, <1>1, <2>1, <2>2, <3>1 DEF PostedTo, LogTyped
    <2>3. CASE to # slice.hi
      <3>1. slice' = [lo |-> to, hi |-> slice.hi]
        BY <1>0, <1>1, <2>3 DEF LogTyped
      <3>2. slice' # Empty /\ slice'.lo = to
        BY <1>2, <3>1 DEF Empty
      <3> QED BY <2>1, <3>2 DEF PostedTo
    <2> QED BY <2>2, <2>3
  <1>5. LogTyped'
    <2>1. CASE to = slice.hi
      <3>1. slice' = [lo |-> 0, hi |-> 0]
        BY <1>1, <2>1 DEF Empty
      <3> QED BY <1>0, <1>1, <3>1 DEF LogTyped, Empty
    <2>2. CASE to # slice.hi
      <3>1. slice' = [lo |-> to, hi |-> slice.hi]
        BY <1>0, <1>1, <2>2 DEF LogTyped
      <3> QED BY <1>0, <1>1, <1>2, <2>2, <3>1 DEF LogTyped
    <2> QED BY <2>1, <2>2
  <1>6. TableTyped'
    BY <1>0, <1>1, <1>2, <1>3 DEF TableTyped
  <1>7. \A x \in Nat \X Nat : Sent(x)' <=> Sent(x) \/ x \in LinesOf(p)
                                \/ (x[1] = pass /\ x[2] <= slice.lo)
    <2> SUFFICES ASSUME NEW x \in Nat \X Nat
                 PROVE  Sent(x)' <=> Sent(x) \/ x \in LinesOf(p)
                                      \/ (x[1] = pass /\ x[2] <= slice.lo)
      OBVIOUS
    <2>1. x \in LinesOf(p) <=> x[1] = pass /\ slice.lo < x[2] /\ x[2] <= to
      BY <1>2, <1>3 DEF LinesOf
    <2>2. Sent(x)' <=> x[1] < pass \/ (x[1] = pass /\ x[2] <= to)
      BY <1>1, <1>4 DEF Sent
    <2>3. Sent(x) <=> x[1] < pass \/ (x[1] = pass /\ x[2] <= slice.lo)
      BY <1>4 DEF Sent
    <2> QED BY <1>2, <2>1, <2>2, <2>3
  <1>8. \A x \in Nat \X Nat : Sent(x)' <=> Sent(x) \/ x \in LinesOf(p)
    BY <1>4, <1>7 DEF Sent
  <1>9. \A x \in LinesOf(p) : ~Sent(x) /\ x \in Nat \X Nat
    BY <1>0, <1>2, <1>3, <1>4 DEF LinesOf, Sent, LogTyped
  <1>10. /\ Visible' = Visible /\ Visible \subseteq DOMAIN rows
         /\ \A i \in DOMAIN rows : rows[i] \in Nat \X Nat
    BY <1>0, <1>1 DEF Visible, TableTyped
  <1>11. \A q : LinesOf(q)' = LinesOf(q) /\ IdsOf(q)' = IdsOf(q)
    BY DEF LinesOf, IdsOf
  <1>12. \A q \in posts : \A x \in LinesOf(q) : Sent(x)
    <2> SUFFICES ASSUME NEW q \in posts, NEW x \in LinesOf(q) PROVE Sent(x)
      OBVIOUS
    <2>1. /\ q.pass \in Nat /\ q.lo \in Nat /\ q.to \in Nat
          /\ x[1] = q.pass /\ x[2] \in Nat /\ x[2] <= q.to
      BY <1>0 DEF LinesOf, TableTyped, Posts
    <2>2. q.pass < pass \/ (q.pass = pass /\ q.to <= PostedTo)
      BY <1>0 DEF PostsInv, Sent
    <2> QED BY <1>2, <1>4, <2>1, <2>2 DEF Sent
  <1>13. PostsInv'
    <2>1. \A q \in posts' : Sent(<<q.pass, q.to>>)'
      <3>1. \A q \in posts : Sent(<<q.pass, q.to>>)'
        <4>1. \A q \in posts : <<q.pass, q.to>> \in Nat \X Nat
          BY <1>0, PostPlaces
        <4> QED BY <1>0, <1>8, <4>1 DEF PostsInv
      <3>2. Sent(<<p.pass, p.to>>)'
        BY <1>1, <1>2, <1>3, <1>4 DEF Sent
      <3> QED BY <1>1, <3>1, <3>2
    <2>2. \A q \in posts' : q.id # 0 => IdsOf(q) \subseteq DOMAIN rows \ Visible
      BY <1>0, <1>1, <1>3 DEF PostsInv
    <2>3. \A q \in posts' : \A r \in posts' \ {q} :
             /\ LinesOf(q) \cap LinesOf(r) = {}
             /\ q.id # 0 /\ r.id # 0 => IdsOf(q) \cap IdsOf(r) = {}
      BY <1>0, <1>1, <1>3, <1>9, <1>12 DEF PostsInv
    <2> QED BY <1>1, <1>10, <1>11, <2>1, <2>2, <2>3 DEF PostsInv
  <1>14. RowsInv'
    <2>1. \A i \in Visible : Sent(rows[i]) /\ rows[i] \in Nat \X Nat
      BY <1>0, <1>10 DEF RowsInv
    <2>2. \A i \in Visible : Sent(rows[i])'
      BY <1>1, <1>8, <2>1
    <2>3. \A i \in Visible : \A q \in posts' : rows[i] \notin LinesOf(q)
      BY <1>0, <1>1, <1>9, <2>1 DEF RowsInv
    <2> QED BY <1>0, <1>1, <1>10, <1>11, <2>2, <2>3 DEF RowsInv
  <1>15. ~overtaken' => OrderInv'
    <2> SUFFICES ASSUME ~overtaken' PROVE OrderInv'
      OBVIOUS
    <2>1. OrderInv
      BY <1>0, <1>1
    <2>2. posts = {} /\ posts' = {p}
      BY <1>1
    <2>3. \A q, r \in posts' : q = r
      BY <2>2
    <2>5. \A i, j \in Visible' : i < j => Before(rows'[i], rows'[j])
      BY <1>1, <1>10, <2>1 DEF OrderInv
    <2>6. \A i \in Visible' : \A q \in posts' :
             /\ \A x \in LinesOf(q) : Before(rows'[i], x)
             /\ q.id # 0 => i < q.id
      <3>1. \A i \in Visible : Sent(rows[i]) /\ rows[i] \in Nat \X Nat
        BY <1>0, <1>10 DEF RowsInv
      <3>2. \A i \in Visible : \A x \in LinesOf(p) : Before(rows[i], x)
        <4> SUFFICES ASSUME NEW i \in Visible, NEW x \in LinesOf(p)
                     PROVE  Before(rows[i], x)
          OBVIOUS
        <4>1. x[1] = pass /\ slice.lo < x[2] /\ x[2] \in Nat
          BY <1>2, <1>3 DEF LinesOf
        <4> QED BY <1>2, <1>4, <3>1, <4>1 DEF Sent, Before
      <3> QED BY <1>1, <1>3, <1>10, <2>2, <3>2
    <2>7. \A x \in Lines : Sent(x)' /\ x[2] <= written =>
             \/ x \in lost \/ \E q \in posts' : x \in LinesOf(q)
             \/ \E i \in Visible : rows[i] = x
      BY <1>8, <2>1, <2>2, LinesArePairs DEF OrderInv
    <2> QED BY <1>1, <1>10, <1>11, <2>3, <2>5, <2>6, <2>7 DEF OrderInv
  <1> QED BY <1>5, <1>6, <1>13, <1>14, <1>15 DEF TableInv

(* The rows of an insert that has not committed are there, but not seen.   *)
LEMMA InsertIsUnseen ==
    ASSUME TableTyped, NEW p \in posts, Insert(p)
    PROVE  /\ rows' \in Seq(Nat \X Nat) /\ Visible' = Visible
           /\ DOMAIN rows' = 1..(Len(rows) + (p.to - p.lo))
           /\ \A i \in DOMAIN rows : rows'[i] = rows[i]
  <1> DEFINE n == Len(rows)
             blank == [k \in 1..(p.to - p.lo) |-> NoLine]
  <1>1. n \in Nat /\ DOMAIN rows = 1..n /\ rows \in Seq(Nat \X Nat)
    BY DEF TableTyped
  <1>2. PICK m : m = p.to - p.lo
    OBVIOUS
  <1>3. m \in Nat
    BY <1>2 DEF TableTyped, Posts
  <1>4. /\ blank \in Seq(Nat \X Nat) /\ Len(blank) = m
        /\ \A k \in 1..m : blank[k] = NoLine
    BY <1>2, <1>3 DEF NoLine
  <1>5. rows' = rows \o blank
    BY DEF Insert
  <1> HIDE DEF blank, n
  <1>6. /\ rows \o blank \in Seq(Nat \X Nat)
        /\ Len(rows \o blank) = n + m
        /\ \A i \in 1..(n + m) : (rows \o blank)[i] =
              IF i <= n THEN rows[i] ELSE blank[i - n]
    BY <1>1, <1>4, ConcatProperties DEF n
  <1>7. DOMAIN rows' = 1..(n + m)
    BY <1>5, <1>6
  <1>8. \A i \in 1..n : i \in 1..(n + m) /\ rows'[i] = rows[i]
    BY <1>1, <1>3, <1>5, <1>6
  <1>9. \A i \in 1..(n + m) : i \in 1..n \/ rows'[i] = NoLine
    BY <1>1, <1>3, <1>4, <1>5, <1>6
  <1>10. Visible' = Visible
    BY <1>1, <1>7, <1>8, <1>9 DEF Visible
  <1> QED BY <1>1, <1>2, <1>5, <1>6, <1>7, <1>8, <1>10 DEF n

(* The ids of an insert come after all there are.                          *)
LEMMA InsertKeepsTable ==
    ASSUME TableInv, NEW p \in posts, Insert(p) PROVE TableInv'
  <1> DEFINE n == Len(rows)
             m == p.to - p.lo
             done == [p EXCEPT !.id = n + 1]
  <1>q. PICK q : q = done
    OBVIOUS
  <1>0. LogTyped /\ TableTyped /\ PostsInv /\ RowsInv /\ (~overtaken => OrderInv)
    BY DEF TableInv
  <1>1. /\ p.id = 0 /\ posts' = (posts \ {p}) \cup {q}
        /\ UNCHANGED <<overWs, steam, written, postedIdx, pass, slice, lost>>
        /\ overtaken' = overtaken
    BY <1>q DEF Insert, agentLog
  <1>2. n \in Nat /\ DOMAIN rows = 1..n /\ rows \in Seq(Nat \X Nat)
    BY <1>0 DEF TableTyped
  <1>3. p \in Posts /\ p.lo \in Nat /\ p.to \in Nat /\ p.lo < p.to /\ m \in Nat
    BY <1>0 DEF TableTyped, Posts
  <1>4. /\ q \in Posts /\ q.pass = p.pass /\ q.lo = p.lo /\ q.to = p.to
        /\ q.id = n + 1 /\ q.awaited = p.awaited
    <2>1. p = [pass |-> p.pass, lo |-> p.lo, to |-> p.to, id |-> p.id,
               awaited |-> p.awaited]
      BY <1>3 DEF Posts
    <2>2. q = [pass |-> p.pass, lo |-> p.lo, to |-> p.to, id |-> n + 1,
               awaited |-> p.awaited]
      BY <1>q, <2>1
    <2>3. /\ q.pass = p.pass /\ q.lo = p.lo /\ q.to = p.to
          /\ q.id = n + 1 /\ q.awaited = p.awaited
      BY <2>2
    <2> HIDE DEF n, done
    <2>4. q \in Posts
      BY <1>2, <1>3, <2>2 DEF Posts
    <2> QED BY <2>3, <2>4
  <1> HIDE DEF n, m, done
  <1>6. rows' \in Seq(Nat \X Nat) /\ DOMAIN rows' = 1..(n + m)
    BY <1>0, InsertIsUnseen DEF n, m
  <1>7. Visible' = Visible /\ Visible \subseteq 1..n
        /\ \A i \in 1..n : rows'[i] = rows[i] /\ rows[i] \in Nat \X Nat
    <2>1. Visible' = Visible /\ \A i \in DOMAIN rows : rows'[i] = rows[i]
      BY <1>0, InsertIsUnseen
    <2>2. Visible \subseteq 1..n
      BY <1>2 DEF Visible
    <2>3. \A i \in 1..n : rows[i] \in Nat \X Nat
      BY <1>2
    <2> QED BY <1>2, <2>1, <2>2, <2>3
  <1>8. TableTyped'
    BY <1>0, <1>1, <1>3, <1>4, <1>6 DEF TableTyped
  <1>9. LogTyped'
    BY <1>0, <1>1 DEF LogTyped
  <1>10. \A x : Sent(x)' <=> Sent(x)
    BY <1>1 DEF Sent, PostedTo
  <1>11. /\ \A r : LinesOf(r)' = LinesOf(r) /\ IdsOf(r)' = IdsOf(r)
         /\ LinesOf(q) = LinesOf(p) /\ IdsOf(q) = (n + 1)..(n + m)
    BY <1>2, <1>3, <1>4 DEF LinesOf, IdsOf, m
  <1>12. PostsInv'
    <2>1. \A r \in posts' : Sent(<<r.pass, r.to>>)
      BY <1>0, <1>1, <1>4 DEF PostsInv
    <2>2. \A r \in posts' : r.id # 0 => IdsOf(r) \subseteq DOMAIN rows' \ Visible
      <3>1. IdsOf(q) \subseteq DOMAIN rows' \ Visible
        BY <1>2, <1>3, <1>6, <1>7, <1>11
      <3>2. DOMAIN rows \subseteq DOMAIN rows'
        BY <1>2, <1>3, <1>6
      <3> QED BY <1>0, <1>1, <3>1, <3>2 DEF PostsInv
    <2>3. \A r \in posts \ {p} : r.id # 0 => IdsOf(q) \cap IdsOf(r) = {}
      <3>1. \A r \in posts \ {p} : r.id # 0 => IdsOf(r) \subseteq 1..n
        BY <1>0, <1>2 DEF PostsInv
      <3> QED BY <1>2, <1>3, <1>11, <3>1
    <2>4. \A r \in posts \ {p} : LinesOf(q) \cap LinesOf(r) = {}
      BY <1>0, <1>11 DEF PostsInv
    <2>5. \A r \in posts' : \A t \in posts' \ {r} :
             /\ LinesOf(r) \cap LinesOf(t) = {}
             /\ r.id # 0 /\ t.id # 0 => IdsOf(r) \cap IdsOf(t) = {}
      BY <1>0, <1>1, <2>3, <2>4 DEF PostsInv
    <2> QED BY <1>7, <1>10, <1>11, <2>1, <2>2, <2>5 DEF PostsInv
  <1>13. RowsInv'
    <2>1. \A i \in Visible : Sent(rows[i])' /\ rows'[i] = rows[i]
      <3>1. \A i \in Visible : rows'[i] = rows[i] /\ Sent(rows[i])
        BY <1>0, <1>7 DEF RowsInv
      <3>2. ASSUME NEW i \in Visible PROVE Sent(rows[i])'
        <4>1. PICK x : x = rows[i]
          OBVIOUS
        <4> QED BY <1>10, <3>1, <4>1
      <3> QED BY <3>1, <3>2
    <2>2. \A i \in Visible : \A r \in posts' : rows'[i] \notin LinesOf(r)
      BY <1>0, <1>1, <1>11, <2>1 DEF RowsInv
    <2> QED BY <1>0, <1>7, <1>11, <2>1, <2>2 DEF RowsInv
  <1>14. ~overtaken' => OrderInv'
    <2> SUFFICES ASSUME ~overtaken PROVE OrderInv'
      BY <1>1
    <2>1. OrderInv
      BY <1>0
    <2>2. posts = {p} /\ posts' = {q}
      BY <1>1, <2>1 DEF OrderInv
    <2>3. \A i \in Visible : rows'[i] = rows[i] /\ i < q.id
      <3>2. \A i \in Visible : rows'[i] = rows[i]
        BY <1>7
      <3>3. \A i \in Visible : i < q.id
        BY <1>2, <1>4, <1>7
      <3> QED BY <3>2, <3>3
    <2>4. \A i, j \in Visible' : i < j => Before(rows'[i], rows'[j])
      BY <1>7, <2>1, <2>3 DEF OrderInv
    <2>5. \A i \in Visible' : \A r \in posts' :
             /\ \A x \in LinesOf(r) : Before(rows'[i], x)
             /\ r.id # 0 => i < r.id
      BY <1>7, <1>11, <2>1, <2>2, <2>3 DEF OrderInv
    <2>6. \A x \in Lines : Sent(x)' /\ x[2] <= written =>
             \/ x \in lost \/ \E r \in posts' : x \in LinesOf(r)
             \/ \E i \in Visible' : rows'[i] = x
      BY <1>7, <1>10, <1>11, <2>1, <2>2, <2>3 DEF OrderInv
    <2> QED BY <1>1, <1>11, <2>2, <2>3, <2>4, <2>5, <2>6 DEF OrderInv
  <1> QED BY <1>8, <1>9, <1>12, <1>13, <1>14 DEF TableInv

(* What a post's end leaves as sent: what was, and what is written off.    *)
Settled ==
    /\ LogTyped' /\ UNCHANGED <<overtaken, written, pass>>
    /\ lost \subseteq lost'
    /\ \A x \in Nat \X Nat : Sent(x) => Sent(x)'
    /\ \A x \in Lines : Sent(x)' => Sent(x) \/ x \in lost'

(* A post that leaves no row.                                              *)
LEMMA GoneKeepsTable ==
    ASSUME TableInv, NEW p \in posts, Settled, rows' = rows,
           posts' = posts \ {p}, LinesOf(p) \subseteq lost'
    PROVE  TableInv'
  <1>0. LogTyped /\ TableTyped /\ PostsInv /\ RowsInv /\ (~overtaken => OrderInv)
    BY DEF TableInv
  <1>1. /\ LogTyped' /\ UNCHANGED <<overtaken, written, pass>>
        /\ posts' = posts \ {p} /\ lost \subseteq lost'
        /\ \A x \in Nat \X Nat : Sent(x) => Sent(x)'
        /\ \A x \in Lines : Sent(x)' => Sent(x) \/ x \in lost'
    BY DEF Settled
  <1>2. Visible' = Visible
        /\ \A i \in Visible : rows[i] \in Nat \X Nat
    BY <1>0 DEF Visible, TableTyped
  <1>3. \A r : LinesOf(r)' = LinesOf(r) /\ IdsOf(r)' = IdsOf(r)
    BY DEF LinesOf, IdsOf
  <1>4. TableTyped'
    BY <1>0, <1>1 DEF TableTyped
  <1>5. PostsInv'
    <2>1. \A r \in posts : <<r.pass, r.to>> \in Nat \X Nat
      BY <1>0, PostPlaces
    <2>2. \A r \in posts' : Sent(<<r.pass, r.to>>)'
      BY <1>0, <1>1, <2>1 DEF PostsInv
    <2> QED BY <1>0, <1>1, <1>2, <1>3, <2>2 DEF PostsInv
  <1>6. RowsInv'
    BY <1>0, <1>1, <1>2, <1>3 DEF RowsInv
  <1>7. ~overtaken' => OrderInv'
    <2> SUFFICES ASSUME ~overtaken PROVE OrderInv'
      BY <1>1
    <2>1. OrderInv
      BY <1>0
    <2>2. posts' = {} /\ \A q \in posts : q = p
      BY <1>1, <2>1 DEF OrderInv
    <2>3. \A x \in Lines : Sent(x)' /\ x[2] <= written =>
             x \in lost' \/ \E i \in Visible : rows[i] = x
      BY <1>1, <2>1, <2>2 DEF OrderInv
    <2> QED BY <1>1, <1>2, <2>1, <2>2, <2>3 DEF OrderInv
  <1> QED BY <1>1, <1>4, <1>5, <1>6, <1>7 DEF TableInv

(* A post that becomes visible.                                            *)
LEMMA CommittedShows ==
    ASSUME TableInv, NEW p \in posts, p.id # 0, rows' = Committed(p)
    PROVE  /\ DOMAIN rows' = DOMAIN rows /\ rows' \in Seq(Nat \X Nat)
           /\ Visible' = Visible \cup IdsOf(p) /\ Visible \cap IdsOf(p) = {}
           /\ \A i \in Visible : rows'[i] = rows[i] /\ i \in Nat
           /\ \A i \in IdsOf(p) : /\ rows'[i][1] = p.pass
                                  /\ rows'[i][2] = p.lo + 1 + (i - p.id)
                                  /\ rows'[i] \in LinesOf(p)
                                  /\ i \in Nat /\ i >= p.id
           /\ \A x \in LinesOf(p) : \E i \in IdsOf(p) : rows'[i] = x
  <1>0. TableTyped /\ PostsInv
    BY DEF TableInv
  <1>1. /\ p.pass \in {1, 2} /\ p.lo \in Nat /\ p.to \in Nat /\ p.id \in Nat
        /\ p.lo < p.to /\ IdsOf(p) \subseteq DOMAIN rows \ Visible
    BY <1>0 DEF TableTyped, Posts, PostsInv
  <1>2. Len(rows) \in Nat /\ DOMAIN rows = 1..Len(rows)
        /\ \A i \in DOMAIN rows : rows[i] \in Nat \X Nat
    BY <1>0 DEF TableTyped
  <1>3. DOMAIN rows' = 1..Len(rows)
        /\ \A i \in 1..Len(rows) :
              rows'[i] = IF i \in IdsOf(p)
                         THEN <<p.pass, p.lo + 1 + (i - p.id)>> ELSE rows[i]
    BY <1>2 DEF Committed
  <1>4. \A i \in IdsOf(p) :
           /\ <<p.pass, p.lo + 1 + (i - p.id)>> \in LinesOf(p)
           /\ <<p.pass, p.lo + 1 + (i - p.id)>> \in Nat \X Nat
           /\ <<p.pass, p.lo + 1 + (i - p.id)>> # NoLine
           /\ i \in Nat /\ i >= p.id
    BY <1>1 DEF IdsOf, LinesOf, NoLine
  <1>5. \A i \in 1..Len(rows) : rows'[i] \in Nat \X Nat
    BY <1>2, <1>3, <1>4
  <1>6. rows' \in Seq(Nat \X Nat)
    <2>1. rows' = [i \in 1..Len(rows) |-> rows'[i]]
      BY <1>3, <1>2 DEF Committed
    <2> QED BY <1>2, <1>3, <1>5, <2>1
  <1>7. Visible' = Visible \cup IdsOf(p)
    BY <1>1, <1>2, <1>3, <1>4 DEF Visible
  <1>8. \A x \in LinesOf(p) : \E i \in IdsOf(p) : rows'[i] = x
    <2> SUFFICES ASSUME NEW k \in (p.lo + 1)..p.to
                 PROVE  \E i \in IdsOf(p) : rows'[i] = <<p.pass, k>>
      BY DEF LinesOf
    <2>1. PICK i : i = p.id + (k - p.lo - 1)
      OBVIOUS
    <2>2. i \in IdsOf(p) /\ p.lo + 1 + (i - p.id) = k
      BY <1>1, <2>1 DEF IdsOf
    <2>3. i \in 1..Len(rows)
      BY <1>1, <1>2, <2>2
    <2>4. rows'[i] = <<p.pass, k>>
      BY <1>3, <2>2, <2>3
    <2> QED BY <2>2, <2>4
  <1>9. \A i \in Visible : i \notin IdsOf(p) /\ i \in 1..Len(rows)
    BY <1>1, <1>2 DEF Visible
  <1>10. DOMAIN rows' = DOMAIN rows /\ Visible \cap IdsOf(p) = {}
    BY <1>2, <1>3, <1>9
  <1>11. \A i \in Visible : rows'[i] = rows[i] /\ i \in Nat
    BY <1>3, <1>9
  <1>12. \A i \in IdsOf(p) : rows'[i] = <<p.pass, p.lo + 1 + (i - p.id)>>
    BY <1>1, <1>2, <1>3
  <1>13. \A i \in IdsOf(p) : /\ rows'[i][1] = p.pass
                            /\ rows'[i][2] = p.lo + 1 + (i - p.id)
                            /\ rows'[i] \in LinesOf(p)
                            /\ i \in Nat /\ i >= p.id
    <2> SUFFICES ASSUME NEW i \in IdsOf(p)
                 PROVE  /\ rows'[i][1] = p.pass
                        /\ rows'[i][2] = p.lo + 1 + (i - p.id)
                        /\ rows'[i] \in LinesOf(p)
                        /\ i \in Nat /\ i >= p.id
      OBVIOUS
    <2>1. rows'[i] = <<p.pass, p.lo + 1 + (i - p.id)>>
      BY <1>12
    <2>2. rows'[i][1] = p.pass /\ rows'[i][2] = p.lo + 1 + (i - p.id)
      BY <2>1
    <2> QED BY <1>4, <2>1, <2>2
  <1> QED BY <1>6, <1>7, <1>8, <1>10, <1>11, <1>13

(* A commit moves the lines of a post into its rows.                       *)
LEMMA CommittedKeepsTable ==
    ASSUME TableInv, NEW p \in posts, p.id # 0, Settled, rows' = Committed(p),
           posts' = posts \ {p}
    PROVE  TableInv'
  <1>0. LogTyped /\ TableTyped /\ PostsInv /\ RowsInv /\ (~overtaken => OrderInv)
    BY DEF TableInv
  <1>1. /\ LogTyped' /\ UNCHANGED <<overtaken, written, pass>>
        /\ posts' = posts \ {p} /\ lost \subseteq lost'
        /\ \A x \in Nat \X Nat : Sent(x) => Sent(x)'
        /\ \A x \in Lines : Sent(x)' => Sent(x) \/ x \in lost'
    BY DEF Settled
  <1>2. /\ DOMAIN rows' = DOMAIN rows /\ rows' \in Seq(Nat \X Nat)
        /\ Visible' = Visible \cup IdsOf(p) /\ Visible \cap IdsOf(p) = {}
        /\ \A i \in Visible : rows'[i] = rows[i] /\ i \in Nat
        /\ \A i \in IdsOf(p) : /\ rows'[i][1] = p.pass
                               /\ rows'[i][2] = p.lo + 1 + (i - p.id)
                               /\ rows'[i] \in LinesOf(p)
                               /\ i \in Nat /\ i >= p.id
        /\ \A x \in LinesOf(p) : \E i \in IdsOf(p) : rows'[i] = x
    BY CommittedShows
  <1>3. \A r : LinesOf(r)' = LinesOf(r) /\ IdsOf(r)' = IdsOf(r)
    BY DEF LinesOf, IdsOf
  <1>4. TableTyped'
    BY <1>0, <1>1, <1>2 DEF TableTyped
  <1>5. PostsInv'
    <2>1. \A r \in posts : <<r.pass, r.to>> \in Nat \X Nat
      BY <1>0, PostPlaces
    <2>2. \A r \in posts' : Sent(<<r.pass, r.to>>)'
      BY <1>0, <1>1, <2>1 DEF PostsInv
    <2>3. \A r \in posts' : r.id # 0 => IdsOf(r) \subseteq DOMAIN rows' \ Visible'
      BY <1>0, <1>1, <1>2 DEF PostsInv
    <2> QED BY <1>0, <1>1, <1>3, <2>2, <2>3 DEF PostsInv
  <1>6. /\ p.pass \in {1, 2} /\ p.lo \in Nat /\ p.to \in Nat /\ p.id \in Nat
        /\ Sent(<<p.pass, p.to>>)
    BY <1>0 DEF TableTyped, Posts, PostsInv
  <1>7. \A x \in LinesOf(p) : Sent(x) /\ x \in Nat \X Nat
    BY <1>0, <1>6 DEF LinesOf, Sent, LogTyped, PostedTo
  <1>8. RowsInv'
    <2>1. ASSUME NEW i \in Visible' PROVE Sent(rows[i])'
      <3>1. PICK x : x = rows'[i]
        OBVIOUS
      <3>2. CASE i \in Visible
        <4>1. rows[i] \in Nat \X Nat /\ Sent(rows[i]) /\ x = rows[i]
          BY <1>0, <1>2, <3>1, <3>2 DEF TableTyped, Visible, RowsInv
        <4>2. Sent(x)'
          BY <1>1, <4>1
        <4> QED BY <3>1, <4>2
      <3>3. CASE i \in IdsOf(p)
        <4>1. Sent(x)'
          BY <1>1, <1>2, <1>7, <3>1, <3>3
        <4> QED BY <3>1, <4>1
      <3> QED BY <1>2, <3>2, <3>3
    <2>2. \A i \in Visible' : \A r \in posts' : rows'[i] \notin LinesOf(r)
      BY <1>0, <1>1, <1>2 DEF RowsInv, PostsInv
    <2>3. ASSUME NEW i \in IdsOf(p), NEW j \in IdsOf(p), rows'[i] = rows'[j]
          PROVE  i = j
      <3>1. p.lo + 1 + (i - p.id) = p.lo + 1 + (j - p.id)
        BY <1>2, <2>3
      <3>2. i \in Nat /\ j \in Nat
        BY <1>2
      <3>3. p.lo \in Nat /\ p.id \in Nat
        BY <1>6
      <3> QED BY <3>1, <3>2, <3>3
    <2>4. \A i, j \in Visible' : rows'[i] = rows'[j] => i = j
      BY <1>0, <1>2, <2>3 DEF RowsInv
    <2> QED BY <1>3, <2>1, <2>2, <2>4 DEF RowsInv
  <1>9. ~overtaken' => OrderInv'
    <2> SUFFICES ASSUME ~overtaken PROVE OrderInv'
      BY <1>1
    <2>1. OrderInv
      BY <1>0
    <2>2. posts' = {} /\ posts = {p}
      BY <1>1, <2>1 DEF OrderInv
    <2>3. \A i, j \in Visible' : i < j => Before(rows'[i], rows'[j])
      <3>1. \A i, j \in IdsOf(p) : i < j => Before(rows'[i], rows'[j])
        BY <1>2, <1>6 DEF Before
      <3>2. \A i \in IdsOf(p), j \in Visible : ~(i < j)
        BY <1>2, <1>6, <2>1 DEF OrderInv
      <3>3. \A i \in Visible, j \in IdsOf(p) : Before(rows'[i], rows'[j])
        BY <1>2, <2>1 DEF OrderInv
      <3> QED BY <1>2, <2>1, <3>1, <3>2, <3>3 DEF OrderInv
    <2>4. \A x \in Lines : Sent(x)' /\ x[2] <= written =>
             x \in lost' \/ \E i \in Visible' : rows'[i] = x
      BY <1>1, <1>2, <2>1, <2>2 DEF OrderInv
    <2> QED BY <1>1, <2>2, <2>3, <2>4 DEF OrderInv
  <1> QED BY <1>1, <1>4, <1>5, <1>8, <1>9 DEF TableInv

(* A post whose answer is lost carries the same lines into the same rows.  *)
LEMMA AdriftKeepsTable ==
    ASSUME TableInv, NEW p \in posts, Settled, rows' = rows,
           posts' = (posts \ {p}) \cup {[p EXCEPT !.awaited = FALSE]}
    PROVE  TableInv'
  <1> DEFINE adrift == [p EXCEPT !.awaited = FALSE]
  <1>q. PICK q : q = adrift
    OBVIOUS
  <1>0. LogTyped /\ TableTyped /\ PostsInv /\ RowsInv /\ (~overtaken => OrderInv)
    BY DEF TableInv
  <1>1. /\ LogTyped' /\ UNCHANGED <<overtaken, written, pass>>
        /\ posts' = (posts \ {p}) \cup {q} /\ lost \subseteq lost'
        /\ \A x \in Nat \X Nat : Sent(x) => Sent(x)'
        /\ \A x \in Lines : Sent(x)' => Sent(x) \/ x \in lost'
    BY <1>q DEF Settled
  <1>2. Visible' = Visible
        /\ \A i \in Visible : rows[i] \in Nat \X Nat
    BY <1>0 DEF Visible, TableTyped
  <1>3. /\ q.pass = p.pass /\ q.lo = p.lo /\ q.to = p.to /\ q.id = p.id
        /\ q \in Posts /\ p.lo < p.to
    <2>1. p \in Posts /\ p.lo < p.to
      BY <1>0 DEF TableTyped
    <2>2. /\ p = [pass |-> p.pass, lo |-> p.lo, to |-> p.to, id |-> p.id,
                  awaited |-> p.awaited]
          /\ p.pass \in {1, 2} /\ p.lo \in Nat /\ p.to \in Nat /\ p.id \in Nat
      BY <2>1 DEF Posts
    <2>3. q = [pass |-> p.pass, lo |-> p.lo, to |-> p.to, id |-> p.id,
               awaited |-> FALSE]
      BY <1>q, <2>2
    <2>4. q.pass = p.pass /\ q.lo = p.lo /\ q.to = p.to /\ q.id = p.id
      BY <2>3
    <2>5. q \in Posts
      BY <2>2, <2>3 DEF Posts
    <2> QED BY <2>1, <2>4, <2>5
  <1> HIDE DEF adrift
  <1>4. /\ \A r : LinesOf(r)' = LinesOf(r) /\ IdsOf(r)' = IdsOf(r)
        /\ LinesOf(q) = LinesOf(p) /\ IdsOf(q) = IdsOf(p)
    BY <1>3 DEF LinesOf, IdsOf
  <1>5. TableTyped'
    BY <1>0, <1>1, <1>3 DEF TableTyped
  <1>6. PostsInv'
    <2>1. \A r \in posts : <<r.pass, r.to>> \in Nat \X Nat
      BY <1>0, PostPlaces
    <2>2. \A r \in posts : Sent(<<r.pass, r.to>>)'
      BY <1>0, <1>1, <2>1 DEF PostsInv
    <2>3. \A r \in posts' : Sent(<<r.pass, r.to>>)'
      BY <1>1, <1>3, <2>2
    <2>4. \A r \in posts' : r.id # 0 => IdsOf(r) \subseteq DOMAIN rows \ Visible
      BY <1>0, <1>1, <1>3, <1>4 DEF PostsInv
    <2>5. \A r \in posts' : \A t \in posts' \ {r} :
             /\ LinesOf(r) \cap LinesOf(t) = {}
             /\ r.id # 0 /\ t.id # 0 => IdsOf(r) \cap IdsOf(t) = {}
      BY <1>0, <1>1, <1>3, <1>4 DEF PostsInv
    <2> QED BY <1>2, <1>4, <2>3, <2>4, <2>5 DEF PostsInv
  <1>7. RowsInv'
    <2>1. \A i \in Visible : Sent(rows[i])'
      BY <1>0, <1>1, <1>2 DEF RowsInv
    <2>2. \A i \in Visible : \A r \in posts' : rows[i] \notin LinesOf(r)
      BY <1>0, <1>1, <1>4 DEF RowsInv
    <2> QED BY <1>0, <1>2, <1>4, <2>1, <2>2 DEF RowsInv
  <1>8. ~overtaken' => OrderInv'
    <2> SUFFICES ASSUME ~overtaken PROVE OrderInv'
      BY <1>1
    <2>1. OrderInv
      BY <1>0
    <2>2. posts = {p} /\ posts' = {q}
      BY <1>1, <2>1 DEF OrderInv
    <2>3. /\ \A r, t \in posts' : r = t
          /\ \A i, j \in Visible' : i < j => Before(rows'[i], rows'[j])
          /\ \A i \in Visible', r \in posts' :
                /\ \A x \in LinesOf(r) : Before(rows'[i], x)
                /\ r.id # 0 => i < r.id
      BY <1>2, <1>3, <1>4, <2>1, <2>2 DEF OrderInv
    <2>4. \A x \in Lines : Sent(x)' /\ x[2] <= written =>
             \/ x \in lost' \/ \E r \in posts' : x \in LinesOf(r)
             \/ \E i \in Visible : rows[i] = x
      BY <1>1, <1>4, <2>1, <2>2 DEF OrderInv
    <2> QED BY <1>1, <1>2, <1>4, <2>3, <2>4 DEF OrderInv
  <1> QED BY <1>1, <1>5, <1>6, <1>7, <1>8 DEF TableInv

(* What a failed post gives up over REST is written off.                   *)
LEMMA FailureSettles ==
    ASSUME TableInv, NEW p \in posts, PostFails(p) PROVE Settled
  <1>0. LogTyped
    BY DEF TableInv
  <1>1. /\ slice' = IF p.awaited THEN Empty ELSE slice
        /\ lost \cup Rest(p) \subseteq lost'
        /\ UNCHANGED <<overWs, steam, written, postedIdx, pass, overtaken>>
    BY DEF PostFails
  <1>2. CASE slice' = slice
    <2>1. PostedTo' = PostedTo
      BY <1>1, <1>2 DEF PostedTo
    <2>2. \A x : Sent(x)' <=> Sent(x)
      BY <1>1, <2>1 DEF Sent
    <2>3. LogTyped'
      BY <1>0, <1>1, <1>2 DEF LogTyped
    <2> QED BY <1>1, <2>2, <2>3 DEF Settled
  <1>3. CASE slice' # slice
    <2>1. /\ p.awaited /\ slice' = Empty /\ slice # Empty
          /\ Rest(p) = {<<pass, k>> : k \in (slice.lo + 1)..slice.hi}
      BY <1>1, <1>3 DEF Rest
    <2>2. /\ PostedTo = slice.lo /\ PostedTo' = slice.hi /\ slice.lo < slice.hi
          /\ slice.lo \in Nat /\ slice.hi \in Nat
      BY <1>0, <1>1, <2>1 DEF PostedTo, LogTyped
    <2>3. LogTyped'
      <3>1. slice' = [lo |-> 0, hi |-> 0]
        BY <2>1 DEF Empty
      <3> QED BY <1>0, <1>1, <3>1 DEF LogTyped, Empty
    <2>4. \A x \in Nat \X Nat : Sent(x) => Sent(x)'
      BY <1>1, <2>2 DEF Sent
    <2>5. \A x \in Lines : Sent(x)' => Sent(x) \/ x \in lost'
      <3> SUFFICES ASSUME NEW x \in Lines, Sent(x)', ~Sent(x)
                   PROVE  x \in lost'
        OBVIOUS
      <3>1. x \in Nat \X Nat /\ x = <<x[1], x[2]>>
        BY LinesArePairs
      <3>2. x[1] = pass /\ x[2] \in (slice.lo + 1)..slice.hi
        BY <1>1, <2>2, <3>1 DEF Sent
      <3>3. x \in Rest(p)
        BY <2>1, <3>1, <3>2
      <3> QED BY <1>1, <3>3
    <2> QED BY <1>1, <2>3, <2>4, <2>5 DEF Settled
  <1> QED BY <1>2, <1>3

(* Every step of the agent and the table keeps their part.                 *)
LEMMA TableContinues == TableInv /\ [InstallLogNext]_logVars => TableInv'
  <1> SUFFICES ASSUME TableInv, [InstallLogNext]_logVars PROVE TableInv'
    OBVIOUS
  <1>1. ASSUME UNCHANGED <<agentLog, overtaken, posts, rows, lost>> PROVE TableInv'
    <2>1. /\ UNCHANGED <<overWs, steam, written, postedIdx, pass, slice>>
          /\ UNCHANGED <<overtaken, posts, rows, lost>>
      BY <1>1 DEF agentLog
    <2>2. LogTyped'
      BY <2>1 DEF TableInv, LogTyped
    <2>3. \A x : Sent(x)' <=> Sent(x)
      BY <2>1 DEF Sent, PostedTo
    <2> QED BY <2>1, <2>2, <2>3, AgentMoves
  <1>2. CASE UNCHANGED logVars
    BY <1>1, <1>2 DEF logVars
  <1>3. CASE AppendLine \/ FlushNow \/ Exit
    BY <1>3, AgentKeepsTable
  <1>4. CASE PostChunk
    BY <1>4, PostChunkKeepsTable
  <1>5. ASSUME NEW p \in posts, Insert(p) PROVE TableInv'
    BY <1>5, InsertKeepsTable
  <1>6. ASSUME NEW p \in posts, Commit(p) PROVE TableInv'
    <2>1. /\ p.id # 0 /\ posts' = posts \ {p} /\ rows' = Committed(p)
          /\ UNCHANGED <<overWs, steam, written, postedIdx, pass, slice>>
          /\ lost' = lost /\ overtaken' = overtaken
      BY <1>6 DEF Commit, agentLog
    <2>2. LogTyped'
      BY <2>1 DEF TableInv, LogTyped
    <2>3. \A x : Sent(x)' <=> Sent(x)
      BY <2>1 DEF Sent, PostedTo
    <2>4. Settled
      BY <2>1, <2>2, <2>3 DEF Settled
    <2> QED BY <2>1, <2>4, CommittedKeepsTable
  <1>7. ASSUME NEW p \in posts, PostFails(p) PROVE TableInv'
    <2>1. Settled
      BY <1>7, FailureSettles
    <2>2. CASE posts' = posts \ {p} /\ LinesOf(p) \subseteq lost'
      <3>1. rows' = rows
        BY <1>7 DEF PostFails
      <3> QED BY <2>1, <2>2, <3>1, GoneKeepsTable
    <2>3. CASE posts' = (posts \ {p}) \cup {[p EXCEPT !.awaited = FALSE]}
      <3>1. rows' = rows
        BY <1>7 DEF PostFails
      <3> QED BY <2>1, <2>3, <3>1, AdriftKeepsTable
    <2> QED BY <1>7, <2>2, <2>3 DEF PostFails
  <1>8. CASE Connect \/ StreamBreaks
    BY <1>1, <1>8 DEF Connect, StreamBreaks
  <1>9. ASSUME NEW q \in LogPolls, PollRead(q) \/ PollSend(q) PROVE TableInv'
    BY <1>1, <1>9 DEF PollRead, PollSend
  <1> QED BY <1>2, <1>3, <1>4, <1>5, <1>6, <1>7, <1>8, <1>9 DEF InstallLogNext

-----------------------------------------------------------------------------
(* The table grows under the page: what is visible stays, and what becomes *)
(* visible comes after it unless posts overtook each other.                *)
LEMMA TableGrows ==
    ASSUME TableInv, [InstallLogNext]_logVars
    PROVE  \/ rows' = rows
           \/ /\ UNCHANGED <<pageState, overtaken>>
              /\ Visible \subseteq Visible'
              /\ ~overtaken => \A i \in Visible, j \in Visible' \ Visible :
                               i < j /\ 0 < j
  <1>0. TableTyped /\ PostsInv /\ (~overtaken => OrderInv)
    BY DEF TableInv
  <1>1. ASSUME NEW p \in posts, p.id # 0, rows' = Committed(p)
        PROVE  /\ Visible \subseteq Visible'
               /\ ~overtaken => \A i \in Visible, j \in Visible' \ Visible :
                                i < j /\ 0 < j
    <2>1. /\ Visible' = Visible \cup IdsOf(p)
          /\ \A j \in IdsOf(p) : j \in Nat /\ j >= p.id
          /\ \A i \in Visible : i \in Nat
      BY <1>1, CommittedShows
    <2>2. p.id \in Nat
      BY <1>0 DEF TableTyped, Posts
    <2>3. ~overtaken => \A i \in Visible : i < p.id
      BY <1>0, <1>1 DEF OrderInv
    <2> QED BY <1>1, <2>1, <2>2, <2>3
  <1>2. ASSUME NEW p \in posts, Commit(p) \/ PostFails(p), rows' # rows
        PROVE  p.id # 0 /\ rows' = Committed(p) /\ UNCHANGED <<pageState, overtaken>>
    BY <1>2 DEF Commit, PostFails, agentLog
  <1>3. ASSUME NEW p \in posts, Insert(p)
        PROVE  Visible' = Visible /\ UNCHANGED <<pageState, overtaken>>
    <2>1. UNCHANGED <<pageState, overtaken>>
      BY <1>3 DEF Insert, agentLog
    <2> QED BY <1>0, <1>3, <2>1, InsertIsUnseen
  <1>4. CASE AppendLine \/ FlushNow \/ Exit \/ PostChunk \/ Connect
             \/ StreamBreaks \/ UNCHANGED logVars
    BY <1>4 DEF AppendLine, FlushNow, Exit, PostChunk, Connect, StreamBreaks,
                logVars
  <1>5. ASSUME NEW q \in LogPolls, PollRead(q) \/ PollSend(q)
        PROVE  rows' = rows
    BY <1>5 DEF PollRead, PollSend
  <1> QED BY <1>1, <1>2, <1>3, <1>4, <1>5 DEF InstallLogNext

(* The ids below the length of the table.                                  *)
LEMMA IdsAreBounded ==
    TableTyped => /\ Len(rows) \in Nat
                  /\ \A i \in Visible : i \in Nat /\ i <= Len(rows)
  BY DEF TableTyped, Visible

(* What the page becomes when it hears of ids.                             *)
LEMMA PageHears ==
    ASSUME TableTyped, PageInv, NEW ids, ids \subseteq Visible,
           shown' = ListedOn(ids), lastLogId' = LastShown(ids)
    PROVE  /\ shown' \in Seq(SUBSET Nat) /\ OnPage' = OnPage \cup ids
           /\ \A j, k \in DOMAIN shown' : j # k => shown'[j] \cap shown'[k] = {}
           /\ lastLogId' \in Nat /\ lastLogId <= lastLogId'
           /\ \A i \in OnPage' : i <= lastLogId'
           /\ lastLogId' = lastLogId \/ lastLogId' \in ids
           /\ \/ shown' = shown
              \/ /\ DOMAIN shown' = 1..(Len(shown) + 1)
                 /\ DOMAIN shown = 1..Len(shown) /\ Len(shown) \in Nat
                 /\ \A k \in DOMAIN shown : shown'[k] = shown[k]
                 /\ shown'[Len(shown) + 1] = ids \ OnPage
  <1> DEFINE n == Len(shown)
             new == ids \ OnPage
  <1>1. /\ n \in Nat /\ DOMAIN shown = 1..n /\ lastLogId \in Nat
        /\ \A i \in ids : i \in Nat /\ i <= Len(rows)
        /\ \A i \in OnPage : i \in Nat /\ i <= lastLogId
        /\ Len(rows) \in Nat /\ shown \in Seq(SUBSET Nat)
    <2>1. \A i \in Visible : i \in Nat /\ i <= Len(rows)
      BY IdsAreBounded
    <2> QED BY <2>1, IdsAreBounded DEF PageInv
  <1>2. /\ lastLogId' \in Nat /\ lastLogId <= lastLogId'
        /\ \A i \in ids : i <= lastLogId'
        /\ lastLogId' = lastLogId \/ lastLogId' \in ids
    <2> DEFINE S == ids \cup {lastLogId}
               b == Len(rows) + lastLogId
    <2>1. S \subseteq Nat /\ S # {} /\ b \in Nat /\ \A i \in S : i <= b
      BY <1>1
    <2> HIDE DEF S, b
    <2>2. Largest(S) \in S /\ \A j \in S : j <= Largest(S)
      BY <2>1, LargestIsLast
    <2> USE DEF S
    <2>3. lastLogId' = Largest(S)
      BY DEF LastShown
    <2> QED BY <2>1, <2>2, <2>3
  <1>3. CASE ids \subseteq OnPage
    <2>1. shown' = shown /\ OnPage' = OnPage
      BY <1>3 DEF ListedOn, OnPage
    <2> QED BY <1>1, <1>2, <1>3, <2>1 DEF PageInv
  <1>4. CASE ~(ids \subseteq OnPage)
    <2>1. shown' = Append(shown, new) /\ new \in SUBSET Nat
      BY <1>1, <1>4 DEF ListedOn
    <2> HIDE DEF new
    <2>2. /\ shown' \in Seq(SUBSET Nat) /\ DOMAIN shown' = 1..(n + 1)
          /\ \A k \in 1..n : shown'[k] = shown[k] /\ k \in 1..(n + 1)
          /\ shown'[n + 1] = new /\ n + 1 \in 1..(n + 1)
      <3>1. /\ Append(shown, new) \in Seq(SUBSET Nat)
            /\ Len(Append(shown, new)) = Len(shown) + 1
            /\ \A i \in 1..Len(shown) : Append(shown, new)[i] = shown[i]
            /\ Append(shown, new)[Len(shown) + 1] = new
        BY <1>1, <2>1, AppendProperties
      <3> QED BY <1>1, <2>1, <3>1
    <2>3. \A k \in 1..(n + 1) : k \in 1..n \/ k = n + 1
      BY <1>1
    <2>4. \A k \in 1..n : k # n + 1
      BY <1>1
    <2>5. OnPage' = OnPage \cup new
      BY <1>1, <2>2, <2>3 DEF OnPage
    <2>6. OnPage \cup new = OnPage \cup ids
      BY DEF new
    <2>7. \A k \in 1..n : shown[k] \cap new = {}
      BY <1>1 DEF new, OnPage
    <2>8. \A j, k \in 1..n : j # k => shown[j] \cap shown[k] = {}
      BY <1>1 DEF PageInv
    <2>9. \A j, k \in DOMAIN shown' : j # k => shown'[j] \cap shown'[k] = {}
      BY <2>2, <2>3, <2>7, <2>8
    <2>10. \A i \in OnPage' : i <= lastLogId'
      BY <1>1, <1>2, <2>5, <2>6
    <2> QED BY <1>1, <1>2, <2>2, <2>5, <2>6, <2>9, <2>10 DEF new
  <1> QED BY <1>3, <1>4

(* In order, if nothing is missing below   what it hears, nothing is        *)
(* missing on the page, and what is new is listed last.                    *)
LEMMA PageKeepsOrder ==
    ASSUME TableTyped, PageInv, PageOrderInv, NEW ids, ids \subseteq Visible,
           rows' = rows, shown' = ListedOn(ids), lastLogId' = LastShown(ids),
           \A m \in ids, i \in Visible : i < m => i \in ids \/ i <= lastLogId
    PROVE  /\ \A i \in Visible : i <= lastLogId' => i \in OnPage'
           /\ \A j, k \in DOMAIN shown' : \A a \in shown'[j], b \in shown'[k] :
                 j < k => a < b
  <1>1. /\ OnPage' = OnPage \cup ids /\ lastLogId' \in Nat
        /\ lastLogId' = lastLogId \/ lastLogId' \in ids
        /\ \/ shown' = shown
           \/ /\ DOMAIN shown' = 1..(Len(shown) + 1)
              /\ DOMAIN shown = 1..Len(shown) /\ Len(shown) \in Nat
              /\ \A k \in DOMAIN shown : shown'[k] = shown[k]
              /\ shown'[Len(shown) + 1] = ids \ OnPage
    BY PageHears
  <1>2. /\ \A i \in Visible : i \in Nat
        /\ lastLogId \in Nat
        /\ \A i \in Visible : i <= lastLogId => i \in OnPage
    BY IdsAreBounded DEF PageInv, PageOrderInv
  <1>3. \A i \in Visible : i <= lastLogId' => i \in OnPage'
    BY <1>1, <1>2
  <1>4. \A i \in OnPage, j \in ids \ OnPage : i < j
    <2>1. \A i \in OnPage : i \in Nat /\ i <= lastLogId
      BY <1>2 DEF PageInv
    <2>2. \A j \in ids \ OnPage : ~(j <= lastLogId) /\ j \in Nat
      BY <1>2
    <2> QED BY <1>2, <2>1, <2>2
  <1>5. \A j, k \in DOMAIN shown : \A a \in shown[j], b \in shown[k] :
           j < k => a < b
    BY DEF PageOrderInv
  <1>6. CASE shown' = shown
    BY <1>3, <1>5, <1>6
  <1>7. CASE /\ DOMAIN shown' = 1..(Len(shown) + 1)
             /\ DOMAIN shown = 1..Len(shown) /\ Len(shown) \in Nat
             /\ \A k \in DOMAIN shown : shown'[k] = shown[k]
             /\ shown'[Len(shown) + 1] = ids \ OnPage
    <2> SUFFICES ASSUME NEW j \in DOMAIN shown', NEW k \in DOMAIN shown',
                        NEW a \in shown'[j], NEW b \in shown'[k], j < k
                 PROVE  a < b
      BY <1>3
    <2>1. j \in DOMAIN shown /\ shown'[j] = shown[j] /\ shown[j] \subseteq OnPage
      BY <1>7 DEF OnPage
    <2>2. CASE k \in DOMAIN shown
      BY <1>5, <1>7, <2>1, <2>2
    <2>3. CASE k = Len(shown) + 1
      BY <1>4, <1>7, <2>1, <2>3
    <2>4. k \in DOMAIN shown \/ k = Len(shown) + 1
      BY <1>7
    <2> QED BY <2>2, <2>3, <2>4
  <1> QED BY <1>1, <1>6, <1>7

(* A poll reads from the first row it has not sent on, without a gap.      *)
LEMMA PagesHaveNoGap ==
    ASSUME TableTyped, NEW a \in Nat
    PROVE  LET new == {i \in Visible : i > a}
               page == {i \in new : Cardinality({j \in new : j < i}) < Page}
           IN \A m \in page, i \in Visible : i < m => i \in page \/ i <= a
  <1> DEFINE new == {i \in Visible : i > a}
             before(i) == {j \in new : j < i}
  <1>1. new \subseteq 1..Len(rows) /\ Len(rows) \in Nat
    BY DEF TableTyped, Visible
  <1>2. IsFiniteSet(new)
    <2>1. IsFiniteSet(1..Len(rows))
      BY <1>1, FS_Interval, 1 \in Int, Len(rows) \in Int
    <2> HIDE DEF new
    <2> QED BY <1>1, <2>1, FS_Subset
  <1>3. ASSUME NEW m \in new, NEW i \in new, i < m,
               Cardinality(before(m)) < Page
        PROVE  Cardinality(before(i)) < Page
    <2>1. IsFiniteSet(before(m))
      <3>1. before(m) \subseteq new
        OBVIOUS
      <3> HIDE DEF new, before
      <3> QED BY <1>2, <3>1, FS_Subset
    <2>2. before(i) \subseteq before(m)
      BY <1>1, <1>3
    <2> HIDE DEF new, before
    <2>3. IsFiniteSet(before(i)) /\ Cardinality(before(i)) <= Cardinality(before(m))
      BY <2>1, <2>2, FS_Subset
    <2>4. Cardinality(before(i)) \in Nat /\ Cardinality(before(m)) \in Nat
      BY <2>1, <2>3, FS_CardinalityType
    <2> QED BY <1>3, <2>3, <2>4, InstallLogAssumption
  <1>4. \A i \in Visible : i \in new \/ i <= a
    BY <1>1, IdsAreBounded
  <1> QED BY <1>3, <1>4

(* Every step keeps what the page knows.                                   *)
LEMMA PageContinues ==
    LogInv /\ [InstallLogNext]_logVars
        => PageInv' /\ (~overtaken' => PageOrderInv')
  <1> SUFFICES ASSUME LogInv, [InstallLogNext]_logVars
               PROVE  PageInv' /\ (~overtaken' => PageOrderInv')
    OBVIOUS
  <1>0. /\ TableInv /\ TableTyped /\ PageInv /\ (~overtaken => PageOrderInv)
    BY DEF LogInv, TableInv
  <1>1. CASE /\ UNCHANGED <<pageState, overtaken>>
             /\ Visible \subseteq Visible'
             /\ ~overtaken => \A i \in Visible, j \in Visible' \ Visible :
                              i < j /\ 0 < j
    <2>1. UNCHANGED <<stream, reads, shown, lastLogId>> /\ OnPage' = OnPage
      BY <1>1 DEF pageState, OnPage
    <2>2. PageInv'
      BY <1>0, <1>1, <2>1 DEF PageInv
    <2>3. ASSUME ~overtaken PROVE PageOrderInv'
      <3>1. /\ \A i \in Visible, j \in Visible' \ Visible : i < j
            /\ \A i \in Visible' : i \in Nat
            /\ PageOrderInv
        <4>1. \A i \in Visible, j \in Visible' \ Visible : i < j
          BY <1>1, <2>3
        <4>2. rows' \in Seq(Nat \X Nat)
          BY <1>0, TableContinues DEF TableInv, TableTyped
        <4>3. \A i \in Visible' : i \in Nat
          BY <4>2 DEF Visible
        <4> QED BY <1>0, <2>3, <4>1, <4>3
      <3>2. lastLogId \in Nat /\ (lastLogId = 0 \/ lastLogId \in Visible)
        BY <1>0 DEF PageInv
      <3>3. \A j \in Visible' \ Visible : ~(j <= lastLogId)
        <4>1. Visible # {} \/ lastLogId = 0
          BY <3>2
        <4>2. \A j \in Visible' \ Visible : 0 < j
          <5>1. \A j \in Visible' : j \in DOMAIN rows'
            BY DEF Visible
          <5>2. DOMAIN rows' = 1..Len(rows') /\ Len(rows') \in Nat
            BY <1>0, TableContinues DEF TableInv, TableTyped
          <5> QED BY <5>1, <5>2
        <4> QED BY <3>1, <3>2, <4>2
      <3>4. \A i \in Visible' : i <= lastLogId => i \in OnPage
        BY <3>1, <3>3 DEF PageOrderInv
      <3>5. \A q \in LogPolls : \A m \in reads[q], i \in Visible' :
               i < m => i \in reads[q] \/ i <= lastLogId
        <4>1. \A q \in LogPolls : reads[q] \subseteq Visible
          BY <1>0 DEF PageInv
        <4>2. \A m \in Visible, i \in Visible' \ Visible : ~(i < m)
          BY <1>1, <3>1
        <4> QED BY <3>1, <4>1, <4>2 DEF PageOrderInv
      <3> QED BY <2>1, <3>1, <3>4, <3>5 DEF PageOrderInv
    <2> QED BY <1>1, <2>2, <2>3
  <1>2. ASSUME rows' = rows, UNCHANGED pageState, ~overtaken' => ~overtaken
        PROVE  PageInv' /\ (~overtaken' => PageOrderInv')
    BY <1>0, <1>2 DEF pageState, PageInv, PageOrderInv, Visible, OnPage
  <1>3. CASE Connect
    <2>1. /\ stream' = [open |-> TRUE, after |-> lastLogId]
          /\ UNCHANGED <<reads, shown, lastLogId, rows, overtaken>>
      BY <1>3 DEF Connect, agentLog
    <2>2. Visible' = Visible /\ OnPage' = OnPage
      BY <2>1 DEF Visible, OnPage
    <2>3. PageInv'
      BY <1>0, <2>1, <2>2 DEF PageInv
    <2>4. lastLogId \in Nat
      BY <1>0 DEF PageInv
    <2>5. ~overtaken => PageOrderInv'
      BY <1>0, <2>1, <2>2, <2>4 DEF PageOrderInv
    <2> QED BY <2>1, <2>3, <2>5
  <1>4. ASSUME NEW q \in LogPolls, PollRead(q)
        PROVE  PageInv' /\ (~overtaken' => PageOrderInv')
    <2> DEFINE new == {i \in Visible : i > stream.after}
               page == {i \in new : Cardinality({j \in new : j < i}) < Page}
    <2>1. /\ stream.open /\ reads' = [reads EXCEPT ![q] = page]
          /\ UNCHANGED <<stream, shown, lastLogId, rows, overtaken>>
      BY <1>4 DEF PollRead, agentLog
    <2>2. Visible' = Visible /\ OnPage' = OnPage
      BY <2>1 DEF Visible, OnPage
    <2>3. \A m \in page, i \in Visible :
             i < m => i \in page \/ i <= stream.after
      BY <1>0, PagesHaveNoGap DEF PageInv
    <2>4. page \subseteq Visible /\ page \subseteq Nat
      BY <1>0, IdsAreBounded
    <2> HIDE DEF page
    <2>5. /\ reads' \in [LogPolls -> SUBSET Nat]
          /\ \A r \in LogPolls : \/ reads'[r] = reads[r]
                                 \/ reads'[r] = page
      BY <1>0, <2>1, <2>4 DEF PageInv
    <2>6. PageInv'
      BY <1>0, <2>1, <2>2, <2>4, <2>5 DEF PageInv
    <2>7. ASSUME ~overtaken PROVE PageOrderInv'
      <3>1. stream.after <= lastLogId /\ stream.after \in Nat /\ lastLogId \in Nat
        BY <1>0, <2>1, <2>7 DEF PageOrderInv, PageInv
      <3>2. \A i \in Visible : i <= stream.after => i <= lastLogId
        BY <1>0, <3>1, IdsAreBounded
      <3> QED BY <1>0, <2>1, <2>2, <2>3, <2>5, <2>7, <3>2 DEF PageOrderInv
    <2> QED BY <2>1, <2>6, <2>7
  <1>5. ASSUME NEW q \in LogPolls, PollSend(q)
        PROVE  PageInv' /\ (~overtaken' => PageOrderInv')
    <2>1. PICK ids : ids = reads[q]
      OBVIOUS
    <2>2. /\ ids # {} /\ shown' = ListedOn(ids) /\ lastLogId' = LastShown(ids)
          /\ stream' = [stream EXCEPT !.after = Largest(ids)]
          /\ reads' = [reads EXCEPT ![q] = {}]
          /\ UNCHANGED <<rows, overtaken>>
      BY <1>5, <2>1 DEF PollSend, agentLog
    <2>3. ids \subseteq Visible /\ Visible' = Visible /\ OnPage \subseteq Visible
      BY <1>0, <2>1, <2>2 DEF PageInv, Visible
    <2>4. /\ shown' \in Seq(SUBSET Nat) /\ OnPage' = OnPage \cup ids
          /\ \A j, k \in DOMAIN shown' : j # k => shown'[j] \cap shown'[k] = {}
          /\ lastLogId' \in Nat /\ lastLogId <= lastLogId'
          /\ \A i \in OnPage' : i <= lastLogId'
          /\ lastLogId' = lastLogId \/ lastLogId' \in ids
      BY <1>0, <2>2, <2>3, PageHears
    <2>5. Largest(ids) \in ids /\ Largest(ids) \in Nat
      <3>1. /\ ids \subseteq Nat /\ Len(rows) \in Nat
            /\ \A i \in ids : i <= Len(rows)
        BY <1>0, <2>3, IdsAreBounded
      <3> QED BY <2>2, <3>1, LargestIsLast
    <2>6. stream' \in [open : BOOLEAN, after : Nat] /\ stream'.after = Largest(ids)
      BY <1>0, <2>2, <2>5 DEF PageInv
    <2>7. /\ reads' \in [LogPolls -> SUBSET Nat]
          /\ \A r \in LogPolls : reads'[r] = reads[r] \/ reads'[r] = {}
      BY <1>0, <2>2 DEF PageInv
    <2>8. PageInv'
      BY <1>0, <2>3, <2>4, <2>6, <2>7 DEF PageInv
    <2>9. ASSUME ~overtaken PROVE PageOrderInv'
      <3>1. \A m \in ids, i \in Visible : i < m => i \in ids \/ i <= lastLogId
        BY <1>0, <2>1, <2>9 DEF PageOrderInv
      <3>2. /\ \A i \in Visible : i <= lastLogId' => i \in OnPage'
            /\ \A j, k \in DOMAIN shown' : \A a \in shown'[j], b \in shown'[k] :
                  j < k => a < b
        BY <1>0, <2>2, <2>3, <2>9, <3>1, PageKeepsOrder
      <3>3. stream'.after <= lastLogId'
        BY <2>4, <2>5, <2>6
      <3>4. \A i \in Visible : i <= lastLogId => i <= lastLogId'
        BY <1>0, <2>4, IdsAreBounded DEF PageInv
      <3> QED BY <1>0, <2>3, <2>7, <2>9, <3>2, <3>3, <3>4 DEF PageOrderInv
    <2> QED BY <2>2, <2>8, <2>9
  <1>6. CASE StreamBreaks
    <2>1. PICK q \in LogPolls, n \in 0..Len(rows) :
             LET got == {i \in reads[q] : i <= n}
             IN shown' = ListedOn(got) /\ lastLogId' = LastShown(got)
      BY <1>6 DEF StreamBreaks
    <2>2. PICK ids : ids = {i \in reads[q] : i <= n}
      OBVIOUS
    <2>3. /\ shown' = ListedOn(ids) /\ lastLogId' = LastShown(ids)
          /\ stream' = [stream EXCEPT !.open = FALSE]
          /\ reads' = [r \in LogPolls |-> {}]
          /\ UNCHANGED <<rows, overtaken>>
      BY <1>6, <2>1, <2>2 DEF StreamBreaks, agentLog
    <2>4. ids \subseteq Visible /\ Visible' = Visible /\ OnPage \subseteq Visible
      BY <1>0, <2>2, <2>3 DEF PageInv, Visible
    <2>5. /\ shown' \in Seq(SUBSET Nat) /\ OnPage' = OnPage \cup ids
          /\ \A j, k \in DOMAIN shown' : j # k => shown'[j] \cap shown'[k] = {}
          /\ lastLogId' \in Nat /\ lastLogId <= lastLogId'
          /\ \A i \in OnPage' : i <= lastLogId'
          /\ lastLogId' = lastLogId \/ lastLogId' \in ids
      BY <1>0, <2>3, <2>4, PageHears
    <2>6. stream' \in [open : BOOLEAN, after : Nat] /\ ~stream'.open
      BY <1>0, <2>3 DEF PageInv
    <2>7. PageInv'
      BY <1>0, <2>3, <2>4, <2>5, <2>6 DEF PageInv
    <2>8. ASSUME ~overtaken PROVE PageOrderInv'
      <3>1. \A m \in ids, i \in Visible : i < m => i \in ids \/ i <= lastLogId
        <4> SUFFICES ASSUME NEW m \in ids, NEW i \in Visible, i < m
                     PROVE  i \in ids \/ i <= lastLogId
          OBVIOUS
        <4>1. i \in reads[q] \/ i <= lastLogId
          BY <1>0, <2>2, <2>8 DEF PageOrderInv
        <4>2. i \in Nat /\ m \in Nat /\ n \in Nat /\ m <= n
          BY <1>0, <2>2, <2>4, IdsAreBounded
        <4> QED BY <2>2, <4>1, <4>2
      <3>2. /\ \A i \in Visible : i <= lastLogId' => i \in OnPage'
            /\ \A j, k \in DOMAIN shown' : \A a \in shown'[j], b \in shown'[k] :
                  j < k => a < b
        BY <1>0, <2>3, <2>4, <2>8, <3>1, PageKeepsOrder
      <3> QED BY <2>3, <2>4, <2>6, <3>2 DEF PageOrderInv
    <2> QED BY <2>3, <2>7, <2>8
  <1>7. CASE rows' = rows
    <2>1. ASSUME NEW p \in posts, Insert(p) \/ Commit(p) \/ PostFails(p)
          PROVE  UNCHANGED <<pageState, overtaken>>
      BY <2>1 DEF Insert, Commit, PostFails
    <2>2. CASE AppendLine \/ FlushNow \/ Exit \/ PostChunk \/ UNCHANGED logVars
      <3>1. UNCHANGED pageState
        BY <2>2 DEF AppendLine, FlushNow, Exit, PostChunk, logVars
      <3>2. ~overtaken' => ~overtaken
        BY <2>2 DEF AppendLine, FlushNow, Exit, PostChunk, logVars
      <3> QED BY <1>2, <1>7, <3>1, <3>2
    <2> QED BY <1>2, <1>3, <1>4, <1>5, <1>6, <1>7, <2>1, <2>2 DEF InstallLogNext
  <1> QED BY <1>0, <1>1, <1>7, TableGrows

-----------------------------------------------------------------------------
(***************************************************************************)
(* The theorem.                                                            *)
(***************************************************************************)
LEMMA AwaitContinues ==
    TableInv /\ AwaitInv /\ [InstallLogNext]_logVars => AwaitInv'
  <1> SUFFICES ASSUME TableInv, AwaitInv, [InstallLogNext]_logVars PROVE AwaitInv'
    OBVIOUS
  <1>0. posts \subseteq Posts
    BY DEF TableInv, TableTyped
  <1> USE DEF AwaitInv
  <1>1. CASE UNCHANGED <<overtaken, logFaults, overWs, posts>>
    BY <1>1
  <1>2. CASE PostChunk
    <2>1. PICK p : p = [pass |-> pass, lo |-> slice.lo,
                        to |-> IF slice.lo + Chunk < slice.hi THEN slice.lo + Chunk
                               ELSE slice.hi,
                        id |-> 0, awaited |-> ~overWs]
      OBVIOUS
    <2>2. posts' = posts \cup {p} /\ p.awaited = ~overWs
      BY <1>2, <2>1 DEF PostChunk
    <2>3. /\ \A q \in posts : ~q.awaited
          /\ overtaken' = (overtaken \/ posts # {}) /\ UNCHANGED <<overWs, logFaults>>
      BY <1>2 DEF PostChunk
    <2> QED BY <2>2, <2>3
  <1>3. ASSUME NEW p \in posts, Insert(p) PROVE AwaitInv'
    <2>1. PICK q : q = [p EXCEPT !.id = Len(rows) + 1]
      OBVIOUS
    <2>2. posts' = (posts \ {p}) \cup {q} /\ UNCHANGED <<overtaken, overWs, logFaults>>
      BY <1>3, <2>1 DEF Insert, agentLog
    <2>3. q.awaited = p.awaited
      BY <1>0, <2>1 DEF Posts
    <2> QED BY <2>2, <2>3
  <1>4. ASSUME NEW p \in posts, Commit(p) PROVE AwaitInv'
    BY <1>4 DEF Commit, agentLog
  <1>5. ASSUME logFaults' = logFaults + 1, UNCHANGED overtaken PROVE AwaitInv'
    BY <1>5
  <1>6. ASSUME NEW p \in posts, PostFails(p) PROVE AwaitInv'
    BY <1>5, <1>6 DEF PostFails, LogFault
  <1>7. CASE StreamBreaks
    BY <1>5, <1>7 DEF StreamBreaks, LogFault
  <1>8. CASE AppendLine \/ FlushNow \/ Exit \/ Connect \/ UNCHANGED logVars
    BY <1>1, <1>8 DEF AppendLine, FlushNow, Exit, Connect, logVars, agentLog
  <1>9. ASSUME NEW q \in LogPolls, PollRead(q) \/ PollSend(q) PROVE AwaitInv'
    BY <1>1, <1>9 DEF PollRead, PollSend, agentLog
  <1> QED
    BY <1>2, <1>3, <1>4, <1>6, <1>7, <1>8, <1>9 DEF InstallLogNext

LEMMA LogContinues == LogInv /\ [InstallLogNext]_logVars => LogInv'
  BY TableContinues, AwaitContinues, PageContinues DEF LogInv

(* The invariant says what the page promises: a line that is missing       *)
(* before a shown one was posted, so it is lost, on its way - which would  *)
(* put it after - or in a row below one shown, and then it is shown.       *)
LEMMA PageIsFaithful == LogInv => LogIsFaithful
  <1> SUFFICES ASSUME LogInv PROVE LogIsFaithful
    OBVIOUS
  <1>0. TableTyped /\ LogTyped /\ RowsInv /\ PageInv /\ PostsInv
        /\ (~overtaken => OrderInv /\ PageOrderInv)
    BY DEF LogInv, TableInv
  <1>1. \A k \in DOMAIN shown :
           shown[k] \subseteq Visible /\ shown[k] \subseteq OnPage
    BY <1>0 DEF PageInv, OnPage
  <1>2. \A j, k \in DOMAIN shown : \A a \in shown[j], b \in shown[k] :
           rows[a] = rows[b] => j = k /\ a = b
    BY <1>0, <1>1 DEF PageInv, RowsInv
  <1>3. ASSUME ~overtaken, NEW j \in DOMAIN shown, NEW k \in DOMAIN shown,
               NEW a \in shown[j], NEW b \in shown[k], ListedBefore(j, a, k, b)
        PROVE  Before(rows[a], rows[b])
    <2>1. a < b
      BY <1>0, <1>3 DEF ListedBefore, PageOrderInv
    <2> QED BY <1>0, <1>1, <1>3, <2>1 DEF OrderInv
  <1>4. ASSUME ~overtaken, NEW a \in OnPage, NEW x \in Lines,
               Before(x, rows[a]), x[2] <= written, x \notin lost
        PROVE  \E b \in OnPage : rows[b] = x
    <2>1. /\ a \in Visible /\ a \in Nat /\ a <= lastLogId /\ lastLogId \in Nat
          /\ Sent(rows[a]) /\ rows[a] \in Nat \X Nat
      <3>1. a \in Visible /\ a \in DOMAIN rows
        BY <1>0 DEF PageInv, Visible
      <3> QED BY <1>0, <3>1, IdsAreBounded DEF PageInv, RowsInv, TableTyped
    <2>2. x \in Nat \X Nat /\ pass \in Nat /\ PostedTo \in Nat /\ x[1] \in {1, 2}
      BY <1>0, LinesArePairs DEF LogTyped, PostedTo
    <2>3. Sent(x)
      BY <1>4, <2>1, <2>2 DEF Sent, Before
    <2>4. ~(Before(rows[a], x)) /\ rows[a] # x
      BY <1>4, <2>1, <2>2 DEF Before
    <2>5. \A p \in posts : x \notin LinesOf(p)
      BY <1>0, <1>4, <2>1, <2>4 DEF OrderInv
    <2>6. PICK b \in Visible : rows[b] = x
      BY <1>0, <1>4, <2>3, <2>5 DEF OrderInv
    <2>7. b \in Nat /\ ~(a < b)
      BY <1>0, <1>4, <2>1, <2>4, <2>6, IdsAreBounded DEF OrderInv
    <2>8. b <= lastLogId
      BY <2>1, <2>7
    <2> QED BY <1>0, <1>4, <2>6, <2>8 DEF PageOrderInv
  <1>5. overtaken => overWs \/ logFaults > 0
    BY DEF LogInv, AwaitInv
  <1> QED BY <1>2, <1>3, <1>4, <1>5 DEF LogIsFaithful

(* The page lists every line of a SteamCMD run at most once; and in the    *)
(* order they were written, without a gap but those of failed posts, as    *)
(* long as no post was made before another was over, which over REST takes *)
(* a failed call (runSteamCmdWithCapture and postLogLines,                 *)
(* appendAgentInstanceLogs, the log stream and the page that follows it):  *)
(* an index that moves before its post, polls that overlap and a stream    *)
(* that starts again from the last id neither repeat a line nor skip one.  *)
THEOREM PageShowsLog == InstallLogSpec => []LogIsFaithful
  BY LogBegins, LogContinues, PageIsFaithful, PTL DEF InstallLogSpec
=============================================================================
