------------------------------ MODULE InstallLog ------------------------------
(***************************************************************************)
(* The output of one SteamCMD run on its way to the page of the server:    *)
(* the agent posts it in slices while it grows, and all of it once more    *)
(* when the run fails; the server inserts each post; the page follows an   *)
(* event stream that polls the table.                                      *)
(*                                                                         *)
(* Over REST a post waits for its answer; when the answer is lost the      *)
(* agent goes on, and the server may yet insert what was posted.  Over the *)
(* WebSocket a post counts as done when it is sent, and each message is    *)
(* its own task on the server: rows take their ids when they are inserted  *)
(* and are seen when that insert commits.                                  *)
(***************************************************************************)
EXTENDS Naturals, Sequences, FiniteSets

CONSTANTS
    MaxLines,       \* bound: lines that SteamCMD writes
    Chunk,          \* LOG_CHUNK
    Page,           \* rows that one poll reads (2000)
    LogPolls,       \* polls of one stream that overlap
    MaxLogFaults    \* bound: failed posts and dropped streams

ASSUME InstallLogAssumption ==
    /\ MaxLines \in Nat /\ Chunk \in Nat \ {0} /\ Page \in Nat \ {0}
    /\ MaxLogFaults \in Nat

VARIABLES
    overWs,     \* posts take the WebSocket
    steam,      \* the run: "running", "closed", "ended" (its exit handled)
    written,    \* allLines.length
    postedIdx,  \* lastPostedIdx
    pass,       \* 1: streamed, 2: the full output after a failure
    slice,      \* what postLogLines has still to post: lines lo+1 .. hi
    posts,      \* posts on their way, or inserted and not committed
    overtaken,  \* history: a post was made before another was over
    rows,       \* instance_log_lines: id -> line, NoLine until it commits
    lost,       \* history: lines whose post failed
    stream,     \* the event stream: open, and the id it has sent up to
    reads,      \* poll -> ids of the rows it has read and not sent
    shown,      \* the page: the ids each poll added to it, in ascending order
                \* (those of the last 8000 lines are still to be seen)
    lastLogId,  \* lastLogIdRef of the page
    logFaults

agentLog == <<overWs, steam, written, postedIdx, pass, slice>>
pageState == <<stream, reads, shown, lastLogId>>
logVars == <<agentLog, posts, overtaken, rows, lost, pageState, logFaults>>

Lines == (1..2) \X (1..MaxLines)        \* <<pass, line>>
NoLine == <<0, 0>>
Empty == [lo |-> 0, hi |-> 0]

InstallLogTypeOK ==
    /\ overWs \in BOOLEAN /\ steam \in {"running", "closed", "ended"}
    /\ written \in 0..MaxLines /\ postedIdx \in 0..written /\ pass \in 1..2
    /\ slice.lo \in 0..slice.hi /\ slice.hi \in 0..written
    /\ posts \subseteq [pass : 1..2, lo : 0..written, to : 1..written,
                       id : 0..Len(rows), awaited : BOOLEAN]
    /\ overtaken \in BOOLEAN
    /\ rows \in Seq(Lines \cup {NoLine}) /\ lost \subseteq Lines
    /\ stream \in [open : BOOLEAN, after : 0..Len(rows)]
    /\ reads \in [LogPolls -> SUBSET (1..Len(rows))]
    /\ shown \in Seq(SUBSET (1..Len(rows))) /\ lastLogId \in 0..Len(rows)
    /\ logFaults \in 0..MaxLogFaults

InstallLogInit ==
    /\ overWs \in BOOLEAN /\ steam = "running" /\ written = 0
    /\ postedIdx = 0 /\ pass = 1 /\ slice = Empty /\ posts = {}
    /\ overtaken = FALSE /\ rows = <<>> /\ lost = {}
    /\ stream = [open |-> FALSE, after |-> 0]
    /\ reads = [q \in LogPolls |-> {}] /\ shown = <<>> /\ lastLogId = 0
    /\ logFaults = 0

LogFault == logFaults < MaxLogFaults /\ logFaults' = logFaults + 1

-----------------------------------------------------------------------------
(***************************************************************************)
(* runSteamCmdWithCapture.                                                 *)
(***************************************************************************)

(* A line is complete; when the run closes, what is carried is a line too. *)
AppendLine ==
    /\ steam = "running" /\ written < MaxLines
    /\ written' = written + 1
    /\ steam' \in {"running", "closed"}
    /\ UNCHANGED <<overWs, postedIdx, pass, slice, posts, overtaken, rows,
                   lost, pageState, logFaults>>

(* flushNow, one flush at a time: by the interval, by a burst of lines, or *)
(* after the run has closed.  The index moves before the post.             *)
FlushNow ==
    /\ pass = 1 /\ steam # "ended"
    /\ slice = Empty /\ postedIdx < written
    /\ slice' = [lo |-> postedIdx, hi |-> written]
    /\ postedIdx' = written
    /\ UNCHANGED <<overWs, steam, written, pass, posts, overtaken, rows, lost,
                   pageState, logFaults>>

(* Mutant: the index moves only when the post is done.                     *)
FlushNowLate ==
    /\ pass = 1 /\ steam # "ended"
    /\ slice = Empty /\ postedIdx < written
    /\ slice' = [lo |-> postedIdx, hi |-> written]
    /\ UNCHANGED <<overWs, steam, written, postedIdx, pass, posts, overtaken,
                   rows, lost, pageState, logFaults>>

(* The run is over; provisionInstance posts all lines again if it failed.  *)
Exit ==
    /\ steam = "closed" /\ slice = Empty /\ postedIdx = written
    /\ (\A p \in posts : ~p.awaited) /\ steam' = "ended"
    /\ \/ UNCHANGED <<pass, slice>>
       \/ pass' = 2 /\ slice' = [lo |-> 0, hi |-> written]
    /\ UNCHANGED <<overWs, written, postedIdx, posts, overtaken, rows, lost,
                   pageState, logFaults>>

(* postLogLines: one chunk after the other, over REST each one awaited.    *)
PostChunk ==
    /\ slice # Empty /\ (\A p \in posts : ~p.awaited)
    /\ LET to == IF slice.lo + Chunk < slice.hi THEN slice.lo + Chunk
                 ELSE slice.hi
       IN /\ posts' = posts \cup
                {[pass |-> pass, lo |-> slice.lo, to |-> to, id |-> 0,
                  awaited |-> ~overWs]}
          /\ slice' = IF to = slice.hi THEN Empty
                      ELSE [slice EXCEPT !.lo = to]
    /\ overtaken' = (overtaken \/ posts # {})
    /\ UNCHANGED <<overWs, steam, written, postedIdx, pass, rows, lost,
                   pageState, logFaults>>

-----------------------------------------------------------------------------
(***************************************************************************)
(* appendAgentInstanceLogs.                                                *)
(***************************************************************************)
LinesOf(p) == {<<p.pass, k>> : k \in (p.lo + 1)..p.to}

Insert(p) ==
    /\ p \in posts /\ p.id = 0
    /\ posts' = (posts \ {p}) \cup {[p EXCEPT !.id = Len(rows) + 1]}
    /\ rows' = rows \o [k \in 1..(p.to - p.lo) |-> NoLine]
    /\ UNCHANGED <<agentLog, overtaken, lost, pageState, logFaults>>

(* The ids of an inserted post, and the table once it commits.             *)
IdsOf(p) == p.id..(p.id + (p.to - p.lo) - 1)
Committed(p) ==
    [i \in DOMAIN rows |-> IF i \in IdsOf(p)
                           THEN <<p.pass, p.lo + 1 + (i - p.id)>> ELSE rows[i]]

Commit(p) ==
    /\ p \in posts /\ p.id # 0
    /\ posts' = posts \ {p} /\ rows' = Committed(p)
    /\ UNCHANGED <<agentLog, overtaken, lost, pageState, logFaults>>

(* A post fails, or only its answer is lost, and the server goes on with   *)
(* it; over REST the flush then gives up the rest of its slice.            *)
Rest(p) == IF p.awaited THEN {<<pass, k>> : k \in (slice.lo + 1)..slice.hi}
           ELSE {}

PostFails(p) ==
    /\ p \in posts /\ LogFault
    /\ \/ posts' = posts \ {p} /\ lost' = lost \cup LinesOf(p) \cup Rest(p)
       \/ /\ p.awaited /\ lost' = lost \cup Rest(p)
          /\ posts' = (posts \ {p}) \cup {[p EXCEPT !.awaited = FALSE]}
    /\ slice' = IF p.awaited THEN Empty ELSE slice
    /\ UNCHANGED <<overWs, steam, written, postedIdx, pass, overtaken, rows,
                   pageState>>

-----------------------------------------------------------------------------
(***************************************************************************)
(* GET .../logs/stream, and the page that follows it.                      *)
(***************************************************************************)
Connect ==
    /\ ~stream.open
    /\ stream' = [open |-> TRUE, after |-> lastLogId]
    /\ UNCHANGED <<agentLog, posts, overtaken, rows, lost, reads, shown,
                   lastLogId, logFaults>>

Visible == {i \in DOMAIN rows : rows[i] # NoLine}
Largest(ids) == CHOOSE i \in ids : \A j \in ids : j <= i

(* setInterval does not wait for the poll before: polls overlap.           *)
PollRead(q) ==
    /\ stream.open /\ reads[q] = {}
    /\ LET new == {i \in Visible : i > stream.after}
           page == {i \in new : Cardinality({j \in new : j < i}) < Page}
       IN new # {} /\ reads' = [reads EXCEPT ![q] = page]
    /\ UNCHANGED <<agentLog, posts, overtaken, rows, lost, stream, shown,
                   lastLogId, logFaults>>

OnPage == UNION {shown[k] : k \in DOMAIN shown}

(* Mutant: ids are listed as they come.                                    *)
ListedUnseen(ids) == Append(shown, ids)

(* The listener of the page: an id that it has seen is not listed again.   *)
ListedOn(ids) ==
    IF ids \subseteq OnPage THEN shown ELSE Append(shown, ids \ OnPage)

LastShown(ids) == Largest(ids \cup {lastLogId})

PollSend(q) ==
    /\ stream.open /\ reads[q] # {}
    /\ shown' = ListedOn(reads[q]) /\ lastLogId' = LastShown(reads[q])
    /\ stream' = [stream EXCEPT !.after = Largest(reads[q])]
    /\ reads' = [reads EXCEPT ![q] = {}]
    /\ UNCHANGED <<agentLog, posts, overtaken, rows, lost, logFaults>>

(* The stream breaks, with part of what a poll sent; the page reconnects   *)
(* from the last id it has.                                                *)
StreamBreaks ==
    /\ stream.open /\ LogFault
    /\ \E q \in LogPolls : \E n \in 0..Len(rows) :
          LET got == {i \in reads[q] : i <= n}
          IN shown' = ListedOn(got) /\ lastLogId' = LastShown(got)
    /\ stream' = [stream EXCEPT !.open = FALSE]
    /\ reads' = [q \in LogPolls |-> {}]
    /\ UNCHANGED <<agentLog, posts, overtaken, rows, lost>>

InstallLogNext ==
    \/ AppendLine \/ FlushNow \/ Exit \/ PostChunk
    \/ \E p \in posts : Insert(p) \/ Commit(p) \/ PostFails(p)
    \/ Connect \/ StreamBreaks
    \/ \E q \in LogPolls : PollRead(q) \/ PollSend(q)

InstallLogSpec == InstallLogInit /\ [][InstallLogNext]_logVars

-----------------------------------------------------------------------------
(***************************************************************************)
(* The page lists every line at most once.  And it lists the lines in the  *)
(* order SteamCMD wrote them and leaves out none but those whose post      *)
(* failed, however polls overlap and streams break, as long as every post  *)
(* is over before the next is made: what the WebSocket does not promise,   *)
(* and REST promises as long as no call fails.                             *)
(***************************************************************************)
ListedBefore(j, a, k, b) == j < k \/ (j = k /\ a < b)
Before(x, y) == x[1] < y[1] \/ (x[1] = y[1] /\ x[2] < y[2])

LogIsFaithful ==
    /\ \A j, k \in DOMAIN shown : \A a \in shown[j], b \in shown[k] :
          rows[a] = rows[b] => j = k /\ a = b
    /\ overtaken => overWs \/ logFaults > 0
    /\ ~overtaken =>
          /\ \A j, k \in DOMAIN shown : \A a \in shown[j], b \in shown[k] :
                ListedBefore(j, a, k, b) => Before(rows[a], rows[b])
          /\ \A a \in OnPage, x \in Lines :
                Before(x, rows[a]) /\ x[2] <= written =>
                   x \in lost \/ \E b \in OnPage : rows[b] = x
=============================================================================
