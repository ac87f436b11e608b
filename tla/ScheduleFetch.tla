---------------------------- MODULE ScheduleFetch ----------------------------
(***************************************************************************)
(* The schedule fetch of applications/thread.c.  The shell command         *)
(* test_thread_05 makes the mailbox mb and two threads.  thread2 gets a    *)
(* web page, read by read; in every read it looks for the table cells,     *)
(* files them in user_date_t, five fields per user, and mails the table,   *)
(* its lengths and "over" to thread1.  thread1 takes mails until "over"    *)
(* and then detaches the mailbox.                                          *)
(*                                                                         *)
(* The page is a sequence of cells; a read ends after a cell or inside it. *)
(* Nothing holds the parser's user_num below the entries of the table.     *)
(* Behind user_date_t the build has the frame buffer (rtthread.map), which *)
(* is no state here, and behind user_date_len it has user_date_t: the      *)
(* length of a field of an eleventh or later user is written over fields   *)
(* of the first one.                                                       *)
(* The web client is not modelled further: a request may fail, a response  *)
(* may be chunked, a read may return any part of the rest, or fail.  The   *)
(* mailbox is the channel of module Channel.                               *)
(***************************************************************************)
EXTENDS Naturals, Sequences, FiniteSets

CONSTANTS Pages,     \* the pages the server may have: their cells, in order
          NoCell,    \* an empty cell, <td></td>, or text without the tag
          Cut,       \* what is filed for a cell whose end has not been read
          Spoilt,    \* a field that the length of another one was written into
          Entries,   \* entries of user_date_t (10)
          BufCells,  \* cells GET_RESP_BUFSZ (1024) bytes hold: "<td>x" has five
          MbSize,    \* capacity of mb (64)
          Fetch,     \* identities of the threads that run thread2_entry
          MaxStarts, \* bound: test_thread_05 commands, for each page
          MinRead    \* bound: cells of a read that leaves some behind, for each page

ASSUME PageAssumption == \A p \in Pages : p # <<>> /\ p \in Seq({p[i] : i \in DOMAIN p})
ASSUME SizeAssumption == /\ MbSize \in Nat \ {0} /\ MaxStarts \in [Pages -> Nat]
                         /\ MinRead \in [Pages -> Nat]
ASSUME TableAssumption == Entries \in Nat \ {0} /\ BufCells \in 1 .. 204
ASSUME SpoiltAssumption == /\ Spoilt # NoCell /\ Spoilt # Cut
                           /\ \A p \in Pages : \A i \in DOMAIN p : p[i] # Spoilt

VARIABLES page,              \* what the server has; it does not change
          attached, mb,      \* the mailbox and its mails
          frozen,            \* RT_ASSERT failed with the scheduler locked
          thread1,
          fetch,             \* fetch[f]: where thread2_entry is
          unread,            \* unread[f]: cells the session has not delivered
          content_pos,       \* content_pos[f]
          buffer,            \* buffer[f]: cells in the buffer, old ones behind
          index, j, user_num,\* locals of the parser, per thread
          bytes_read,        \* global variable of the file
          user_date_t, user_date_flag,
          starts

parser == <<buffer, index, j, user_num, user_date_t>>
vars == <<page, attached, mb, frozen, thread1, fetch, unread, content_pos, parser,
          bytes_read, user_date_flag, starts>>

Cell  == {page[i] : i \in DOMAIN page} \cup {NoCell, Cut}
Field == 1 .. 5     \* name, event, address, event_time, importent
Blank == [u \in 0 .. Entries - 1 |-> [g \in Field |-> NoCell]]

Content == Len(page)   \* content_length

-----------------------------------------------------------------------------
(* The shell: test_thread_05.                                              *)

\* rt_thread_create may find no memory
Start ==
    /\ ~ frozen
    /\ starts < MaxStarts[page]
    /\ starts' = starts + 1
    /\ IF attached
       THEN frozen' = TRUE /\ UNCHANGED <<attached, mb, thread1, fetch>>
       ELSE /\ attached' = TRUE
            /\ mb' = <<>>
            /\ thread1' \in {thread1, "recv"}
            /\ fetch' \in {[fetch EXCEPT ![f] = "get"] : f \in {g \in Fetch : fetch[g] = "none"}}
                             \cup {fetch}
            /\ UNCHANGED frozen
    /\ UNCHANGED <<page, unread, content_pos, parser, bytes_read, user_date_flag>>

-----------------------------------------------------------------------------
(* thread1_entry.                                                          *)

\* mutant: the loop goes on after the detach
AfterDetachLoops == "recv"

AfterDetach == "none"

\* mutant: "over" is not recognised
IsOverNever(m) == FALSE

\* str == mb_str3: the address decides
IsOver(m) == m = "over"

Step1(from, to) == ~ frozen /\ thread1 = from /\ thread1' = to

Thread1Recv ==
    /\ attached
    /\ mb # <<>>
    /\ mb' = Tail(mb)
    /\ Step1("recv", IF IsOver(Head(mb)) THEN "detach" ELSE "delay")
    /\ UNCHANGED <<page, attached, frozen, fetch, unread, content_pos, parser, bytes_read,
                   user_date_flag, starts>>

Thread1Delay ==
    /\ Step1("delay", "recv")
    /\ UNCHANGED <<page, attached, mb, frozen, fetch, unread, content_pos, parser, bytes_read,
                   user_date_flag, starts>>

Thread1Detach ==
    /\ Step1("detach", AfterDetach)
    /\ attached' = FALSE
    /\ UNCHANGED <<page, mb, frozen, fetch, unread, content_pos, parser, bytes_read,
                   user_date_flag, starts>>

-----------------------------------------------------------------------------
(* thread2_entry.                                                          *)

Step(f, from, to) == ~ frozen /\ fetch[f] = from /\ fetch' = [fetch EXCEPT ![f] = to]

\* memory, session, request; a response with a length or a chunked one
Get(f) ==
    /\ \E to \in {"none", "read", "chunk"} : Step(f, "get", to)
    /\ unread' = [unread EXCEPT ![f] = page]
    /\ content_pos' = [content_pos EXCEPT ![f] = 0]
    /\ buffer' = [buffer EXCEPT ![f] = <<>>]
    /\ UNCHANGED <<page, attached, mb, frozen, thread1, index, j, user_num, user_date_t,
                   bytes_read, user_date_flag, starts>>

\* n bytes over the start of the buffer; if more follows, the last cell of
\* the read may be cut in its text or in its tag
Filled(f, n, last) ==
    [i \in 1 .. IF n > Len(buffer[f]) THEN n ELSE Len(buffer[f]) |->
        IF i < n THEN unread[f][i] ELSE IF i = n THEN last ELSE buffer[f][i]]

LastCells(f, n) == IF n < Len(unread[f]) THEN {unread[f][n], Cut, NoCell} ELSE {unread[f][n]}

\* mutant: the rest of the page is asked for, whatever the buffer holds
AskForRest(f) == Content - content_pos[f]

AskFor(f) == IF Content - content_pos[f] > BufCells THEN BufCells ELSE Content - content_pos[f]

\* mutant: the users are counted on from the last read
FirstUserKept(f) == user_num[f]

FirstUser(f) == 0

Read(f) ==
    /\ \E n \in 1 .. Len(unread[f]) :
         /\ n <= AskFor(f)
         /\ n >= MinRead[page] \/ n = Len(unread[f])
         /\ \E last \in LastCells(f, n) : buffer' = [buffer EXCEPT ![f] = Filled(f, n, last)]
         /\ bytes_read' = n
         /\ unread' = [unread EXCEPT ![f] = SubSeq(@, n + 1, Len(@))]
    /\ index' = [index EXCEPT ![f] = 0]
    /\ j' = [j EXCEPT ![f] = 1]
    /\ user_num' = [user_num EXCEPT ![f] = FirstUser(f)]
    /\ Step(f, "read", "parse")
    /\ UNCHANGED <<page, attached, mb, frozen, thread1, content_pos, user_date_t, user_date_flag, starts>>

\* a read that returns nothing ends the fetch
ReadFails(f) ==
    /\ \E from \in {"read", "chunk"} : Step(f, from, "none")
    /\ bytes_read' = 0
    /\ UNCHANGED <<page, attached, mb, frozen, thread1, unread, content_pos, parser,
                   user_date_flag, starts>>

\* mutant: the field counter is not put back after the fifth field
NextFieldStuck(n) == IF n = 5 THEN 5 ELSE n + 1

NextField(n) == IF n = 5 THEN 1 ELSE n + 1

Here(f) == IF index[f] < Len(buffer[f]) THEN buffer[f][index[f] + 1] ELSE NoCell

\* mutant: an empty cell is looked at for ever
NextIndexStuck(f) == IF Here(f) = NoCell THEN index[f] ELSE index[f] + 1

NextIndex(f) == index[f] + 1

\* mutant: the increment stands behind the branches of the five fields
NextUserAlways(f) == (user_num[f] + 1) % 256

\* user_num is a byte
NextUser(f) == IF j[f] = 5 THEN (user_num[f] + 1) % 256 ELSE user_num[f]

\* the table after the cell: past its end the record is written elsewhere, and
\* the length into the first entry, over one of these fields or beside them
TableAfter(f) ==
    IF user_num[f] < Entries
    THEN {[user_date_t EXCEPT ![user_num[f]][j[f]] = Here(f)]}
    ELSE {user_date_t} \cup {[user_date_t EXCEPT ![0][g] = Spoilt] : g \in Field}

\* one cell: an empty one is skipped and does not count as a field
ParseCell(f) ==
    /\ index[f] < bytes_read
    /\ Step(f, "parse", "parse")
    /\ index' = [index EXCEPT ![f] = NextIndex(f)]
    /\ IF Here(f) # NoCell
       THEN /\ user_date_t' \in TableAfter(f)
            /\ j' = [j EXCEPT ![f] = NextField(@)]
            /\ user_num' = [user_num EXCEPT ![f] = NextUser(f)]
       ELSE UNCHANGED <<user_date_t, j, user_num>>
    /\ UNCHANGED <<page, attached, mb, frozen, thread1, unread, content_pos, buffer,
                   bytes_read, user_date_flag, starts>>

ParseEnd(f) ==
    /\ index[f] >= bytes_read
    /\ Step(f, "parse", "send_table")
    /\ UNCHANGED <<page, attached, mb, frozen, thread1, unread, content_pos, parser,
                   bytes_read, user_date_flag, starts>>

\* mutant: no check for a full mailbox
MailedUnbounded(m) == Append(mb, m)

\* rt_mb_send without waiting, its result ignored
Mailed(m) == IF Len(mb) < MbSize THEN Append(mb, m) ELSE mb

\* rt_mb_send asserts on a detached mailbox, and the thread spins
Send(f, from, m, to) ==
    /\ Step(f, from, IF attached THEN to ELSE "assert")
    /\ mb' = IF attached THEN Mailed(m) ELSE mb
    /\ UNCHANGED <<page, attached, frozen, thread1, unread, content_pos, parser,
                   bytes_read, user_date_flag, starts>>

SendTable(f) == Send(f, "send_table", "table", "send_len")
SendLen(f)   == Send(f, "send_len", "len", "send_over")
SendOver(f)  == Send(f, "send_over", "over", "next")

\* a chunk is read and mailed unparsed, by the address of the buffer pointer
ChunkRead(f) ==
    /\ unread[f] # <<>>
    /\ Step(f, "chunk", "send_buffer")
    /\ unread' = [unread EXCEPT ![f] = Tail(@)]
    /\ bytes_read' = 1
    /\ UNCHANGED <<page, attached, mb, frozen, thread1, content_pos, parser, user_date_flag, starts>>

ChunkSend(f) == Send(f, "send_buffer", "buffer", "chunk")

\* the flag, the position, the loop condition
ReadNext(f) ==
    /\ user_date_flag' = TRUE
    /\ content_pos' = [content_pos EXCEPT ![f] = @ + bytes_read]
    /\ Step(f, "next", IF content_pos'[f] < Content THEN "read" ELSE "none")
    /\ UNCHANGED <<page, attached, mb, frozen, thread1, unread, parser, bytes_read, starts>>

-----------------------------------------------------------------------------
Init == /\ page \in Pages
        /\ attached = FALSE
        /\ mb = <<>>
        /\ frozen = FALSE
        /\ thread1 = "none"
        /\ fetch = [f \in Fetch |-> "none"]
        /\ unread = [f \in Fetch |-> <<>>]
        /\ content_pos = [f \in Fetch |-> 0]
        /\ buffer = [f \in Fetch |-> <<>>]
        /\ index = [f \in Fetch |-> 0]
        /\ j = [f \in Fetch |-> 1]
        /\ user_num = [f \in Fetch |-> 0]
        /\ bytes_read = 0
        /\ user_date_t = Blank
        /\ user_date_flag = FALSE
        /\ starts = 0

Thread1 == Thread1Recv \/ Thread1Delay \/ Thread1Detach
Thread2(f) == \/ Get(f) \/ Read(f) \/ ReadFails(f)
              \/ ParseCell(f) \/ ParseEnd(f)
              \/ SendTable(f) \/ SendLen(f) \/ SendOver(f) \/ ReadNext(f)
              \/ ChunkRead(f) \/ ChunkSend(f)

Next == Start \/ Thread1 \/ \E f \in Fetch : Thread2(f)

\* ready threads run in the end, and a read returns: the web client gives up
\* after its receive timeout
Fairness == WF_vars(Thread1) /\ \A f \in Fetch : WF_vars(Thread2(f))

Spec == Init /\ [][Next]_vars /\ Fairness

-----------------------------------------------------------------------------
(* Properties.                                                             *)

\* The variables have their types.
TypeOK == /\ attached \in BOOLEAN /\ frozen \in BOOLEAN /\ user_date_flag \in BOOLEAN
          /\ mb \in Seq({"table", "len", "buffer", "over"}) /\ Len(mb) <= MbSize
          /\ thread1 \in {"none", "recv", "delay", "detach"}
          /\ fetch \in [Fetch -> {"none", "get", "read", "parse", "send_table", "send_len",
                                   "send_over", "next", "chunk", "send_buffer", "assert"}]
          /\ \A f \in Fetch : unread[f] \in Seq(Cell) /\ buffer[f] \in Seq(Cell)
          /\ index \in [Fetch -> 0 .. Content] /\ j \in [Fetch -> Field]
          /\ user_num \in [Fetch -> 0 .. 255]
          /\ content_pos \in [Fetch -> Nat] /\ bytes_read \in 0 .. Content
          /\ user_date_t \in [0 .. Entries - 1 -> [Field -> Cell \cup {Spoilt}]]
          /\ starts \in 0 .. MaxStarts[page] /\ page \in Pages

\* When the mailbox is detached its consumer has ended: no thread1 of an
\* earlier command is left that would use the mailbox of the next one, or a
\* detached one, and the command makes at most one consumer.
DetachedMeansDone == ~ attached => thread1 = "none"

\* No read and no parser goes behind the buffer, although a second thread
\* changes the shared bytes_read.
InBuffer == \A f \in Fetch : Len(buffer[f]) <= BufCells /\ index[f] <= BufCells

\* user_num is at most a fifth of the cells looked at: it passes the entries of
\* the table in a read of more than 5 * Entries cells, and in no other.
FieldPerCell == \A f \in Fetch : 5 * user_num[f] + j[f] <= index[f] + 1

\* What such a read spoils is the first user, and a page the table has room
\* for spoils nothing.
SpoiltByOverrun ==
    \A u \in 0 .. Entries - 1, g \in Field :
        user_date_t[u][g] = Spoilt => u = 0 /\ Content > 5 * Entries

\* The mailbox and the buffer never hold more than they have room for, user_num
\* leaves the table only on a page with too many cells, which spoils the first
\* user only, and a consumer exists only while its mailbox does: through
\* restarts, and with a second thread2 on the same bytes_read.
ServiceInv == TypeOK /\ DetachedMeansDone /\ InBuffer /\ FieldPerCell /\ SpoiltByOverrun

\* The number of cell i among the cells of the read that are not empty.
Place(f, i) == Cardinality({x \in 1 .. i : buffer[f][x] # NoCell})

\* The n-th of them belongs in field n of the table, five fields per user,
\* unless the table has no such user, or n is of the first user and the read
\* went past the table.
FiledAs(n, cell) ==
    \/ n > 5 * Entries
    \/ user_date_t[(n - 1) \div 5][((n - 1) % 5) + 1] = cell
    \/ /\ user_date_t[(n - 1) \div 5][((n - 1) % 5) + 1] = Spoilt
       /\ n <= 5 /\ bytes_read > 5 * Entries

\* When the table is mailed every read has been filed from the first user on,
\* whatever the reads before it left in the counters and in the buffer; empty
\* cells take no field.  A page that came in one read is filed as it is.
ReadIsFiled ==
    \A f \in Fetch :
        fetch[f] = "send_table" /\ starts = 1 =>
            /\ \A i \in 1 .. bytes_read :
                  buffer[f][i] # NoCell => FiledAs(Place(f, i), buffer[f][i])
            /\ content_pos[f] = 0 /\ unread[f] = <<>> => buffer[f] = page

\* Once "over" is in the mailbox thread1 reaches it and detaches the mailbox,
\* so that the command can be given again.
OverEndsService == (thread1 # "none" /\ \E i \in DOMAIN mb : mb[i] = "over")
                      ~> (~ attached \/ frozen)

\* thread2 ends, in whatever parts the page arrives, with empty cells, and
\* also when a second thread2 changes the shared bytes_read under its loops.
FetchEnds == \A f \in Fetch : (fetch[f] \notin {"none", "assert"})
                                 ~> (fetch[f] \in {"none", "assert"} \/ frozen)

=============================================================================
