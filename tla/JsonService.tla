----------------------------- MODULE JsonService -----------------------------
(***************************************************************************)
(* The JSON service of applications/test_esp32.c: the esp32 thread, whose  *)
(* scanning loop is module EspParser, collects a JSON text in app_buffer   *)
(* and, when the serial line has been silent for 1000 ticks, mails a       *)
(* pointer to it and then the mail "over" to the json thread.  The json    *)
(* thread parses one text into the user table, has a json_state thread made*)
(* that makes the next json thread, and ends; on "over" it detaches the    *)
(* mailbox.  The shell starts it all.                                      *)
(*                                                                         *)
(* The mailbox is the bounded first-in first-out channel of module Channel,*)
(* which module Mailbox is shown to implement.                             *)
(***************************************************************************)
EXTENDS EspParser, SequencesExt

CONSTANTS MbSize,     \* capacity of json_mb (64 in the code)
          Job,        \* identities for the threads of the json_thread chain
          MaxStarts   \* bound: test_rtt_uart_esp32 commands

\* room for the two mails of a text
ASSUME BoundAssumption == MbSize \in Nat \ {0, 1} /\ MaxStarts \in Nat

VARIABLES attached,   \* json_mb is a mailbox in the kernel's object list
          json_mb,    \* its mails: the address of app_buffer, or "over"
          rx_mq_made, \* rx_mq is in the object list: an esp32 thread has run
          esp_new,    \* esp32 threads created and not yet run
          job,        \* job[j]: where thread j of the json chain is
          num,        \* the value of user_num a json thread is adding one to
          passed,     \* the esp32 thread has slept since that was read
          frozen,     \* RT_ASSERT failed with the scheduler locked
          docs, starts

jsonVars == <<attached, json_mb, rx_mq_made, esp_new, job, num, passed, frozen, docs, starts>>
vars == <<espVars, jsonVars>>

Live == ~ frozen /\ e.pc # "overrun"

\* mutant: no check for a full mailbox
MailedUnbounded(m) == Append(json_mb, m)

\* rt_mb_send does not wait, and its result (-RT_EFULL) is ignored
Mailed(m) == IF Len(json_mb) < MbSize THEN Append(json_mb, m) ELSE json_mb

-----------------------------------------------------------------------------
(* The shell: test_rtt_uart_esp32.                                         *)

\* mutant: rt_object_init does not look for the object in the list
InUseUnchecked == FALSE

\* rt_mb_init -> rt_object_init: RT_ASSERT(obj != object)
InUse == attached

\* the threads rt_thread_create makes, or none when memory is short
NewJob == {[job EXCEPT ![j] = "recv"] : j \in {k \in Job : job[k] = "none"}} \cup {job}

Start ==
    /\ Live
    /\ starts < MaxStarts
    /\ starts' = starts + 1
    /\ IF InUse
       THEN /\ frozen' = TRUE
            /\ UNCHANGED <<attached, json_mb, esp_new, job>>
       ELSE /\ attached' = TRUE
            /\ json_mb' = <<>>
            /\ esp_new' \in {esp_new, esp_new + 1}
            /\ job' \in NewJob
            /\ UNCHANGED frozen
    /\ UNCHANGED <<espVars, rx_mq_made, num, passed, docs>>

-----------------------------------------------------------------------------
(* esp32_thread_entry.                                                     *)

\* its start: rt_mq_init(&rx_mq, ...), the two built-in users, the loop.  A
\* second thread asserts in rt_object_init, with the scheduler locked
EspStart ==
    /\ Live
    /\ esp_new > 0
    /\ esp_new' = esp_new - 1
    /\ IF rx_mq_made
       THEN frozen' = TRUE /\ UNCHANGED <<e, user_date_t, user_quan_flag, rx_mq_made>>
       ELSE /\ e' = [e EXCEPT !.pc = "recv"]
            /\ user_date_t' = [user_date_t EXCEPT ![0] = <<"user1">>, ![1] = <<"user2">>]
            /\ user_quan_flag' = 0
            /\ rx_mq_made' = TRUE
            /\ UNCHANGED frozen
    /\ UNCHANGED <<line, items, uart_rx_buffer, app_buffer, user_num, seen,
                   attached, json_mb, job, num, passed, docs, starts>>

\* Both threads have priority 25 and share the processor in turns.  A json
\* thread that loses it between reading and writing user_num is ready, so
\* the esp32 thread runs at most until its next sleep before it
Counting == \E j \in Job : job[j] = "count"
MayRun   == Live /\ ~ (Counting /\ passed)
Passes   == passed' = (passed \/ (Counting /\ Asleep(e'.pc)))

PhoneSends ==
    /\ Live
    /\ \E x \in Item : Phone(x)
    /\ UNCHANGED jsonVars

EspReads ==
    /\ MayRun
    /\ \E n \in 0 .. Len(line) : EspRead(n)
    /\ Passes
    /\ UNCHANGED <<attached, json_mb, rx_mq_made, esp_new, job, num, frozen, docs, starts>>

EspScans ==
    /\ MayRun
    /\ EspScan
    /\ Passes
    /\ UNCHANGED <<attached, json_mb, rx_mq_made, esp_new, job, num, frozen, docs, starts>>

\* mutant: "over" goes first
FirstMailSwapped == "over"

FirstMail == "app_buffer"

\* rt_mq_recv times out with a text collected: mail the text, then "over".
\* rt_mb_send asserts on a mailbox that was detached, and the thread spins
SendText ==
    /\ MayRun
    /\ e.pc = "recv" /\ line = <<>> /\ e.readstate
    /\ IF attached
       THEN json_mb' = Mailed(FirstMail) /\ e' = [e EXCEPT !.pc = "send_over"]
       ELSE e' = [e EXCEPT !.pc = "assert"] /\ UNCHANGED json_mb
    /\ docs' = docs + 1
    /\ UNCHANGED <<line, items, uart_rx_buffer, app_buffer, user_num, user_date_t,
                   user_quan_flag, seen, attached, rx_mq_made, esp_new, job, num, passed,
                   frozen, starts>>

\* mutant: length is not put back
AfterTextKept == [e EXCEPT !.pc = "recv", !.readstate = FALSE]

AfterText == [e EXCEPT !.pc = "recv", !.readstate = FALSE, !.length = 0]

SendOver ==
    /\ MayRun
    /\ e.pc = "send_over"
    /\ IF attached
       THEN json_mb' = Mailed("over") /\ e' = AfterText
       ELSE e' = [e EXCEPT !.pc = "assert"] /\ UNCHANGED json_mb
    /\ UNCHANGED <<line, items, uart_rx_buffer, app_buffer, user_num, user_date_t,
                   user_quan_flag, seen, attached, rx_mq_made, esp_new, job, num, passed,
                   frozen, docs, starts>>

-----------------------------------------------------------------------------
(* json_thread_entry and json_state_thread_entry.                          *)

JobStep(j, from, to) == Live /\ job[j] = from /\ job' = [job EXCEPT ![j] = to]

AfterRecv == Tail(json_mb)

\* rt_mb_recv(&json_mb, &str, RT_WAITING_FOREVER); on a detached mailbox it
\* asserts, and the thread spins
JsonRecv(j) ==
    /\ IF attached
       THEN /\ json_mb # <<>>
            /\ json_mb' = AfterRecv
            /\ JobStep(j, "recv", IF Head(json_mb) = "over" THEN "detach" ELSE "parse")
       ELSE JobStep(j, "recv", "assert") /\ UNCHANGED json_mb
    /\ UNCHANGED <<espVars, attached, rx_mq_made, esp_new, num, passed, frozen, docs, starts>>

\* strlen: the bytes before the first NUL
Strlen(buf) == CHOOSE n \in 0 .. AppSize :
                  /\ n = AppSize \/ buf[n] = Nul
                  /\ \A x \in 0 .. n - 1 : buf[x] # Nul
String(buf) == [b \in 1 .. Strlen(buf) |-> buf[b - 1]]

\* jsmn_parse: no object without both braces; bytes behind the object may or
\* may not make it refuse the text
HasObject(s) == s # <<>> /\ s[1] = "{" /\ Contains(s, "}")
Object(s)    == SubSeq(s, 1, SelectInSeq(s, LAMBDA b : b = "}"))
Accepts(s)   == IF ~ HasObject(s) THEN {FALSE}
                ELSE IF Object(s) = s THEN {TRUE} ELSE BOOLEAN

\* app_buffer is parsed as it is now, and what it holds goes to entry 0; then
\* user_num is read.  If jsmn refuses the text the thread returns
JsonParse(j) ==
    /\ \E ok \in Accepts(String(app_buffer)) :
          IF ok
          THEN /\ JobStep(j, "parse", "count")
               /\ user_date_t' = [user_date_t EXCEPT ![0] = Object(String(app_buffer))]
               /\ num' = user_num
          ELSE JobStep(j, "parse", "none") /\ UNCHANGED <<user_date_t, num>>
    /\ passed' = FALSE
    /\ UNCHANGED <<line, items, uart_rx_buffer, app_buffer, e, user_num, user_quan_flag, seen,
                   attached, json_mb, rx_mq_made, esp_new, frozen, docs, starts>>

\* user_num++ is complete
JsonCount(j) ==
    /\ JobStep(j, "count", "spawn_state")
    /\ user_num' = num + 1
    /\ passed' = FALSE
    /\ UNCHANGED <<line, items, uart_rx_buffer, app_buffer, e, user_date_t, user_quan_flag, seen,
                   attached, json_mb, rx_mq_made, esp_new, num, frozen, docs, starts>>

\* rt_thread_create of the json_state thread, and by it of the next json
\* thread: the chain goes on under the same identity unless memory is short
JsonSpawn(j) ==
    /\ \/ JobStep(j, "spawn_state", "spawn_json")
       \/ JobStep(j, "spawn_json", "recv")
       \/ JobStep(j, "spawn_state", "none")
       \/ JobStep(j, "spawn_json", "none")
    /\ UNCHANGED <<espVars, attached, json_mb, rx_mq_made, esp_new, num, passed, frozen,
                   docs, starts>>

\* mutant: the loop goes on after the detach
AfterDetachLoops == "recv"

AfterDetach == "none"

\* rt_mb_detach(&json_mb), the last act of the thread
JsonDetach(j) ==
    /\ JobStep(j, "detach", IF attached THEN AfterDetach ELSE "assert")
    /\ attached' = FALSE
    /\ UNCHANGED <<espVars, json_mb, rx_mq_made, esp_new, num, passed, frozen, docs, starts>>

-----------------------------------------------------------------------------
Init == /\ EspInit
        /\ attached = FALSE
        /\ json_mb = <<>>
        /\ rx_mq_made = FALSE
        /\ esp_new = 0
        /\ job = [j \in Job |-> "none"]
        /\ num = 0
        /\ passed = FALSE
        /\ frozen = FALSE
        /\ docs = 0
        /\ starts = 0

EspNext == EspStart \/ EspReads \/ EspScans \/ SendText \/ SendOver

JobNext(j) == JsonRecv(j) \/ JsonParse(j) \/ JsonCount(j) \/ JsonSpawn(j) \/ JsonDetach(j)

Next == Start \/ PhoneSends \/ EspNext \/ \E j \in Job : JobNext(j)

\* every ready thread runs in the end, notified bytes are read and the receive
\* timeout expires; no assumption on the phone or on the shell
Fairness == /\ WF_vars(EspNext)
            /\ \A j \in Job : WF_vars(JobNext(j))

Spec == Init /\ [][Next]_vars /\ Fairness

-----------------------------------------------------------------------------
(* Properties.                                                             *)

\* The variables have their types.
TypeOK == /\ EspTypeOK
          /\ attached \in BOOLEAN /\ rx_mq_made \in BOOLEAN /\ frozen \in BOOLEAN
          /\ passed \in BOOLEAN
          /\ json_mb \in Seq({"app_buffer", "over"})
          /\ Len(json_mb) <= MbSize
          /\ job \in [Job -> {"none", "recv", "parse", "count", "spawn_state", "spawn_json",
                               "detach", "assert"}]
          /\ num \in Nat /\ esp_new \in Nat /\ docs \in Nat /\ starts \in Nat

\* However often the service is started and however the threads of the chain
\* follow each other, at most one of them is alive: two json threads would
\* steal each other's mails and write the same table entry.
OneConsumer == Cardinality({j \in Job : job[j] # "none"}) <= 1

\* The json thread never calls the mailbox after it was detached, because only
\* the chain itself detaches it, as its last act.
ConsumerNeverAsserts == \A j \in Job : job[j] # "assert"

\* The chain of json threads is one thread at a time, which uses the mailbox only
\* while it exists; the mailbox is never filled past its size.
ChainInv == TypeOK /\ OneConsumer /\ ConsumerNeverAsserts

\* No entry is counted twice or uncalled for: a byte of an earlier batch never
\* completes a command, a text dropped or overwritten is not counted, and the
\* two threads that count may lose a count but never add one.  The exception is
\* a listing that has moved i behind the end of a batch, where old bytes are
\* looked at again.
CountsOnlyAsked == ~ seen.jumped => user_num - 2 <= seen.adds + docs

\* The first well-formed text after the start, in whatever batches it came, is
\* parsed into the table and counted, if the json thread is there to take it,
\* no further byte comes before it is and the last batch was not a single byte.
FirstTextIsStored ==
    \A t \in {x \in Text : HasObject(x)} :
        (/\ docs = 0 /\ e.pc = "recv" /\ e.readstate /\ seen.aligned /\ seen.text = t
         /\ e.rx_length >= 2 /\ line = <<>>
         /\ attached /\ \E j \in Job : job[j] = "recv")
           ~> ((user_date_t[0] = t /\ user_num >= 3) \/ line # <<>> \/ ~ Live)

\* The scan of a batch ends: the thread comes back for the next message, and
\* neither a listing nor a count that grows meanwhile keeps it.
ScanEnds == (e.pc = "scan") ~> (e.pc = "recv" \/ ~ Live)

\* The RT_ASSERT on the object type in rt_mb_send_wait holds for the esp32
\* thread's sends.
SenderNeverAsserts == e.pc # "assert"
=============================================================================
