------------------------------ MODULE EspParser ------------------------------
(***************************************************************************)
(* The loop of esp32_thread_entry, applications/test_esp32.c: the thread   *)
(* reads what one notification announces into uart_rx_buffer, puts a NUL   *)
(* behind it and looks at it position by position for the commands "get",  *)
(* "add" and "sign" and for the start of a JSON text.  From there on every *)
(* position copies a window of rx_length bytes to app_buffer[length], and  *)
(* length grows by one.                                                    *)
(*                                                                         *)
(* The bytes are real: what the comparisons and the window see behind the  *)
(* end of a batch are bytes of earlier batches.  A name is shorter here: in*)
(* the code the byte that tells getUserNum ("N") from a listing is the     *)
(* eighth of the command, here the fourth.  "State" only writes answers,   *)
(* "face" is in module OpenMv.                                             *)
(***************************************************************************)
EXTENDS Naturals, Sequences, FiniteSets

CONSTANTS RxSize,    \* sizeof(uart_rx_buffer), 128
          AppSize,   \* sizeof(app_buffer), 128
          Text,      \* JSON texts the phone may send, as sequences of bytes
          LineMax,   \* bound: bytes received and not yet read
          MaxItems   \* bound: commands and texts sent

ASSUME SizeAssumption == RxSize \in Nat \ {0, 1} /\ AppSize \in Nat \ {0}
ASSUME LineAssumption == LineMax \in Nat /\ MaxItems \in Nat
ASSUME TextAssumption == \A t \in Text : /\ t \in Seq({t[b] : b \in DOMAIN t})
                                         /\ Len(t) >= 2 /\ t[1] = "{" /\ t[2] = "quote"

Nul  == "nul"
Beyond == "any"    \* memory that is not uart_rx_buffer
Add  == <<"a", "d", "d">>
Get  == <<"g", "e", "t">>
Sign == <<"s", "i", "g", "n">>
Open == <<"{", "quote">>

\* getUserNum, getUserData (a listing), add, sign, or a JSON text
Item == {Get \o <<"N">>, Get \o <<"D">>, Add, Sign} \cup Text

VARIABLES line,            \* bytes in the serial driver
          items,           \* commands and texts the phone has sent
          uart_rx_buffer, app_buffer,
          e,               \* esp32_thread_entry: pc and local variables
          user_num, user_date_t, user_quan_flag,
          seen             \* history, see below

espVars == <<line, items, uart_rx_buffer, app_buffer, e, user_num, user_date_t,
             user_quan_flag, seen>>

(* What is remembered for the properties:                                  *)
(*   text     the bytes that arrived from the start of a text on           *)
(*   aligned  no listing has moved i since                                 *)
(*   listed   the entries the current listing has read, field by field     *)
(*   from     user_num when it started                                     *)
(*   adds     how often "add" is in what the phone has sent                *)
(*   jumped   a listing has moved i past the end of a batch                *)
NothingSeen == [text |-> <<>>, aligned |-> TRUE, listed |-> <<>>, from |-> 0,
                adds |-> 0, jumped |-> FALSE]

EspInit == /\ line = <<>>
           /\ items = 0
           /\ uart_rx_buffer = [x \in 0 .. RxSize - 1 |-> Nul]
           /\ app_buffer = [x \in 0 .. AppSize - 1 |-> Nul]
           /\ e = [pc |-> "none", rx_length |-> 0, i |-> 0, k |-> 0, field |-> 0,
                   num |-> 0, readstate |-> FALSE, length |-> 0]
           /\ user_num = 2
           /\ user_date_t = [u \in 0 .. 2 |-> <<>>]
           /\ user_quan_flag = 0
           /\ seen = NothingSeen

-----------------------------------------------------------------------------
(* The phone and the serial driver.                                        *)

\* "add" as a command, or inside a text
AddsIn(x) == Cardinality({b \in 1 .. Len(x) - 2 : x[b] = "a" /\ x[b + 1] = "d" /\ x[b + 2] = "d"})

Phone(x) ==
    /\ items < MaxItems
    /\ Len(line) + Len(x) <= LineMax
    /\ items' = items + 1
    /\ line' = line \o x
    /\ seen' = [seen EXCEPT !.adds = @ + AddsIn(x)]
    /\ UNCHANGED <<uart_rx_buffer, app_buffer, e, user_num, user_date_t, user_quan_flag>>

\* mutant: no NUL behind the bytes read
FilledNoNul(n) == [x \in DOMAIN uart_rx_buffer |->
                      IF x < n THEN line[x + 1] ELSE uart_rx_buffer[x]]

Filled(n) == [x \in DOMAIN uart_rx_buffer |->
                 IF x < n THEN line[x + 1] ELSE IF x = n THEN Nul ELSE uart_rx_buffer[x]]

\* rt_mq_recv, rt_device_read: any number of the bytes that are there, or
\* none (an earlier message had announced them too)
EspRead(n) ==
    /\ e.pc = "recv"
    /\ n <= RxSize - 1
    /\ uart_rx_buffer' = Filled(n)
    /\ line' = SubSeq(line, n + 1, Len(line))
    /\ e' = [e EXCEPT !.pc = IF n = 0 THEN "recv" ELSE "scan", !.rx_length = n, !.i = 0]
    /\ seen' = [seen EXCEPT !.text = IF e.readstate THEN @ \o SubSeq(line, 1, n) ELSE @]
    /\ UNCHANGED <<items, app_buffer, user_num, user_date_t, user_quan_flag>>

-----------------------------------------------------------------------------
(* One position.                                                           *)

Rx(x) == IF x < RxSize THEN uart_rx_buffer[x] ELSE Beyond

Here(word) == \A b \in DOMAIN word : Rx(e.i + b - 1) = word[b]

Lists == Here(Get) /\ Rx(e.i + 3) \notin {"N", "."}

\* mutant: the branch of "sign" goes on without i++
NextIndexStuck == IF Here(Sign) THEN e.i ELSE e.i + 1

NextIndex == e.i + 1

\* the end of the loop body
AfterBody == IF NextIndex < e.rx_length THEN "scan" ELSE "recv"

\* after the delay: the command "get"
EspGet ==
    /\ e.pc = "scan"
    /\ e' = [e EXCEPT !.pc = IF Lists THEN "list_start" ELSE "add"]
    /\ UNCHANGED <<line, items, uart_rx_buffer, app_buffer, user_num, user_date_t,
                   user_quan_flag, seen>>

\* "[", a delay, k = user_num
EspListStart ==
    /\ e.pc = "list_start"
    /\ e' = [e EXCEPT !.pc = IF user_num = 0 THEN "add" ELSE "list", !.k = user_num,
                      !.field = 0]
    /\ seen' = [seen EXCEPT !.listed = <<>>, !.from = user_num]
    /\ UNCHANGED <<line, items, uart_rx_buffer, app_buffer, user_num, user_date_t, user_quan_flag>>

\* mutant: the listing counts from the end
ListedEntryDown == e.k - 1

\* user_num is read again for each field
ListedEntry == user_num - e.k

\* id, name or psw of one entry, with delays between; after the third i++, k--
EspList ==
    /\ e.pc = "list"
    /\ IF e.field < 2
       THEN e' = [e EXCEPT !.field = @ + 1]
       ELSE e' = [e EXCEPT !.field = 0, !.k = @ - 1, !.i = @ + 1,
                           !.pc = IF e.k = 1 THEN "add" ELSE "list"]
    /\ seen' = [seen EXCEPT !.listed = Append(@, ListedEntry),
                            !.aligned = FALSE,
                            !.jumped = @ \/ e'.i >= e.rx_length]
    /\ UNCHANGED <<line, items, uart_rx_buffer, app_buffer, user_num, user_date_t, user_quan_flag>>

\* "add" writes entry 2 and reads user_num ...
EspAdd ==
    /\ e.pc = "add"
    /\ IF Here(Add)
       THEN /\ user_date_t' = [user_date_t EXCEPT ![2] = <<"zwl">>]
            /\ e' = [e EXCEPT !.pc = "count", !.num = user_num]
       ELSE e' = [e EXCEPT !.pc = "sign"] /\ UNCHANGED user_date_t
    /\ UNCHANGED <<line, items, uart_rx_buffer, app_buffer, user_num, user_quan_flag, seen>>

\* ... and writes it
EspCount ==
    /\ e.pc = "count"
    /\ user_num' = e.num + 1
    /\ e' = [e EXCEPT !.pc = "sign"]
    /\ UNCHANGED <<line, items, uart_rx_buffer, app_buffer, user_date_t, user_quan_flag, seen>>

\* "sign" tells the camera 1, 2, 3 in turn; then the start of a text
EspSign ==
    /\ e.pc = "sign"
    /\ user_quan_flag' = IF Here(Sign) THEN (user_quan_flag + 1) % 3 ELSE user_quan_flag
    /\ IF e.readstate \/ Here(Open)
       THEN e' = [e EXCEPT !.pc = "window", !.readstate = TRUE]
       ELSE e' = [e EXCEPT !.pc = AfterBody, !.i = NextIndex]
    /\ IF ~ e.readstate /\ Here(Open)
       THEN seen' = [seen EXCEPT
                       !.text = [b \in 1 .. IF e.i < e.rx_length THEN e.rx_length - e.i ELSE 0
                                   |-> uart_rx_buffer[e.i + b - 1]],
                       !.aligned = e.i < e.rx_length]
       ELSE UNCHANGED seen
    /\ UNCHANGED <<line, items, uart_rx_buffer, app_buffer, user_num, user_date_t>>

\* mutant: the bytes of the window are those from the start of the batch
WindowFromStart == [x \in DOMAIN app_buffer |->
                       IF x \in e.length .. e.length + e.rx_length - 1
                       THEN Rx(x - e.length) ELSE app_buffer[x]]

\* mutant: the window is the rest of the batch
WindowRest == [x \in DOMAIN app_buffer |->
                  IF x \in e.length .. e.length + e.rx_length - e.i - 1
                  THEN Rx(e.i + x - e.length) ELSE app_buffer[x]]

\* app_buffer[length+k] = uart_rx_buffer[i+k], k < rx_length
Window == [x \in DOMAIN app_buffer |->
              IF x \in e.length .. e.length + e.rx_length - 1
              THEN Rx(e.i + x - e.length) ELSE app_buffer[x]]

\* the window; one that ends behind app_buffer overwrites other variables, and
\* nothing is said of what follows
EspWindow ==
    /\ e.pc = "window"
    /\ app_buffer' = Window
    /\ e' = IF e.length + e.rx_length > AppSize
            THEN [e EXCEPT !.pc = "overrun"]
            ELSE [e EXCEPT !.pc = AfterBody, !.i = NextIndex, !.length = @ + 1]
    /\ UNCHANGED <<line, items, uart_rx_buffer, user_num, user_date_t, user_quan_flag, seen>>

EspScan == \/ EspGet \/ EspListStart \/ EspList \/ EspAdd \/ EspCount
           \/ EspSign \/ EspWindow

\* the points where the thread sleeps: rt_thread_delay(5)
Asleep(pc) == pc \in {"scan", "list_start", "list", "window"}

-----------------------------------------------------------------------------
(* Properties.                                                             *)

EspTypeOK ==
    /\ items \in 0 .. MaxItems /\ Len(line) <= LineMax
    /\ e.pc \in {"none", "recv", "scan", "list_start", "list", "add", "count", "sign",
                  "window", "send_over", "overrun", "assert"}
    /\ e.rx_length \in 0 .. RxSize - 1 /\ e.i \in Nat /\ e.k \in Nat /\ e.field \in 0 .. 2
    /\ e.length \in 0 .. AppSize /\ e.readstate \in BOOLEAN /\ e.num \in Nat
    /\ user_num \in Nat /\ user_quan_flag \in 0 .. 2
    /\ DOMAIN uart_rx_buffer = 0 .. RxSize - 1 /\ DOMAIN app_buffer = 0 .. AppSize - 1

\* However the bytes of a text are divided into batches, the overlapping
\* windows put exactly the bytes received from {" on at the start of
\* app_buffer, unless a listing has moved i meanwhile.
TextIsWhole ==
    e.readstate /\ seen.aligned /\ e.pc # "overrun" =>
        /\ e.length <= Len(seen.text)
        /\ \A x \in 0 .. e.length - 1 : app_buffer[x] = seen.text[x + 1]
        /\ e.pc = "recv" => e.length = Len(seen.text)

\* A text whose last batch has two bytes or more is followed by a NUL, so that
\* strlen ends at its end and not in the bytes of an earlier text.  (The window
\* of a batch of one byte does not reach the NUL.)
TextIsTerminated ==
    e.readstate /\ seen.aligned /\ e.pc = "recv" /\ e.rx_length >= 2 /\ e.length < AppSize
        => app_buffer[e.length] = Nul

\* app_buffer is overrun only by a text too long for it: the text and the
\* batch it ends in exceed the buffer.
OverrunOnlyByLength ==
    e.pc = "overrun" /\ seen.aligned => Len(seen.text) + e.rx_length > AppSize + 1

\* app_buffer holds the text that is being collected, as a C string as soon as the
\* batch is done, and is overrun only by a text that has no room in it.
TextInv == TextIsWhole /\ TextIsTerminated /\ OverrunOnlyByLength

\* A listing reads the entries in order, each field once and all below
\* user_num, although user_num is read anew for each field and the json thread
\* may count one more meanwhile: it then skips an entry, or takes the fields of
\* one record from two, but never goes back or past the end.
ListingIsOrdered ==
    /\ \A a \in DOMAIN seen.listed :
          /\ seen.listed[a] < user_num
          /\ \A b \in 1 .. a - 1 : seen.listed[b] <= seen.listed[a] - (a - b) \div 3
    /\ e.pc = "list" /\ seen.listed # <<>> => seen.listed[1] \in {0, user_num - seen.from}
    /\ Len(seen.listed) <= 3 * seen.from
=============================================================================
