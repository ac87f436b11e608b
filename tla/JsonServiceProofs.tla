-------------------------- MODULE JsonServiceProofs --------------------------
(***************************************************************************)
(* Proofs about modules EspParser and JsonService.                         *)
(*                                                                         *)
(* The inductive invariant has one part for each question:                 *)
(*   Types      the variables, and what a scan keeps: a batch is not       *)
(*              empty and ends with a NUL, and i is in it unless a         *)
(*              listing jumped                                             *)
(*   Chain      at most one json thread, alive only while the mailbox is   *)
(*   Collected  app_buffer holds the text so far, and the rest of the      *)
(*              text is the rest of the batch                              *)
(*   Mails      before the first "over" there is one text at most,         *)
(*              counting the one the json thread has taken                 *)
(*   Counts     the two threads that count are one apart at most           *)
(*   Listing    entry by entry, what a listing has read                    *)
(*   Asked      every count is an "add" or a text, done or still to do     *)
(***************************************************************************)
EXTENDS JsonService, FiniteSetTheorems, TLAPS

Byte == {Nul} \cup UNION {{x[b] : b \in DOMAIN x} : x \in Item}

Pc == {"none", "recv", "scan", "list_start", "list", "add", "count", "sign", "window",
       "send_over", "overrun", "assert"}

Scanning == {"scan", "list_start", "list", "add", "count", "sign", "window"}

JobPc == {"none", "recv", "parse", "count", "spawn_state", "spawn_json", "detach", "assert"}

EspState == [pc : Pc, rx_length : 0 .. RxSize - 1, i : Nat, k : Nat, field : 0 .. 2, num : Nat,
             readstate : BOOLEAN, length : 0 .. AppSize]

Seen == [text : Seq(Byte), aligned : BOOLEAN, listed : Seq(Int), from : Nat, adds : Nat,
         jumped : BOOLEAN]

EspTypes == /\ items \in 0 .. MaxItems
            /\ line \in Seq(Byte) /\ Len(line) <= LineMax
            /\ uart_rx_buffer \in [0 .. RxSize - 1 -> Byte]
            /\ app_buffer \in [0 .. AppSize - 1 -> Byte \cup {Beyond}]
            /\ e \in EspState
            /\ user_num \in Nat /\ user_num >= 1
            /\ user_quan_flag \in 0 .. 2
            /\ seen \in Seen

JsonTypes == /\ attached \in BOOLEAN /\ rx_mq_made \in BOOLEAN /\ frozen \in BOOLEAN
             /\ passed \in BOOLEAN
             /\ json_mb \in Seq({"app_buffer", "over"}) /\ Len(json_mb) <= MbSize
             /\ job \in [Job -> JobPc]
             /\ num \in Nat /\ esp_new \in Nat /\ docs \in Nat /\ starts \in Nat

\* What holds while a batch is looked at.
Scans == /\ e.pc \in Scanning => /\ e.rx_length >= 1
                                 /\ uart_rx_buffer[e.rx_length] = Nul
                                 /\ e.i < e.rx_length \/ (seen.jumped /\ ~ seen.aligned)
         /\ e.pc \in {"scan", "list_start"} => e.i < e.rx_length
         /\ e.pc = "list" => e.k >= 1
         /\ e.pc = "window" => e.readstate
         /\ ~ e.readstate => e.length = 0
         /\ e.pc = "none" => ~ e.readstate
         /\ ~ rx_mq_made => e.pc = "none"
         /\ e.pc \in Scanning => rx_mq_made

Types == EspTypes /\ JsonTypes /\ Scans

Alive(h) == job[h] # "none"

Chain == /\ \A h \in Job : Alive(h) => attached /\ job[h] # "assert"
         /\ \A h, g \in Job : Alive(h) /\ Alive(g) => h = g

\* app_buffer begins with the text so far.
Stored == \A x \in 0 .. e.length - 1 : app_buffer[x] = seen.text[x + 1]

\* The rest of the text is the rest of the batch.
Pending == /\ e.length + e.rx_length - e.i = Len(seen.text)
           /\ \A x \in e.i .. e.rx_length - 1 :
                 uart_rx_buffer[x] = seen.text[e.length + 1 + (x - e.i)]

Collected == /\ e.readstate /\ seen.aligned /\ e.pc # "overrun" =>
                   /\ Stored
                   /\ IF e.pc \in Scanning THEN Pending ELSE e.length = Len(seen.text)
             /\ TextIsTerminated /\ OverrunOnlyByLength

\* The json thread has taken a text, or is about to.
Busy(h) == job[h] \in {"parse", "count"}
Ending  == \E h \in Job : job[h] = "detach"
Waits   == attached /\ ~ Ending /\ json_mb # <<>> /\ json_mb[1] = "app_buffer"
Spent   == ~ Waits /\ \A h \in Job : ~ Busy(h)

Mails == attached /\ ~ Ending =>
            /\ Len(json_mb) >= 2 => "over" \in {json_mb[1], json_mb[2]}
            /\ Len(json_mb) = 1 /\ e.pc # "send_over" => json_mb[1] = "over"
            /\ \A h \in Job : Busy(h) => \/ json_mb = <<>> /\ e.pc = "send_over"
                                         \/ json_mb # <<>> /\ json_mb[1] = "over"

Counts == /\ passed => Counting /\ Asleep(e.pc)
          /\ Counting => /\ user_num \in {num, num + 1}
                         /\ ~ passed /\ (Asleep(e.pc) \/ e.pc = "add") => user_num = num
                         /\ e.pc = "count" => user_num = num /\ e.num = num
          /\ e.pc = "count" => user_num = e.num \/ (user_num = e.num + 1 /\ Spent)

\* How far ahead of the listing's own count field a was read.
Ahead(a) == seen.listed[a] - ((a - 1) \div 3)

Listing == /\ Len(seen.listed) <= 3 * seen.from
           /\ \A a \in 1 .. Len(seen.listed) : /\ Ahead(a) \in {0, 1} /\ seen.listed[a] < user_num
                                               /\ \A b \in 1 .. a - 1 : Ahead(b) <= Ahead(a)
           /\ e.pc = "list" => /\ e.k \in 1 .. seen.from
                               /\ Len(seen.listed) = 3 * (seen.from - e.k) + e.field
                               /\ user_num = seen.from \/ (user_num = seen.from + 1 /\ Spent)
                               /\ \A a \in 1 .. Len(seen.listed) : Ahead(a) <= user_num - seen.from

\* Where "add" begins in f, from position lo to hi.
Adds(f, lo, hi) == {x \in lo .. hi : f[x] = "a" /\ f[x + 1] = "d" /\ f[x + 2] = "d"}

InLine  == Adds(line, 1, Len(line) - 2)
InBatch == IF e.pc \in {"scan", "list_start", "list", "add"}
           THEN Adds(uart_rx_buffer, e.i, e.rx_length - 3)
           ELSE IF e.pc \in {"count", "sign", "window"}
           THEN Adds(uart_rx_buffer, e.i + 1, e.rx_length - 3)
           ELSE {}

\* Counts still to come.
ByJson == IF Spent THEN 0 ELSE 1
ByEsp  == IF e.pc = "count" THEN 1 ELSE 0

Asked == ~ seen.jumped =>
            user_num + ByJson + ByEsp + Cardinality(InLine) + Cardinality(InBatch)
               <= 2 + seen.adds + docs

-----------------------------------------------------------------------------
(* What the phone sends.                                                   *)

\* The length of a sequence.
LEMMA LenIs ==
    ASSUME NEW S, NEW q \in Seq(S)
    PROVE  Len(q) \in Nat
OBVIOUS

\* What is left of a sequence, and what is taken.
LEMMA CutIs ==
    ASSUME NEW S, NEW q \in Seq(S), NEW n \in 0 .. Len(q)
    PROVE  /\ SubSeq(q, 1, n) \in Seq(S) /\ Len(SubSeq(q, 1, n)) = n
           /\ \A b \in 1 .. n : SubSeq(q, 1, n)[b] = q[b]
           /\ SubSeq(q, n + 1, Len(q)) \in Seq(S) /\ Len(SubSeq(q, n + 1, Len(q))) = Len(q) - n
           /\ \A b \in 1 .. Len(q) - n : SubSeq(q, n + 1, Len(q))[b] = q[n + b]
<1>1. Len(q) \in Nat
  OBVIOUS
<1> QED BY <1>1

\* Two sequences in a row.
LEMMA JoinedIs ==
    ASSUME NEW S, NEW q \in Seq(S), NEW x \in Seq(S)
    PROVE  /\ q \o x \in Seq(S) /\ Len(q \o x) = Len(q) + Len(x)
           /\ \A b \in 1 .. Len(q) : (q \o x)[b] = q[b]
           /\ \A b \in 1 .. Len(x) : (q \o x)[Len(q) + b] = x[b]
<1>1. Len(q) \in Nat /\ Len(x) \in Nat
  OBVIOUS
<1> QED BY <1>1

\* A command or a text is a sequence of bytes that does not begin with "d".
LEMMA ItemIs ==
    ASSUME NEW x \in Item
    PROVE  x \in Seq(Byte) /\ Len(x) >= 1 /\ x[1] # "d"
<1>1. \E S : x \in Seq(S) /\ Len(x) >= 1 /\ x[1] # "d"
  <2>1. CASE x \in Text
    <3>1. PICK S : S = {x[b] : b \in DOMAIN x}
      OBVIOUS
    <3>2. x \in Seq(S) /\ Len(x) >= 2
      BY <2>1, <3>1, TextAssumption, Zenon
    <3>3. x[1] = "{"
      BY <2>1, TextAssumption, Zenon
    <3>4. x[1] # "d"
      BY <3>3, Zenon
    <3>5. Len(x) \in Nat
      BY <3>2, LenIs
    <3>6. Len(x) >= 1
      BY ONLY <3>2, <3>5
    <3> QED BY <3>2, <3>4, <3>6, Zenon
  <2>2. CASE x = Add
    <3>1. x = <<"a", "d", "d">>
      BY <2>2 DEF Add
    <3>2. x \in Seq({"a", "d"}) /\ Len(x) = 3 /\ x[1] = "a"
      BY <3>1
    <3>3. Len(x) >= 1 /\ x[1] # "d"
      BY <3>2
    <3> QED BY <3>2, <3>3
  <2>3. CASE x = Sign
    <3>1. x = <<"s", "i", "g", "n">>
      BY <2>3 DEF Sign
    <3>2. x \in Seq({"s", "i", "g", "n"}) /\ Len(x) = 4 /\ x[1] = "s"
      BY <3>1
    <3>3. Len(x) >= 1 /\ x[1] # "d"
      BY <3>2
    <3> QED BY <3>2, <3>3
  <2>4. ASSUME NEW c \in {"N", "D"}, x = Get \o <<c>>
        PROVE  \E S : x \in Seq(S) /\ Len(x) >= 1 /\ x[1] # "d"
    <3>1. Get = <<"g", "e", "t">>
      BY DEF Get
    <3>2. Get \in Seq({"g", "e", "t", "N", "D"}) /\ Len(Get) = 3 /\ Get[1] = "g"
      BY <3>1
    <3>3. <<c>> \in Seq({"g", "e", "t", "N", "D"}) /\ Len(<<c>>) = 1
      OBVIOUS
    <3>4. x \in Seq({"g", "e", "t", "N", "D"}) /\ Len(x) = 4 /\ x[1] = "g"
      BY ONLY <2>4, <3>2, <3>3, JoinedIs
    <3>5. Len(x) >= 1 /\ x[1] # "d"
      BY <3>4
    <3> QED BY <3>4, <3>5
  <2> QED BY <2>1, <2>2, <2>3, <2>4 DEF Item
<1>2. PICK S : x \in Seq(S) /\ Len(x) >= 1 /\ x[1] # "d"
  BY <1>1
<1>3. \A b \in DOMAIN x : x[b] \in Byte
  BY DEF Byte
<1>4. x \in Seq(Byte)
  BY <1>2, <1>3
<1> QED BY <1>2, <1>4

\* The byte rx_buffer is terminated with is a byte.
LEMMA NulIs == Nul \in Byte /\ Nul = "nul"
BY DEF Byte, Nul

\* The buffers have room for a byte and its NUL.
LEMMA SizeIs == RxSize \in Nat /\ RxSize >= 2 /\ AppSize \in Nat /\ AppSize >= 1
BY SizeAssumption

\* The bytes of the buffer after a read.
LEMMA FilledIs ==
    ASSUME EspTypes, NEW n \in 0 .. Len(line), n <= RxSize - 1
    PROVE  /\ Filled(n) \in [0 .. RxSize - 1 -> Byte]
           /\ Filled(n)[n] = Nul
           /\ \A x \in 0 .. n - 1 : Filled(n)[x] = line[x + 1]
<1>1. line \in Seq(Byte) /\ uart_rx_buffer \in [0 .. RxSize - 1 -> Byte]
  BY DEF EspTypes
<1>2. Len(line) \in Nat /\ \A b \in 1 .. Len(line) : line[b] \in Byte
  BY <1>1
<1>3. DOMAIN uart_rx_buffer = 0 .. RxSize - 1
  BY <1>1
<1>4. Filled(n) = [x \in 0 .. RxSize - 1 |->
                     IF x < n THEN line[x + 1] ELSE IF x = n THEN Nul ELSE uart_rx_buffer[x]]
  BY <1>3 DEF Filled
<1>5. \A x \in 0 .. RxSize - 1 :
         (IF x < n THEN line[x + 1] ELSE IF x = n THEN Nul ELSE uart_rx_buffer[x]) \in Byte
  <2> SUFFICES ASSUME NEW x \in 0 .. RxSize - 1
               PROVE (IF x < n THEN line[x + 1] ELSE IF x = n THEN Nul ELSE uart_rx_buffer[x]) \in Byte
    OBVIOUS
  <2>1. x < n => x + 1 \in 1 .. Len(line)
    BY <1>2
  <2>2. uart_rx_buffer[x] \in Byte
    BY <1>1
  <2> QED BY <1>2, <2>1, <2>2, NulIs
<1>6. Filled(n) \in [0 .. RxSize - 1 -> Byte]
  BY <1>4, <1>5
<1>7. n \in 0 .. RxSize - 1
  BY SizeIs, <1>2
<1>8. Filled(n)[n] = Nul
  BY <1>4, <1>7
<1>9. \A x \in 0 .. n - 1 : x \in 0 .. RxSize - 1 /\ x < n
  BY <1>7, SizeIs
<1> QED BY <1>4, <1>6, <1>8, <1>9

-----------------------------------------------------------------------------
(* Types.                                                                  *)

\* What the steps of the esp32 thread keep of the other thread.
JsonKept == UNCHANGED <<attached, json_mb, rx_mq_made, esp_new, job, num, frozen, docs, starts>>

\* What the phone sends keeps the types.
LEMMA PhoneTypes ==
    ASSUME Types, NEW x \in Item, Phone(x), UNCHANGED rx_mq_made
    PROVE  EspTypes' /\ Scans'
<1>1. /\ items < MaxItems /\ Len(line) + Len(x) <= LineMax /\ items' = items + 1
      /\ line' = line \o x /\ seen' = [seen EXCEPT !.adds = @ + AddsIn(x)]
      /\ UNCHANGED <<uart_rx_buffer, app_buffer, e, user_num, user_quan_flag>>
  BY DEF Phone
<1>2. line \in Seq(Byte) /\ items \in 0 .. MaxItems /\ MaxItems \in Nat /\ seen \in Seen
  BY LineAssumption DEF Types, EspTypes
<1>3. x \in Seq(Byte)
  BY ItemIs
<1>4. line' \in Seq(Byte) /\ Len(line') <= LineMax
  BY <1>1, <1>2, <1>3, JoinedIs
<1>5. AddsIn(x) \in Nat
  <2>1. 1 .. Len(x) - 2 \subseteq 1 .. Len(x)
    BY <1>3, LenIs
  <2>2. IsFiniteSet(1 .. Len(x))
    BY <1>3, LenIs, FS_Interval
  <2>3. IsFiniteSet({b \in 1 .. Len(x) - 2 : x[b] = "a" /\ x[b + 1] = "d" /\ x[b + 2] = "d"})
    BY <2>1, <2>2, FS_Subset
  <2> QED BY <2>3, FS_CardinalityType DEF AddsIn
<1>6. seen' \in Seen /\ seen'.jumped = seen.jumped /\ seen'.aligned = seen.aligned
  <2>1. seen.adds \in Nat
    BY <1>2 DEF Seen
  <2>2. PICK c \in Nat : c = seen.adds + AddsIn(x)
    BY <1>5, <2>1
  <2>3. seen' = [seen EXCEPT !.adds = c]
    BY <1>1, <2>2
  <2> QED BY <1>2, <2>3 DEF Seen
<1>7. items' \in 0 .. MaxItems
  BY <1>1, <1>2
<1>8. EspTypes'
  BY <1>1, <1>4, <1>6, <1>7 DEF Types, EspTypes
<1> QED BY <1>1, <1>6, <1>8 DEF Types, Scans

\* A batch read into rx_buffer keeps the types.
LEMMA ReadTypes ==
    ASSUME Types, NEW n \in 0 .. Len(line), EspRead(n), UNCHANGED rx_mq_made
    PROVE  EspTypes' /\ Scans'
<1>1. /\ e.pc = "recv" /\ n <= RxSize - 1 /\ uart_rx_buffer' = Filled(n)
      /\ line' = SubSeq(line, n + 1, Len(line))
      /\ e' = [e EXCEPT !.pc = IF n = 0 THEN "recv" ELSE "scan", !.rx_length = n, !.i = 0]
      /\ UNCHANGED <<items, app_buffer, user_num, user_quan_flag>>
  BY DEF EspRead
<1>2. line \in Seq(Byte) /\ Len(line) <= LineMax /\ seen \in Seen /\ e \in EspState
  BY DEF Types, EspTypes
<1>3. Len(line) \in Nat /\ LineMax \in Nat /\ RxSize \in Nat
  BY <1>2, LenIs, LineAssumption, SizeIs
<1>4. line' \in Seq(Byte) /\ Len(line') <= LineMax
  BY <1>1, <1>2, <1>3, CutIs
<1>5. n \in 0 .. RxSize - 1
  BY <1>1, <1>3
<1>6. /\ e' \in EspState /\ e'.rx_length = n /\ e'.i = 0 /\ e'.pc = IF n = 0 THEN "recv" ELSE "scan"
      /\ e'.readstate = e.readstate /\ e'.length = e.length
  BY <1>1, <1>2, <1>5 DEF EspState, Pc
<1>7. seen' \in Seen
  <2>1. seen' = [seen EXCEPT !.text = IF e.readstate THEN seen.text \o SubSeq(line, 1, n) ELSE seen.text]
    BY DEF EspRead
  <2>2. seen.text \in Seq(Byte)
    BY <1>2 DEF Seen
  <2>3. SubSeq(line, 1, n) \in Seq(Byte)
    BY <1>2, CutIs
  <2>4. PICK t \in Seq(Byte) : t = IF e.readstate THEN seen.text \o SubSeq(line, 1, n) ELSE seen.text
    BY <2>2, <2>3, JoinedIs
  <2> QED BY <1>2, <2>1, <2>4 DEF Seen
<1>8. uart_rx_buffer' \in [0 .. RxSize - 1 -> Byte] /\ uart_rx_buffer'[n] = Nul
  BY <1>1, FilledIs DEF Types
<1>9. EspTypes'
  BY <1>1, <1>4, <1>6, <1>7, <1>8 DEF Types, EspTypes
<1>10. Scans'
  BY <1>1, <1>5, <1>6, <1>8 DEF Types, Scans, Scanning
<1> QED BY <1>9, <1>10

\* EspGet and EspListStart, EspAdd and EspCount.
LEMMA GetTypes ==
    ASSUME Types, EspGet, UNCHANGED rx_mq_made
    PROVE  EspTypes' /\ Scans'
<1>1. /\ e.pc = "scan"
      /\ e' = [e EXCEPT !.pc = IF Lists THEN "list_start" ELSE "add"]
      /\ UNCHANGED <<line, items, uart_rx_buffer, app_buffer, user_num, user_quan_flag, seen>>
  BY DEF EspGet
<1>2. PICK p \in {"list_start", "add"} : e' = [e EXCEPT !.pc = p]
  BY <1>1
<1>3. e \in EspState
  BY DEF Types, EspTypes
<1>4. /\ e' \in EspState /\ e'.pc = p
      /\ e'.rx_length = e.rx_length /\ e'.i = e.i /\ e'.k = e.k
      /\ e'.readstate = e.readstate /\ e'.length = e.length
  BY <1>2, <1>3 DEF EspState, Pc
<1>5. EspTypes'
  BY <1>1, <1>4 DEF Types, EspTypes
<1> QED BY <1>1, <1>2, <1>4, <1>5 DEF Types, Scans, Scanning

\* The start of a listing keeps the types.
LEMMA ListStartTypes ==
    ASSUME Types, EspListStart, UNCHANGED rx_mq_made
    PROVE  EspTypes' /\ Scans'
<1>1. /\ e.pc = "list_start"
      /\ e' = [e EXCEPT !.pc = IF user_num = 0 THEN "add" ELSE "list", !.k = user_num, !.field = 0]
      /\ seen' = [seen EXCEPT !.listed = <<>>, !.from = user_num]
      /\ UNCHANGED <<line, items, uart_rx_buffer, app_buffer, user_num, user_quan_flag>>
  BY DEF EspListStart
<1>2. e \in EspState /\ user_num \in Nat /\ user_num >= 1 /\ seen \in Seen
  BY DEF Types, EspTypes
<1>3. e' = [e EXCEPT !.pc = "list", !.k = user_num, !.field = 0]
  <2>1. PICK p : p = IF user_num = 0 THEN "add" ELSE "list"
    OBVIOUS
  <2>2. p = "list"
    BY <1>2, <2>1
  <2>3. e' = [e EXCEPT !.pc = p, !.k = user_num, !.field = 0]
    BY <1>1, <2>1, Zenon
  <2> QED BY <2>2, <2>3, Zenon
<1>4. /\ e' \in EspState /\ e'.pc = "list"
      /\ e'.rx_length = e.rx_length /\ e'.i = e.i /\ e'.k = user_num
      /\ e'.readstate = e.readstate /\ e'.length = e.length
  <2>1. PICK u \in Nat : u = user_num
    BY <1>2
  <2>2. PICK z \in 0 .. 2 : z = 0
    OBVIOUS
  <2>3. e' = [e EXCEPT !.pc = "list", !.k = u, !.field = z]
    BY <1>3, <2>1, <2>2
  <2>4. /\ e' \in EspState /\ e'.pc = "list"
        /\ e'.rx_length = e.rx_length /\ e'.i = e.i /\ e'.k = u
        /\ e'.readstate = e.readstate /\ e'.length = e.length
    BY <1>2, <2>3 DEF EspState, Pc
  <2> QED BY <2>1, <2>4
<1>5. <<>> \in Seq(Int)
  OBVIOUS
<1>6. seen' \in Seen /\ seen'.jumped = seen.jumped /\ seen'.aligned = seen.aligned
  BY <1>1, <1>2, <1>5 DEF Seen
<1>7. EspTypes'
  BY <1>1, <1>4, <1>6 DEF Types, EspTypes
<1> QED BY <1>1, <1>2, <1>4, <1>6, <1>7 DEF Types, Scans, Scanning

\* A field of a listing keeps the types.
LEMMA ListTypes ==
    ASSUME Types, EspList, UNCHANGED rx_mq_made
    PROVE  EspTypes' /\ Scans'
<1>1. /\ e.pc = "list"
      /\ UNCHANGED <<line, items, uart_rx_buffer, app_buffer, user_num, user_quan_flag>>
  BY DEF EspList
<1>2. e \in EspState /\ user_num \in Nat /\ seen \in Seen /\ e.k >= 1
  BY <1>1 DEF Types, EspTypes, Scans
<1>3. /\ e' \in EspState /\ e'.pc \in {"list", "add"}
      /\ e'.rx_length = e.rx_length /\ e'.i \in {e.i, e.i + 1}
      /\ e'.readstate = e.readstate /\ e'.length = e.length
      /\ e'.pc = "list" => e'.k >= 1
  <2>0. e.k \in Nat /\ e.field \in 0 .. 2 /\ e.i \in Nat
    BY <1>2 DEF EspState
  <2>1. CASE e.field < 2
    <3>1. PICK g \in 0 .. 2 : g = e.field + 1
      BY <2>0, <2>1
    <3>2. e' = [e EXCEPT !.field = g]
      BY <2>1, <3>1 DEF EspList
    <3> QED BY <1>1, <1>2, <3>2 DEF EspState
  <2>2. CASE ~ (e.field < 2)
    <3>1. PICK g \in Nat : g = e.k - 1
      BY <1>2, <2>0
    <3>2. PICK m \in Nat : m = e.i + 1
      BY <2>0
    <3>3. PICK p \in {"add", "list"} : p = IF e.k = 1 THEN "add" ELSE "list"
      OBVIOUS
    <3>4. PICK z \in 0 .. 2 : z = 0
      OBVIOUS
    <3>5. e' = [e EXCEPT !.field = z, !.k = g, !.i = m, !.pc = p]
      BY <2>2, <3>1, <3>2, <3>3, <3>4 DEF EspList
    <3>6. p = "list" => g >= 1
      BY <1>2, <2>0, <3>1, <3>3
    <3>7. /\ e' \in EspState /\ e'.pc = p /\ e'.rx_length = e.rx_length /\ e'.i = m
          /\ e'.readstate = e.readstate /\ e'.length = e.length /\ e'.k = g
      BY <1>2, <3>5 DEF EspState, Pc
    <3> QED BY <3>2, <3>6, <3>7
  <2> QED BY <2>1, <2>2
<1>4. /\ seen' \in Seen /\ seen'.aligned = FALSE
      /\ seen'.jumped = (seen.jumped \/ e'.i >= e.rx_length)
  <2>1. seen' = [seen EXCEPT !.listed = Append(seen.listed, ListedEntry), !.aligned = FALSE,
                             !.jumped = seen.jumped \/ e'.i >= e.rx_length]
    BY DEF EspList
  <2>2. ListedEntry \in Int /\ seen.listed \in Seq(Int)
    BY <1>2 DEF ListedEntry, EspState, Seen
  <2>3. PICK l \in Seq(Int) : l = Append(seen.listed, ListedEntry)
    <3>1. ASSUME NEW q \in Seq(Int), NEW x \in Int PROVE Append(q, x) \in Seq(Int)
      OBVIOUS
    <3> QED BY <2>2, <3>1, Zenon
  <2>4. PICK b \in BOOLEAN : b = (seen.jumped \/ e'.i >= e.rx_length)
    OBVIOUS
  <2>5. seen' = [seen EXCEPT !.listed = l, !.aligned = FALSE, !.jumped = b]
    BY <2>1, <2>3, <2>4, Zenon
  <2>6. seen' \in Seen /\ seen'.aligned = FALSE /\ seen'.jumped = b
    BY <1>2, <2>5 DEF Seen
  <2> QED BY <2>4, <2>6, Zenon
<1>5. EspTypes'
  BY <1>1, <1>3, <1>4 DEF Types, EspTypes
<1>6. e'.i < e'.rx_length \/ seen'.jumped
  <2>1. e'.i \in Nat /\ e.rx_length \in Nat
    BY <1>2, <1>3, SizeIs DEF EspState
  <2>2. e'.i < e.rx_length \/ e'.i >= e.rx_length
    BY <2>1
  <2> QED BY <1>3, <1>4, <2>2, Zenon
<1> QED BY <1>1, <1>3, <1>4, <1>5, <1>6 DEF Types, Scans, Scanning

\* The reading of user_num for an added user keeps the types.
LEMMA AddTypes ==
    ASSUME Types, EspAdd \/ EspCount, UNCHANGED rx_mq_made
    PROVE  EspTypes' /\ Scans'
<1>1. UNCHANGED <<line, items, uart_rx_buffer, app_buffer, user_quan_flag, seen>>
  BY DEF EspAdd, EspCount
<1>2. e \in EspState /\ user_num \in Nat /\ user_num >= 1
  BY DEF Types, EspTypes
<1>3. e.num \in Nat
  BY <1>2 DEF EspState
<1>4. /\ e.pc \in Scanning
      /\ e' \in EspState /\ e'.pc \in {"count", "sign"}
      /\ e'.rx_length = e.rx_length /\ e'.i = e.i
      /\ e'.readstate = e.readstate /\ e'.length = e.length
  <2>1. CASE EspAdd
    <3>1. \/ e' = [e EXCEPT !.pc = "count", !.num = user_num]
          \/ e' = [e EXCEPT !.pc = "sign"]
      BY <2>1 DEF EspAdd
    <3> QED BY <1>2, <2>1, <3>1 DEF EspState, Pc, Scanning, EspAdd
  <2>2. CASE EspCount
    BY <1>2, <2>2 DEF EspState, Pc, Scanning, EspCount
  <2> QED BY <2>1, <2>2
<1>5. user_num' \in Nat /\ user_num' >= 1
  BY <1>2, <1>3 DEF EspAdd, EspCount
<1>6. EspTypes'
  BY <1>1, <1>4, <1>5 DEF Types, EspTypes
<1> QED BY <1>1, <1>4, <1>6 DEF Types, Scans, Scanning

\* The end of the loop body: the next position, or the next message.
LEMMA BodyEnds ==
    ASSUME Types
    PROVE  /\ AfterBody \in {"scan", "recv"} /\ NextIndex \in Nat /\ NextIndex = e.i + 1
           /\ AfterBody = "scan" <=> NextIndex < e.rx_length
BY DEF Types, EspTypes, EspState, AfterBody, NextIndex

\* The command that signs a face keeps the types.
LEMMA SignTypes ==
    ASSUME Types, EspSign, UNCHANGED rx_mq_made
    PROVE  EspTypes' /\ Scans'
<1>1. /\ e.pc = "sign" /\ UNCHANGED <<line, items, uart_rx_buffer, app_buffer, user_num>>
  BY DEF EspSign
<1>2. e \in EspState /\ seen \in Seen /\ user_quan_flag \in 0 .. 2
  BY DEF Types, EspTypes
<1>3. user_quan_flag' \in 0 .. 2
  BY <1>2 DEF EspSign
<1>4. \/ /\ e.readstate \/ Here(Open)
         /\ e' = [e EXCEPT !.pc = "window", !.readstate = TRUE]
      \/ /\ ~ e.readstate /\ ~ Here(Open)
         /\ e' = [e EXCEPT !.pc = AfterBody, !.i = NextIndex]
  BY DEF EspSign
<1>5. /\ e' \in EspState /\ e'.rx_length = e.rx_length /\ e'.length = e.length
      /\ \/ /\ e'.pc = "window" /\ e'.i = e.i /\ e'.readstate
         \/ /\ e'.pc \in {"scan", "recv"} /\ e'.readstate = e.readstate
            /\ e'.pc = "scan" => e'.i < e.rx_length
  <2>1. CASE e' = [e EXCEPT !.pc = "window", !.readstate = TRUE]
    BY <1>2, <2>1 DEF EspState, Pc
  <2>2. CASE e' = [e EXCEPT !.pc = AfterBody, !.i = NextIndex]
    <3>1. PICK p \in {"scan", "recv"} : p = AfterBody
      BY BodyEnds
    <3>2. PICK m \in Nat : m = NextIndex
      BY BodyEnds
    <3>3. p = "scan" => m < e.rx_length
      BY <3>1, <3>2, BodyEnds
    <3>4. e' = [e EXCEPT !.pc = p, !.i = m]
      BY <2>2, <3>1, <3>2
    <3>5. /\ e' \in EspState /\ e'.rx_length = e.rx_length /\ e'.length = e.length
          /\ e'.pc = p /\ e'.i = m /\ e'.readstate = e.readstate
      BY <1>2, <3>4 DEF EspState, Pc
    <3> QED BY <3>3, <3>5
  <2> QED BY <1>4, <2>1, <2>2
<1>6. \/ /\ ~ e.readstate /\ Here(Open)
         /\ seen' = [seen EXCEPT
                       !.text = [b \in 1 .. IF e.i < e.rx_length THEN e.rx_length - e.i ELSE 0
                                   |-> uart_rx_buffer[e.i + b - 1]],
                       !.aligned = e.i < e.rx_length]
      \/ /\ e.readstate \/ ~ Here(Open)
         /\ seen' = seen
  BY DEF EspSign
<1>7. /\ seen' \in Seen /\ seen'.jumped = seen.jumped
      /\ seen'.aligned => seen.aligned \/ e.i < e.rx_length
  <2>1. CASE seen' = seen
    BY <1>2, <2>1
  <2>2. CASE seen' = [seen EXCEPT
                       !.text = [b \in 1 .. IF e.i < e.rx_length THEN e.rx_length - e.i ELSE 0
                                   |-> uart_rx_buffer[e.i + b - 1]],
                       !.aligned = e.i < e.rx_length]
    <3>1. e.i \in Nat /\ e.rx_length \in 0 .. RxSize - 1 /\ uart_rx_buffer \in [0 .. RxSize - 1 -> Byte]
      BY DEF Types, EspTypes, EspState
    <3>2. PICK m \in Nat : m = IF e.i < e.rx_length THEN e.rx_length - e.i ELSE 0
      BY <3>1, SizeIs
    <3>3. PICK t : t = [b \in 1 .. m |-> uart_rx_buffer[e.i + b - 1]]
      OBVIOUS
    <3>4. \A b \in 1 .. m : uart_rx_buffer[e.i + b - 1] \in Byte
      <4> SUFFICES ASSUME NEW b \in 1 .. m PROVE uart_rx_buffer[e.i + b - 1] \in Byte
        OBVIOUS
      <4>1. e.i + b - 1 \in 0 .. RxSize - 1
        BY <3>1, <3>2, SizeIs
      <4> QED BY <3>1, <4>1
    <3>5. t \in Seq(Byte)
      BY <3>3, <3>4
    <3>6. PICK a \in BOOLEAN : a = (e.i < e.rx_length)
      <4>1. (e.i < e.rx_length) \in BOOLEAN
        BY <3>1, SizeIs
      <4> QED BY <4>1, Zenon
    <3>7. seen' = [seen EXCEPT !.text = t, !.aligned = a]
      BY <2>2, <3>2, <3>3, <3>6
    <3>8. seen' \in Seen /\ seen'.jumped = seen.jumped /\ seen'.aligned = a
      BY <1>2, <3>5, <3>7 DEF Seen
    <3> QED BY <3>6, <3>8
  <2> QED BY <1>6, <2>1, <2>2
<1>8. EspTypes'
  BY <1>1, <1>3, <1>5, <1>7 DEF Types, EspTypes
<1>9. e.i < e.rx_length \/ (seen.jumped /\ ~ seen.aligned)
  BY <1>1 DEF Types, Scans, Scanning
<1>10. e.i < e.rx_length \/ (seen'.jumped /\ ~ seen'.aligned)
  BY <1>7, <1>9
<1>11. /\ e.rx_length >= 1 /\ uart_rx_buffer[e.rx_length] = Nul /\ rx_mq_made
       /\ ~ e.readstate => e.length = 0
  BY <1>1 DEF Types, Scans, Scanning
<1> QED BY <1>1, <1>5, <1>8, <1>10, <1>11 DEF Scans, Scanning

\* The copy of a window to app_buffer keeps the types.
LEMMA WindowTypes ==
    ASSUME Types, EspWindow, UNCHANGED rx_mq_made
    PROVE  EspTypes' /\ Scans'
<1>1. /\ e.pc = "window" /\ app_buffer' = Window
      /\ UNCHANGED <<line, items, uart_rx_buffer, user_num, user_quan_flag, seen>>
      /\ e' = IF e.length + e.rx_length > AppSize
              THEN [e EXCEPT !.pc = "overrun"]
              ELSE [e EXCEPT !.pc = AfterBody, !.i = NextIndex, !.length = e.length + 1]
  BY DEF EspWindow
<1>2. e \in EspState /\ app_buffer \in [0 .. AppSize - 1 -> Byte \cup {Beyond}]
      /\ uart_rx_buffer \in [0 .. RxSize - 1 -> Byte]
  BY DEF Types, EspTypes
<1>3. e.length \in 0 .. AppSize /\ e.rx_length \in 0 .. RxSize - 1 /\ e.i \in Nat
  BY <1>2 DEF EspState
<1>4. e.rx_length >= 1 /\ uart_rx_buffer[e.rx_length] = Nul /\ rx_mq_made
  BY <1>1 DEF Types, Scans, Scanning
<1>5. /\ e' \in EspState /\ e'.rx_length = e.rx_length /\ e'.readstate = e.readstate
      /\ \/ e'.pc = "overrun" /\ e'.length = e.length
         \/ e'.pc \in {"scan", "recv"} /\ (e'.pc = "scan" => e'.i < e.rx_length)
  <2>1. CASE e.length + e.rx_length > AppSize
    <3>1. e' = [e EXCEPT !.pc = "overrun"]
      BY <1>1, <2>1
    <3> QED BY <1>2, <3>1 DEF EspState, Pc
  <2>2. CASE ~ (e.length + e.rx_length > AppSize)
    <3>1. PICK p \in {"scan", "recv"} : p = AfterBody
      BY BodyEnds
    <3>2. PICK m \in Nat : m = NextIndex
      BY BodyEnds
    <3>3. PICK l \in 0 .. AppSize : l = e.length + 1
      BY <1>3, <1>4, <2>2, SizeIs
    <3>4. p = "scan" => m < e.rx_length
      BY <3>1, <3>2, BodyEnds
    <3>5. e' = [e EXCEPT !.pc = p, !.i = m, !.length = l]
      BY <1>1, <2>2, <3>1, <3>2, <3>3
    <3>6. /\ e' \in EspState /\ e'.rx_length = e.rx_length /\ e'.pc = p /\ e'.i = m
          /\ e'.readstate = e.readstate
      BY <1>2, <3>5 DEF EspState, Pc
    <3> QED BY <3>4, <3>6
  <2> QED BY <2>1, <2>2
<1>6. app_buffer' \in [0 .. AppSize - 1 -> Byte \cup {Beyond}]
  <2>1. \A m \in Int : m >= 0 => Rx(m) \in Byte \cup {Beyond}
    BY <1>2, SizeIs DEF Rx
  <2>2. \A x \in 0 .. AppSize - 1 :
          (IF x \in e.length .. e.length + e.rx_length - 1
           THEN Rx(e.i + x - e.length) ELSE app_buffer[x]) \in Byte \cup {Beyond}
    <3> SUFFICES ASSUME NEW x \in 0 .. AppSize - 1
                 PROVE  (IF x \in e.length .. e.length + e.rx_length - 1
                         THEN Rx(e.i + x - e.length) ELSE app_buffer[x]) \in Byte \cup {Beyond}
      OBVIOUS
    <3>1. app_buffer[x] \in Byte \cup {Beyond}
      BY <1>2
    <3>2. x >= e.length => e.i + x - e.length \in Int /\ e.i + x - e.length >= 0
      BY <1>3, SizeIs
    <3>3. x \in e.length .. e.length + e.rx_length - 1 => x >= e.length
      BY <1>3, SizeIs
    <3> QED BY <2>1, <3>1, <3>2, <3>3
  <2>3. DOMAIN app_buffer = 0 .. AppSize - 1
    BY <1>2
  <2> QED BY <1>1, <2>2, <2>3 DEF Window
<1>7. EspTypes'
  BY <1>1, <1>5, <1>6 DEF Types, EspTypes
<1>8. e.readstate
  BY <1>1 DEF Types, Scans
<1> QED BY <1>1, <1>4, <1>5, <1>7, <1>8 DEF Types, Scans, Scanning

Mail == {"app_buffer", "over"}

\* A mail is put behind the others, or dropped when the mailbox is full.
LEMMA MailedIs ==
    ASSUME JsonTypes, NEW m \in Mail
    PROVE  /\ Mailed(m) \in Seq(Mail) /\ Len(Mailed(m)) <= MbSize
           /\ Len(json_mb) < MbSize => /\ Len(Mailed(m)) = Len(json_mb) + 1
                                       /\ Mailed(m)[Len(json_mb) + 1] = m
           /\ Len(json_mb) >= MbSize => Mailed(m) = json_mb
           /\ \A b \in 1 .. Len(json_mb) : Mailed(m)[b] = json_mb[b]
<1> PICK q : q = json_mb  OBVIOUS
<1>1. q \in Seq(Mail) /\ Len(q) <= MbSize /\ MbSize \in Nat
  BY BoundAssumption DEF JsonTypes, Mail
<1>2. Len(q) \in Nat
  BY <1>1
<1>3. /\ Append(q, m) \in Seq(Mail) /\ Len(Append(q, m)) = Len(q) + 1
      /\ Append(q, m)[Len(q) + 1] = m
      /\ \A b \in 1 .. Len(q) : Append(q, m)[b] = q[b]
  BY <1>1
<1> QED BY <1>1, <1>2, <1>3 DEF Mailed

\* The first mail, and the others.
LEMMA TakenIs ==
    ASSUME JsonTypes, json_mb # <<>>
    PROVE  /\ Len(json_mb) >= 1 /\ Head(json_mb) = json_mb[1] /\ json_mb[1] \in Mail
           /\ Tail(json_mb) \in Seq(Mail) /\ Len(Tail(json_mb)) = Len(json_mb) - 1
           /\ Len(json_mb) >= 2 => Tail(json_mb)[1] = json_mb[2]
<1> PICK q : q = json_mb  OBVIOUS
<1>1. q \in Seq(Mail) /\ q # <<>>
  BY DEF JsonTypes, Mail
<1>2. Len(q) \in Nat /\ Len(q) >= 1
  BY <1>1
<1> QED BY <1>1, <1>2

\* The start of the esp32 thread, and its two mails.
LEMMA EspStartTypes ==
    ASSUME Types, EspStart
    PROVE  Types'
<1>1. /\ esp_new > 0 /\ esp_new' = esp_new - 1
      /\ UNCHANGED <<line, items, uart_rx_buffer, app_buffer, user_num, seen,
                     attached, json_mb, job, num, passed, docs, starts>>
      /\ \/ frozen' = TRUE /\ UNCHANGED <<e, user_quan_flag, rx_mq_made>>
         \/ /\ ~ rx_mq_made /\ e' = [e EXCEPT !.pc = "recv"] /\ user_quan_flag' = 0
            /\ rx_mq_made' = TRUE /\ UNCHANGED frozen
  BY DEF EspStart
<1>2. e \in EspState /\ esp_new \in Nat
  BY DEF Types, EspTypes, JsonTypes
<1>3. esp_new' \in Nat
  BY <1>1, <1>2
<1>4. user_quan_flag' \in 0 .. 2
  BY <1>1 DEF Types, EspTypes
<1>5. /\ e' \in EspState /\ e'.readstate = e.readstate /\ e'.length = e.length
      /\ e' = e \/ e'.pc = "recv"
  BY <1>1, <1>2 DEF EspState, Pc
<1>6. EspTypes'
  BY <1>1, <1>4, <1>5 DEF Types, EspTypes
<1>7. JsonTypes'
  BY <1>1, <1>3 DEF Types, JsonTypes
<1>8. Scans'
  BY <1>1, <1>5 DEF Types, Scans, Scanning
<1> QED BY <1>6, <1>7, <1>8 DEF Types

\* The two mails of a text keep the types.
LEMMA SendTypes ==
    ASSUME Types, SendText \/ SendOver
    PROVE  Types'
<1>1. /\ UNCHANGED <<line, items, uart_rx_buffer, app_buffer, user_num, user_quan_flag, seen,
                     attached, rx_mq_made, esp_new, job, num, passed, frozen, starts>>
      /\ e.pc \in {"recv", "send_over"}
      /\ docs' \in {docs, docs + 1}
      /\ \E m \in Mail : json_mb' \in {json_mb, Mailed(m)}
      /\ \/ e' = [e EXCEPT !.pc = "send_over"]
         \/ e' = [e EXCEPT !.pc = "assert"]
         \/ e' = [e EXCEPT !.pc = "recv", !.readstate = FALSE, !.length = 0]
  BY DEF SendText, SendOver, AfterText, FirstMail, Mail
<1>2. e \in EspState /\ docs \in Nat
  BY DEF Types, EspTypes, JsonTypes
<1>3. docs' \in Nat
  BY <1>1, <1>2
<1>4. json_mb' \in Seq(Mail) /\ Len(json_mb') <= MbSize
  BY <1>1, MailedIs DEF Types, JsonTypes, Mail
<1>5. PICK z \in 0 .. AppSize : z = 0
  BY SizeIs
<1>6. /\ e' \in EspState /\ e'.pc \in {"send_over", "assert", "recv"}
      /\ \/ e'.readstate = e.readstate /\ e'.length = e.length
         \/ ~ e'.readstate /\ e'.length = z
  <2>1. CASE e' = [e EXCEPT !.pc = "recv", !.readstate = FALSE, !.length = z]
    BY <1>2, <2>1 DEF EspState, Pc
  <2>2. CASE \/ e' = [e EXCEPT !.pc = "send_over"] \/ e' = [e EXCEPT !.pc = "assert"]
    BY <1>2, <2>2 DEF EspState, Pc
  <2> QED BY <1>1, <1>5, <2>1, <2>2
<1>7. EspTypes'
  BY <1>1, <1>6 DEF Types, EspTypes
<1>8. JsonTypes'
  BY <1>1, <1>3, <1>4 DEF Types, JsonTypes, Mail
<1>9. Scans'
  BY <1>1, <1>5, <1>6 DEF Types, Scans, Scanning
<1> QED BY <1>7, <1>8, <1>9 DEF Types

\* The shell command keeps the types.
LEMMA StartTypes ==
    ASSUME Types, Start
    PROVE  Types'
<1>1. /\ UNCHANGED <<espVars, rx_mq_made, num, passed, docs>>
      /\ starts' = starts + 1
      /\ esp_new' \in {esp_new, esp_new + 1}
      /\ json_mb' \in {json_mb, <<>>}
      /\ attached' \in BOOLEAN /\ frozen' \in BOOLEAN
      /\ job' = job \/ \E h \in Job : job' = [job EXCEPT ![h] = "recv"]
  BY DEF Start, NewJob, Types, JsonTypes
<1>2. starts' \in Nat /\ esp_new' \in Nat
  BY <1>1 DEF Types, JsonTypes
<1>3. json_mb' \in Seq(Mail) /\ Len(json_mb') <= MbSize
  <2>1. <<>> \in Seq(Mail) /\ Len(<<>>) = 0
    OBVIOUS
  <2>2. MbSize >= 0
    BY BoundAssumption
  <2> QED BY <1>1, <2>1, <2>2 DEF Types, JsonTypes, Mail
<1>4. job' \in [Job -> JobPc]
  BY <1>1 DEF Types, JsonTypes, JobPc
<1>5. JsonTypes'
  BY <1>1, <1>2, <1>3, <1>4 DEF Types, JsonTypes, Mail
<1>6. EspTypes' /\ Scans'
  BY <1>1 DEF Types, EspTypes, Scans, espVars
<1> QED BY <1>5, <1>6 DEF Types

\* The steps of the json thread.
LEMMA JobTypes ==
    ASSUME Types, NEW h \in Job, JobNext(h)
    PROVE  Types'
<1>1. /\ UNCHANGED <<line, items, uart_rx_buffer, app_buffer, e, user_quan_flag, seen,
                     rx_mq_made, esp_new, frozen, docs, starts>>
      /\ user_num' \in {user_num, num + 1} /\ num' \in {num, user_num}
      /\ attached' \in {attached, FALSE}
      /\ passed' \in {passed, FALSE}
      /\ json_mb' = json_mb \/ (json_mb # <<>> /\ json_mb' = Tail(json_mb))
  BY DEF JobNext, JsonRecv, JsonParse, JsonCount, JsonSpawn, JsonDetach, espVars, AfterRecv
<1>2. \E p \in JobPc : job' = [job EXCEPT ![h] = p]
  <2>1. CASE JsonRecv(h)
    BY <2>1 DEF JsonRecv, JobStep, JobPc
  <2>2. CASE JsonParse(h)
    BY <2>2 DEF JsonParse, JobStep, JobPc
  <2>3. CASE JsonCount(h)
    BY <2>3 DEF JsonCount, JobStep, JobPc
  <2>4. CASE JsonSpawn(h)
    BY <2>4 DEF JsonSpawn, JobStep, JobPc
  <2>5. CASE JsonDetach(h)
    BY <2>5 DEF JsonDetach, JobStep, JobPc, AfterDetach
  <2> QED BY <2>1, <2>2, <2>3, <2>4, <2>5 DEF JobNext
<1>3. job' \in [Job -> JobPc]
  BY <1>2 DEF Types, JsonTypes
<1>4. user_num' \in Nat /\ user_num' >= 1 /\ num' \in Nat
  BY <1>1 DEF Types, EspTypes, JsonTypes
<1>5. json_mb' \in Seq(Mail) /\ Len(json_mb') <= MbSize
  <2>1. json_mb \in Seq(Mail) /\ Len(json_mb) <= MbSize /\ MbSize \in Nat
    BY BoundAssumption DEF Types, JsonTypes, Mail
  <2>2. Len(json_mb) \in Nat
    BY <2>1, LenIs
  <2> QED BY <1>1, <2>1, <2>2, TakenIs DEF Types
<1>6. JsonTypes'
  BY <1>1, <1>3, <1>4, <1>5 DEF Types, JsonTypes, Mail
<1>7. EspTypes' /\ Scans'
  BY <1>1, <1>4 DEF Types, EspTypes, Scans
<1> QED BY <1>6, <1>7 DEF Types

\* Every step keeps the types.
LEMMA TypesNext ==
    ASSUME Types, [Next]_vars
    PROVE  Types'
<1>1. CASE Start
  BY <1>1, StartTypes
<1>2. CASE PhoneSends
  <2>1. PICK x \in Item : Phone(x)
    BY <1>2 DEF PhoneSends
  <2>2. UNCHANGED jsonVars
    BY <1>2 DEF PhoneSends
  <2>3. JsonTypes'
    BY <2>2 DEF Types, JsonTypes, jsonVars
  <2> QED BY <2>1, <2>2, <2>3, PhoneTypes DEF Types, jsonVars
<1>3. CASE EspReads \/ EspScans
  <2>1. /\ UNCHANGED <<attached, json_mb, rx_mq_made, esp_new, job, num, frozen, docs, starts>>
        /\ passed' \in BOOLEAN
    BY <1>3 DEF EspReads, EspScans, Passes
  <2>2. JsonTypes'
    BY <2>1 DEF Types, JsonTypes
  <2>3. EspTypes' /\ Scans'
    <3>1. CASE EspReads
      <4>1. PICK n \in 0 .. Len(line) : EspRead(n)
        BY <3>1 DEF EspReads
      <4> QED BY <2>1, <4>1, ReadTypes
    <3>2. CASE EspScans
      <4>1. EspScan
        BY <3>2 DEF EspScans
      <4> QED BY <2>1, <4>1, GetTypes, ListStartTypes, ListTypes, AddTypes, SignTypes,
                 WindowTypes DEF EspScan
    <3> QED BY <1>3, <3>1, <3>2
  <2> QED BY <2>2, <2>3 DEF Types
<1>4. CASE EspStart
  BY <1>4, EspStartTypes
<1>5. CASE SendText \/ SendOver
  BY <1>5, SendTypes
<1>6. ASSUME NEW h \in Job, JobNext(h)
      PROVE  Types'
  BY <1>6, JobTypes
<1>7. CASE UNCHANGED vars
  BY <1>7 DEF vars, espVars, jsonVars, Types, EspTypes, JsonTypes, Scans
<1> QED BY <1>1, <1>2, <1>3, <1>4, <1>5, <1>6, <1>7 DEF Next, EspNext

\* The initial state has its types.
LEMMA TypesInit == Init => Types
<1> SUFFICES ASSUME Init PROVE Types
  OBVIOUS
<1>1. <<>> \in Seq(Byte) /\ <<>> \in Seq(Int) /\ <<>> \in Seq(Mail) /\ Len(<<>>) = 0
  OBVIOUS
<1>2. MaxItems \in Nat /\ LineMax \in Nat /\ MbSize \in Nat
  BY LineAssumption, BoundAssumption
<1>3. seen \in Seen
  BY <1>1 DEF Init, EspInit, NothingSeen, Seen
<1>4. e \in EspState
  BY SizeIs DEF Init, EspInit, EspState, Pc
<1>5. /\ uart_rx_buffer \in [0 .. RxSize - 1 -> Byte]
      /\ app_buffer \in [0 .. AppSize - 1 -> Byte \cup {Beyond}]
  BY NulIs DEF Init, EspInit
<1>6. /\ items \in 0 .. MaxItems /\ line \in Seq(Byte) /\ Len(line) <= LineMax
      /\ user_num \in Nat /\ user_num >= 1 /\ user_quan_flag \in 0 .. 2
  BY <1>1, <1>2 DEF Init, EspInit
<1>7. EspTypes
  BY <1>3, <1>4, <1>5, <1>6 DEF EspTypes
<1>8. json_mb \in Seq(Mail) /\ Len(json_mb) <= MbSize
  BY <1>1, <1>2 DEF Init
<1>9. JsonTypes
  BY <1>8 DEF Init, JsonTypes, JobPc, Mail
<1>10. e.pc = "none" /\ e.length = 0 /\ ~ e.readstate
  BY DEF Init, EspInit
<1>11. Scans
  BY <1>10 DEF Scans, Scanning
<1> QED BY <1>7, <1>9, <1>11 DEF Types

-----------------------------------------------------------------------------
(* One json thread at a time.                                              *)

\* Every step keeps one json thread at most, and that one on an attached mailbox.
LEMMA ChainNext ==
    ASSUME Types, Chain, [Next]_vars
    PROVE  Chain'
<1>0. job \in [Job -> JobPc]
  BY DEF Types, JsonTypes
<1>1. CASE Start
  <2>1. CASE attached
    BY <1>1, <2>1 DEF Start, InUse, Chain, Alive
  <2>2. CASE ~ attached
    <3>1. \A h \in Job : job[h] = "none"
      BY <2>2 DEF Chain, Alive
    <3>2. /\ attached' = TRUE
          /\ job' = job \/ \E h \in Job : job' = [job EXCEPT ![h] = "recv"]
      BY <1>1, <2>2 DEF Start, InUse, NewJob
    <3> QED BY <1>0, <3>1, <3>2 DEF Chain, Alive
  <2> QED BY <2>1, <2>2
<1>2. CASE PhoneSends \/ EspNext \/ UNCHANGED vars
  <2>1. UNCHANGED <<job, attached>>
    BY <1>2 DEF PhoneSends, EspNext, EspStart, EspReads, EspScans, SendText, SendOver,
                vars, jsonVars
  <2> QED BY <2>1 DEF Chain, Alive
<1>3. ASSUME NEW h \in Job, JobNext(h)
      PROVE  Chain'
  <2>1. job[h] # "none" /\ attached
    BY <1>3 DEF JobNext, JsonRecv, JsonParse, JsonCount, JsonSpawn, JsonDetach, JobStep, Chain, Alive
  <2>2. \A g \in Job : g # h => job[g] = "none"
    BY <2>1 DEF Chain, Alive
  <2>3. /\ \E p \in JobPc \ {"assert"} : job' = [job EXCEPT ![h] = p]
        /\ attached' \/ job'[h] = "none"
    <3>1. CASE JsonRecv(h)
      BY <1>0, <2>1, <3>1 DEF JsonRecv, JobStep, JobPc
    <3>2. CASE JsonParse(h)
      BY <1>0, <2>1, <3>2 DEF JsonParse, JobStep, JobPc
    <3>3. CASE JsonCount(h)
      BY <1>0, <2>1, <3>3 DEF JsonCount, JobStep, JobPc
    <3>4. CASE JsonSpawn(h)
      BY <1>0, <2>1, <3>4 DEF JsonSpawn, JobStep, JobPc
    <3>5. CASE JsonDetach(h)
      BY <1>0, <2>1, <3>5 DEF JsonDetach, JobStep, JobPc, AfterDetach
    <3> QED BY <1>3, <3>1, <3>2, <3>3, <3>4, <3>5 DEF JobNext
  <2>4. \A g \in Job : g # h => job'[g] = "none"
    BY <1>0, <2>2, <2>3
  <2>5. job'[h] # "assert"
    BY <1>0, <2>3
  <2> QED BY <2>3, <2>4, <2>5 DEF Chain, Alive
<1> QED BY <1>1, <1>2, <1>3 DEF Next

\* In the beginning there is no json thread.
LEMMA ChainInit == Init => Chain
BY DEF Init, Chain, Alive

\* The inductive invariant implies what the run checks.
LEMMA ChainIs ==
    ASSUME Types, Chain
    PROVE  ChainInv
<1>1. EspTypeOK
  <2>1. e \in EspState
    BY DEF Types, EspTypes
  <2>2. /\ e.pc \in Pc /\ e.rx_length \in 0 .. RxSize - 1 /\ e.i \in Nat /\ e.k \in Nat
        /\ e.field \in 0 .. 2 /\ e.length \in 0 .. AppSize /\ e.readstate \in BOOLEAN /\ e.num \in Nat
    BY <2>1 DEF EspState
  <2>3. DOMAIN uart_rx_buffer = 0 .. RxSize - 1 /\ DOMAIN app_buffer = 0 .. AppSize - 1
    BY DEF Types, EspTypes
  <2> QED BY <2>2, <2>3 DEF Types, EspTypes, EspTypeOK, Pc
<1>2. TypeOK
  BY <1>1 DEF TypeOK, Types, JsonTypes, JobPc
<1>3. OneConsumer
  <2>1. CASE {h \in Job : job[h] # "none"} = {}
    <3>1. Cardinality({h \in Job : job[h] # "none"}) = 0
      BY <2>1, FS_EmptySet
    <3> QED BY <3>1 DEF OneConsumer
  <2>2. CASE {h \in Job : job[h] # "none"} # {}
    <3>1. PICK h \in Job : job[h] # "none"
      BY <2>2
    <3>2. {g \in Job : job[g] # "none"} = {h}
      BY <3>1 DEF Chain, Alive
    <3>3. Cardinality({h}) = 1
      BY FS_Singleton
    <3>4. Cardinality({g \in Job : job[g] # "none"}) = 1
      BY <3>2, <3>3
    <3> QED BY <3>4 DEF OneConsumer
  <2> QED BY <2>1, <2>2
<1>4. ConsumerNeverAsserts
  BY DEF ConsumerNeverAsserts, Chain, Alive
<1> QED BY <1>2, <1>3, <1>4 DEF ChainInv

\* However often the service is started, at most one json thread is alive, it
\* never calls the mailbox after it was detached, and rt_mb_send never fills
\* the mailbox past its size.
THEOREM OneJsonThread == Spec => []ChainInv
<1>1. Init => Types /\ Chain
  BY TypesInit, ChainInit
<1>2. Types /\ Chain /\ [Next]_vars => Types' /\ Chain'
  BY TypesNext, ChainNext
<1>3. Types /\ Chain => ChainInv
  BY ChainIs
<1> QED BY <1>1, <1>2, <1>3, PTL DEF Spec

-----------------------------------------------------------------------------
(* The text.                                                               *)

\* Steps that leave the text, the buffers and the esp32 thread alone.
LEMMA CollectedKept ==
    ASSUME Collected, UNCHANGED <<app_buffer, uart_rx_buffer, e>>,
           seen'.text = seen.text, seen'.aligned = seen.aligned
    PROVE  Collected'
BY DEF Collected, Stored, Pending, TextIsTerminated, OverrunOnlyByLength

\* Steps inside one position.
LEMMA CollectedInside ==
    ASSUME Collected, UNCHANGED <<app_buffer, uart_rx_buffer>>,
           seen'.text = seen.text, seen'.aligned = seen.aligned,
           e.pc \in Scanning, e'.pc \in Scanning, e'.readstate = e.readstate,
           e'.length = e.length, e'.rx_length = e.rx_length, e'.i = e.i
    PROVE  Collected'
<1>1. e.pc # "overrun" /\ e'.pc # "overrun" /\ e'.pc # "recv"
  BY DEF Scanning
<1> QED BY <1>1 DEF Collected, Stored, Pending, TextIsTerminated, OverrunOnlyByLength

\* Nothing is said of a text while none is collected, or after a listing.
LEMMA CollectedNone ==
    ASSUME e'.pc # "overrun", ~ e'.readstate \/ ~ seen'.aligned
    PROVE  Collected'
BY DEF Collected, TextIsTerminated, OverrunOnlyByLength

\* A batch joins the text it continues.
LEMMA CollectedRead ==
    ASSUME Types, Collected, NEW n \in 0 .. Len(line), EspRead(n)
    PROVE  Collected'
<1>1. /\ e.pc = "recv" /\ n <= RxSize - 1 /\ uart_rx_buffer' = Filled(n)
      /\ e' = [e EXCEPT !.pc = IF n = 0 THEN "recv" ELSE "scan", !.rx_length = n, !.i = 0]
      /\ seen' = [seen EXCEPT !.text = IF e.readstate THEN seen.text \o SubSeq(line, 1, n) ELSE seen.text]
      /\ app_buffer' = app_buffer
  BY DEF EspRead
<1>2. e \in EspState /\ seen \in Seen /\ line \in Seq(Byte)
  BY DEF Types, EspTypes
<1>3. /\ e'.rx_length = n /\ e'.i = 0 /\ e'.pc = IF n = 0 THEN "recv" ELSE "scan"
      /\ e'.readstate = e.readstate /\ e'.length = e.length
  BY <1>1, <1>2 DEF EspState
<1>4. seen'.aligned = seen.aligned
  BY <1>1, <1>2 DEF Seen
<1>5. CASE ~ e.readstate \/ ~ seen.aligned
  BY <1>3, <1>4, <1>5, CollectedNone
<1>6. CASE e.readstate /\ seen.aligned
  <2>1. PICK s \in Seq(Byte) : s = SubSeq(line, 1, n)
    BY <1>2, CutIs
  <2>2. PICK t \in Seq(Byte) : t = seen.text
    BY <1>2 DEF Seen
  <2>3. seen'.text = t \o s
    BY <1>1, <1>2, <1>6, <2>1, <2>2 DEF Seen
  <2>4. Len(s) = n /\ \A b \in 1 .. n : s[b] = line[b]
    BY <1>2, <2>1, CutIs
  <2>5. /\ Len(t \o s) = Len(t) + n /\ Len(t) \in Nat
        /\ \A b \in 1 .. Len(t) : (t \o s)[b] = t[b]
        /\ \A b \in 1 .. n : (t \o s)[Len(t) + b] = s[b]
    <3>1. s \in Seq(Byte) /\ t \in Seq(Byte)
      BY <2>1, <2>2
    <3>2. Len(t) \in Nat
      BY <3>1, LenIs
    <3>3. /\ Len(t \o s) = Len(t) + Len(s)
          /\ \A b \in 1 .. Len(t) : (t \o s)[b] = t[b]
          /\ \A b \in 1 .. Len(s) : (t \o s)[Len(t) + b] = s[b]
      <4>1. Len(s) \in Nat
        BY ONLY <3>1, LenIs
      <4> QED BY ONLY <3>1, <3>2, <4>1
    <3> QED BY ONLY <2>4, <3>2, <3>3, Zenon
  <2>6. e.length = Len(t) /\ Stored
    BY <1>1, <1>6, <2>2 DEF Collected, Scanning
  <2>7. Stored'
    <3> SUFFICES ASSUME NEW x \in 0 .. e.length - 1 PROVE app_buffer[x] = (t \o s)[x + 1]
      BY <1>1, <1>3, <2>3 DEF Stored
    <3>1. x + 1 \in 1 .. Len(t)
      BY <2>5, <2>6
    <3> QED BY <2>2, <2>5, <2>6, <3>1 DEF Stored
  <2>8. CASE n = 0
    <3>1. e'.length = Len(seen'.text) /\ e'.pc = "recv" /\ e'.rx_length = 0
      BY <1>3, <2>3, <2>5, <2>6, <2>8
    <3>2. TextIsTerminated' /\ OverrunOnlyByLength'
      BY <3>1 DEF TextIsTerminated, OverrunOnlyByLength
    <3> QED BY <2>7, <3>1, <3>2 DEF Collected, Scanning
  <2>9. CASE n # 0
    <3>1. e'.pc = "scan"
      BY <1>3, <2>9
    <3>2. e'.length + e'.rx_length - e'.i = Len(seen'.text)
      BY <1>3, <2>3, <2>5, <2>6
    <3>3. ASSUME NEW x \in e'.i .. e'.rx_length - 1
          PROVE  uart_rx_buffer'[x] = seen'.text[e'.length + 1 + (x - e'.i)]
      <4>1. x \in 0 .. n - 1 /\ x + 1 \in 1 .. n /\ x \in Int
        BY <1>3
      <4>2. uart_rx_buffer'[x] = line[x + 1]
        BY <1>1, <4>1, FilledIs DEF Types
      <4>3. e'.length + 1 + (x - e'.i) = Len(t) + (x + 1)
        BY <1>3, <2>5, <2>6, <4>1
      <4> QED BY <2>3, <2>4, <2>5, <4>1, <4>2, <4>3
    <3>4. Pending'
      BY <3>2, <3>3 DEF Pending
    <3>5. TextIsTerminated' /\ OverrunOnlyByLength'
      BY <3>1 DEF TextIsTerminated, OverrunOnlyByLength
    <3> QED BY <2>7, <3>1, <3>4, <3>5 DEF Collected, Scanning
  <2> QED BY <2>8, <2>9
<1> QED BY <1>5, <1>6

\* The start of a text: all of it is still in the batch.
LEMMA CollectedSign ==
    ASSUME Types, Collected, EspSign
    PROVE  Collected'
<1>1. e.pc = "sign" /\ UNCHANGED <<uart_rx_buffer, app_buffer>>
  BY DEF EspSign
<1>2. e \in EspState /\ seen \in Seen /\ e.i \in Nat /\ e.rx_length \in Nat /\ e.length \in Nat
  BY SizeIs DEF Types, EspTypes, EspState
<1>3. CASE e.readstate
  <2>1. e' = [e EXCEPT !.pc = "window", !.readstate = TRUE] /\ seen' = seen
    BY <1>3 DEF EspSign
  <2>2. /\ e'.pc = "window" /\ e'.readstate = e.readstate /\ e'.length = e.length
        /\ e'.rx_length = e.rx_length /\ e'.i = e.i
    BY <1>2, <1>3, <2>1 DEF EspState
  <2> QED BY <1>1, <2>1, <2>2, CollectedInside DEF Scanning
<1>4. CASE ~ e.readstate /\ ~ Here(Open)
  <2>1. e' = [e EXCEPT !.pc = AfterBody, !.i = NextIndex]
    BY <1>4 DEF EspSign
  <2>2. e'.readstate = e.readstate /\ e'.pc \in {"scan", "recv"}
    BY <1>2, <2>1, BodyEnds DEF EspState
  <2> QED BY <1>4, <2>2, CollectedNone
<1>5. CASE ~ e.readstate /\ Here(Open)
  <2>1. /\ e' = [e EXCEPT !.pc = "window", !.readstate = TRUE]
        /\ seen' = [seen EXCEPT
                      !.text = [b \in 1 .. IF e.i < e.rx_length THEN e.rx_length - e.i ELSE 0
                                  |-> uart_rx_buffer[e.i + b - 1]],
                      !.aligned = e.i < e.rx_length]
    BY <1>5 DEF EspSign
  <2>2. e.length = 0
    BY <1>5 DEF Types, Scans
  <2>3. /\ e'.pc = "window" /\ e'.length = 0 /\ e'.rx_length = e.rx_length /\ e'.i = e.i
    BY <1>2, <2>1, <2>2 DEF EspState
  <2>4. PICK m \in Nat : m = IF e.i < e.rx_length THEN e.rx_length - e.i ELSE 0
    BY <1>2
  <2>5. PICK t : t = [b \in 1 .. m |-> uart_rx_buffer[e.i + b - 1]]
    OBVIOUS
  <2>6. seen'.text = t /\ seen'.aligned = (e.i < e.rx_length)
    BY <1>2, <2>1, <2>4, <2>5 DEF Seen
  <2>7. CASE ~ seen'.aligned
    BY <2>3, <2>7, CollectedNone
  <2>8. CASE seen'.aligned
    <3>1. e.i < e.rx_length /\ m = e.rx_length - e.i
      BY <2>4, <2>6, <2>8
    <3>2. Len(t) = m
      BY <2>5
    <3>3. ASSUME NEW x \in e.i .. e.rx_length - 1
          PROVE  uart_rx_buffer[x] = t[0 + 1 + (x - e.i)]
      <4>1. 0 + 1 + (x - e.i) \in 1 .. m /\ e.i + (0 + 1 + (x - e.i)) - 1 = x
        BY <1>2, <3>1
      <4> QED BY <2>5, <4>1
    <3>4. 0 + e.rx_length - e.i = Len(t)
      BY <1>2, <3>1, <3>2
    <3>5. Pending'
      BY <1>1, <2>3, <2>6, <3>3, <3>4 DEF Pending
    <3>6. Stored'
      BY <2>3 DEF Stored
    <3>7. TextIsTerminated' /\ OverrunOnlyByLength'
      BY <2>3 DEF TextIsTerminated, OverrunOnlyByLength
    <3> QED BY <2>3, <3>5, <3>6, <3>7 DEF Collected, Scanning
  <2> QED BY <2>7, <2>8
<1> QED BY <1>3, <1>4, <1>5

\* The window of a position puts the next byte of the text in its place, and at
\* the last position the NUL behind it.
LEMMA CollectedWindow ==
    ASSUME Types, Collected, EspWindow
    PROVE  Collected'
<1>1. /\ e.pc = "window" /\ app_buffer' = Window /\ UNCHANGED <<uart_rx_buffer, seen>>
      /\ e' = IF e.length + e.rx_length > AppSize
              THEN [e EXCEPT !.pc = "overrun"]
              ELSE [e EXCEPT !.pc = AfterBody, !.i = NextIndex, !.length = e.length + 1]
  BY DEF EspWindow
<1>2. /\ e \in EspState /\ seen \in Seen
      /\ e.i \in Nat /\ e.rx_length \in 0 .. RxSize - 1 /\ e.length \in 0 .. AppSize
      /\ app_buffer \in [0 .. AppSize - 1 -> Byte \cup {Beyond}]
  BY DEF Types, EspTypes, EspState
<1>3. /\ e.rx_length >= 1 /\ uart_rx_buffer[e.rx_length] = Nul
      /\ e.i < e.rx_length \/ ~ seen.aligned
      /\ e.readstate
  BY <1>1 DEF Types, Scans, Scanning
<1>4. RxSize \in Nat /\ AppSize \in Nat
  BY SizeIs
<1>0. /\ e.i \in Nat /\ e.rx_length \in Nat /\ e.length \in Nat
      /\ e.rx_length < RxSize /\ e.length <= AppSize
  BY <1>2, <1>4
<1>5. CASE e.length + e.rx_length > AppSize
  <2>1. e' = [e EXCEPT !.pc = "overrun"]
    BY <1>1, <1>5
  <2>2. e'.pc = "overrun" /\ e'.rx_length = e.rx_length /\ e'.readstate = e.readstate
    BY <1>2, <2>1 DEF EspState
  <2>3. ASSUME seen.aligned PROVE Len(seen.text) + e.rx_length > AppSize + 1
    <3>1. e.length + e.rx_length - e.i = Len(seen.text)
      BY <1>1, <1>3, <2>3 DEF Collected, Pending, Scanning
    <3> QED BY <1>2, <1>3, <1>4, <1>5, <2>3, <3>1
  <2>4. OverrunOnlyByLength'
    BY <1>1, <2>2, <2>3 DEF OverrunOnlyByLength
  <2> QED BY <2>2, <2>4 DEF Collected, TextIsTerminated
<1>6. CASE ~ (e.length + e.rx_length > AppSize) /\ seen.aligned
  <2>1. e' = [e EXCEPT !.pc = AfterBody, !.i = NextIndex, !.length = e.length + 1]
    BY <1>1, <1>6
  <2>2. /\ e'.pc = AfterBody /\ e'.i = e.i + 1 /\ e'.length = e.length + 1
        /\ e'.rx_length = e.rx_length /\ e'.readstate
    BY <1>2, <1>3, <2>1, BodyEnds DEF EspState
  <2>3. e.i < e.rx_length
    BY <1>3, <1>6
  <2>4. PICK t \in Seq(Byte) : t = seen.text
    BY <1>2 DEF Seen
  <2>5. /\ Stored
        /\ e.length + e.rx_length - e.i = Len(t)
        /\ \A x \in e.i .. e.rx_length - 1 : uart_rx_buffer[x] = t[e.length + 1 + (x - e.i)]
    BY <1>1, <1>3, <1>6, <2>4 DEF Collected, Pending, Scanning
  <2>6. app_buffer' = [x \in 0 .. AppSize - 1 |->
                         IF x \in e.length .. e.length + e.rx_length - 1
                         THEN Rx(e.i + x - e.length) ELSE app_buffer[x]]
    BY <1>1, <1>2 DEF Window
  <2>7. app_buffer'[e.length] = uart_rx_buffer[e.i]
    <3>1. /\ e.length \in 0 .. AppSize - 1 /\ e.length \in e.length .. e.length + e.rx_length - 1
          /\ e.i + e.length - e.length = e.i /\ e.i < RxSize
      BY <1>2, <1>3, <1>4, <1>6, <2>3
    <3>2. app_buffer'[e.length] = Rx(e.i)
      BY <2>6, <3>1
    <3> QED BY <3>1, <3>2 DEF Rx
  <2>8. \A x \in 0 .. e.length - 1 : app_buffer'[x] = app_buffer[x]
    <3> SUFFICES ASSUME NEW x \in 0 .. e.length - 1 PROVE app_buffer'[x] = app_buffer[x]
      OBVIOUS
    <3>1. x \in 0 .. AppSize - 1 /\ x \notin e.length .. e.length + e.rx_length - 1
      BY <1>2, <1>4
    <3> QED BY <2>6, <3>1
  <2>9. Stored'
    <3> SUFFICES ASSUME NEW x \in 0 .. e.length PROVE app_buffer'[x] = t[x + 1]
      <4>1. e'.length - 1 = e.length
        BY <1>0, <2>2
      <4>2. seen'.text = t
        BY <1>1, <2>4
      <4> QED BY <4>1, <4>2 DEF Stored
    <3>1. CASE x = e.length
      <4>1. e.i \in e.i .. e.rx_length - 1 /\ e.length + 1 + (e.i - e.i) = x + 1
        BY <1>2, <1>4, <2>3, <3>1
      <4> QED BY <2>5, <2>7, <3>1, <4>1
    <3>2. CASE x # e.length
      <4>1. x \in 0 .. e.length - 1
        BY <1>2, <3>2
      <4> QED BY <2>4, <2>5, <2>8, <4>1 DEF Stored
    <3> QED BY <3>1, <3>2
  <2>10. OverrunOnlyByLength'
    BY <2>2, BodyEnds DEF OverrunOnlyByLength
  <2>11. CASE AfterBody = "scan"
    <3>1. (e.length + 1) + e.rx_length - (e.i + 1) = Len(t)
      <4>1. PICK n \in Int : n = e.length + e.rx_length - e.i
        BY ONLY <1>0
      <4>2. (e.length + 1) + e.rx_length - (e.i + 1) = n
        BY ONLY <1>0, <4>1
      <4> QED BY ONLY <2>5, <4>1, <4>2
    <3>2. ASSUME NEW x \in e.i + 1 .. e.rx_length - 1
          PROVE  uart_rx_buffer[x] = t[(e.length + 1) + 1 + (x - (e.i + 1))]
      <4>1. /\ x \in e.i .. e.rx_length - 1
            /\ (e.length + 1) + 1 + (x - (e.i + 1)) = e.length + 1 + (x - e.i)
        <5>1. x \in Int /\ e.i + 1 <= x /\ x <= e.rx_length - 1
          BY <1>0
        <5> QED BY ONLY <1>0, <5>1
      <4> QED BY <2>5, <4>1
    <3>3. Pending'
      BY <1>1, <2>2, <2>4, <3>1, <3>2 DEF Pending
    <3>4. TextIsTerminated'
      BY <2>2, <2>11 DEF TextIsTerminated
    <3> QED BY <2>2, <2>9, <2>10, <2>11, <3>3, <3>4 DEF Collected, Scanning
  <2>12. CASE AfterBody = "recv"
    <3>1. e.rx_length = e.i + 1
      BY <1>2, <1>4, <2>3, <2>12, BodyEnds
    <3>2. e'.length = Len(seen'.text)
      BY <1>1, <1>2, <1>4, <2>2, <2>4, <2>5, <3>1
    <3>3. ASSUME e.rx_length >= 2, e.length + 1 < AppSize
          PROVE  app_buffer'[e.length + 1] = Nul
      <4>1. /\ e.length + 1 \in 0 .. AppSize - 1
            /\ e.length + 1 \in e.length .. e.length + e.rx_length - 1
            /\ e.i + (e.length + 1) - e.length = e.rx_length /\ e.rx_length < RxSize
        BY ONLY <1>0, <1>4, <3>1, <3>3
      <4>2. app_buffer'[e.length + 1] = Rx(e.rx_length)
        BY <2>6, <4>1
      <4> QED BY <1>3, <4>1, <4>2 DEF Rx
    <3>4. TextIsTerminated'
      BY <2>2, <3>3 DEF TextIsTerminated
    <3> QED BY <2>2, <2>9, <2>10, <2>12, <3>2, <3>4 DEF Collected, Scanning
  <2> QED BY <2>11, <2>12, BodyEnds
<1>7. CASE ~ (e.length + e.rx_length > AppSize) /\ ~ seen.aligned
  <2>1. e' = [e EXCEPT !.pc = AfterBody, !.i = NextIndex, !.length = e.length + 1]
    BY <1>1, <1>7
  <2>2. e'.pc \in {"scan", "recv"}
    BY <1>2, <2>1, BodyEnds DEF EspState
  <2> QED BY <1>1, <1>7, <2>2, CollectedNone
<1> QED BY <1>5, <1>6, <1>7

\* Every step keeps the text.
LEMMA CollectedNext ==
    ASSUME Types, Collected, [Next]_vars
    PROVE  Collected'
<1>0. e \in EspState /\ seen \in Seen /\ (e.pc = "none" => ~ e.readstate)
      /\ (~ rx_mq_made => e.pc = "none")
  BY DEF Types, EspTypes, Scans
<1>1. CASE Start \/ UNCHANGED vars
  BY <1>1, CollectedKept DEF Start, vars, espVars
<1>2. CASE PhoneSends
  <2>1. \E x \in Item : Phone(x)
    BY <1>2 DEF PhoneSends
  <2>2. UNCHANGED <<app_buffer, uart_rx_buffer, e>>
    BY <2>1 DEF Phone
  <2>3. seen'.text = seen.text /\ seen'.aligned = seen.aligned
    BY <1>0, <2>1 DEF Phone, Seen
  <2> QED BY <2>2, <2>3, CollectedKept
<1>3. CASE EspReads
  BY <1>3, CollectedRead DEF EspReads
<1>4. CASE EspScans
  <2>1. CASE EspGet
    <3>1. PICK p \in {"list_start", "add"} : e' = [e EXCEPT !.pc = p]
      BY <2>1 DEF EspGet
    <3> QED BY <1>0, <2>1, <3>1, CollectedInside DEF EspGet, EspState, Scanning
  <2>2. CASE EspListStart
    <3>1. PICK p \in {"list", "add"} : e' = [e EXCEPT !.pc = p, !.k = user_num, !.field = 0]
      BY <2>2 DEF EspListStart
    <3>2. seen' = [seen EXCEPT !.listed = <<>>, !.from = user_num]
      BY <2>2 DEF EspListStart
    <3>3. seen'.text = seen.text /\ seen'.aligned = seen.aligned
      BY <1>0, <3>2 DEF Seen
    <3> QED BY <1>0, <2>2, <3>1, <3>3, CollectedInside DEF EspListStart, EspState, Scanning
  <2>3. CASE EspList
    <3>1. seen'.aligned = FALSE
      BY <1>0, <2>3 DEF EspList, Seen
    <3>2. e'.pc # "overrun"
      BY <1>0, <2>3 DEF EspList, EspState
    <3> QED BY <3>1, <3>2, CollectedNone
  <2>4. CASE EspAdd
    <3>1. \/ e' = [e EXCEPT !.pc = "count", !.num = user_num]
          \/ e' = [e EXCEPT !.pc = "sign"]
      BY <2>4 DEF EspAdd
    <3>2. UNCHANGED <<app_buffer, uart_rx_buffer, seen>> /\ e.pc \in Scanning
      BY <2>4 DEF EspAdd, Scanning
    <3>3. /\ e'.pc \in Scanning /\ e'.readstate = e.readstate
          /\ e'.length = e.length /\ e'.rx_length = e.rx_length /\ e'.i = e.i
      BY <1>0, <3>1 DEF EspState, Scanning
    <3> QED BY <3>2, <3>3, CollectedInside
  <2>5. CASE EspCount
    BY <1>0, <2>5, CollectedInside DEF EspCount, EspState, Scanning
  <2>6. CASE EspSign
    BY <2>6, CollectedSign
  <2>7. CASE EspWindow
    BY <2>7, CollectedWindow
  <2> QED BY <1>4, <2>1, <2>2, <2>3, <2>4, <2>5, <2>6, <2>7 DEF EspScans, EspScan
<1>5. CASE EspStart
  <2>1. CASE e' = e
    BY <1>5, <2>1, CollectedKept DEF EspStart
  <2>2. CASE e' # e
    <3>1. e' = [e EXCEPT !.pc = "recv"] /\ ~ rx_mq_made
      BY <1>5, <2>2 DEF EspStart
    <3>2. e'.pc = "recv" /\ ~ e'.readstate
      BY <1>0, <3>1 DEF EspState
    <3> QED BY <3>2, CollectedNone
  <2> QED BY <2>1, <2>2
<1>6. CASE SendText \/ SendOver
  <2>1. /\ UNCHANGED <<app_buffer, uart_rx_buffer, seen>> /\ e.pc \in {"recv", "send_over"}
        /\ \/ e' = [e EXCEPT !.pc = "send_over"]
           \/ e' = [e EXCEPT !.pc = "assert"]
           \/ e' = [e EXCEPT !.pc = "recv", !.readstate = FALSE, !.length = 0]
    BY <1>6 DEF SendText, SendOver, AfterText
  <2>2. CASE e' = [e EXCEPT !.pc = "recv", !.readstate = FALSE, !.length = 0]
    <3>1. e'.pc = "recv" /\ ~ e'.readstate
      BY <1>0, <2>2 DEF EspState
    <3> QED BY <3>1, CollectedNone
  <2>3. CASE \/ e' = [e EXCEPT !.pc = "send_over"] \/ e' = [e EXCEPT !.pc = "assert"]
    <3>1. /\ e'.pc \in {"send_over", "assert"} /\ e'.readstate = e.readstate
          /\ e'.length = e.length
      BY <1>0, <2>3 DEF EspState
    <3> QED BY <2>1, <3>1 DEF Collected, Stored, Scanning, TextIsTerminated, OverrunOnlyByLength
  <2> QED BY <2>1, <2>2, <2>3
<1>7. ASSUME NEW h \in Job, JobNext(h)
      PROVE  Collected'
  <2>1. UNCHANGED <<app_buffer, uart_rx_buffer, e, seen>>
    BY <1>7 DEF JobNext, JsonRecv, JsonParse, JsonCount, JsonSpawn, JsonDetach, espVars
  <2> QED BY <2>1, CollectedKept
<1> QED BY <1>1, <1>2, <1>3, <1>4, <1>5, <1>6, <1>7 DEF Next, EspNext

\* In the beginning no text is being collected.
LEMMA CollectedInit == Init => Collected
<1>1. Init => ~ e.readstate /\ e.pc = "none"
  BY DEF Init, EspInit
<1> QED BY <1>1 DEF Collected, TextIsTerminated, OverrunOnlyByLength

\* The inductive part about texts says what TextInv does.
LEMMA CollectedIs ==
    ASSUME Types, Collected
    PROVE  TextInv
<1>1. TextIsWhole
  <2> SUFFICES ASSUME e.readstate, seen.aligned, e.pc # "overrun"
               PROVE  /\ e.length <= Len(seen.text)
                      /\ \A x \in 0 .. e.length - 1 : app_buffer[x] = seen.text[x + 1]
                      /\ e.pc = "recv" => e.length = Len(seen.text)
    BY DEF TextIsWhole
  <2>1. Stored /\ IF e.pc \in Scanning THEN Pending ELSE e.length = Len(seen.text)
    BY DEF Collected
  <2>2. /\ e.length \in Nat /\ e.i \in Nat /\ e.rx_length \in Nat
        /\ e.pc \in Scanning => e.i < e.rx_length
    BY SizeIs DEF Types, EspTypes, EspState, Scans
  <2>3. e.length <= Len(seen.text)
    <3>1. CASE e.pc \in Scanning
      <4>1. e.length + e.rx_length - e.i = Len(seen.text)
        BY <2>1, <3>1 DEF Pending
      <4> QED BY <2>2, <3>1, <4>1
    <3>2. CASE e.pc \notin Scanning
      BY <2>1, <2>2, <3>2
    <3> QED BY <3>1, <3>2
  <2>4. e.pc = "recv" => e.length = Len(seen.text)
    BY <2>1 DEF Scanning
  <2> QED BY <2>1, <2>3, <2>4 DEF Stored
<1> QED BY <1>1 DEF TextInv, Collected

\* However the bytes of a text are divided into batches, and whatever the other
\* threads do, app_buffer holds exactly the bytes received from the opening of
\* the text on, ends with a NUL once a batch of two bytes or more is done, and
\* is overrun only by a text that has no room in it: for any texts and sizes.
THEOREM TextIsCollected == Spec => []TextInv
<1>1. Init => Types /\ Collected
  BY TypesInit, CollectedInit
<1>2. Types /\ Collected /\ [Next]_vars => Types' /\ Collected'
  BY TypesNext, CollectedNext
<1>3. Types /\ Collected => TextInv
  BY CollectedIs
<1> QED BY <1>1, <1>2, <1>3, PTL DEF Spec

-----------------------------------------------------------------------------
(* The steps of the one json thread h there is, as they are seen by the    *)
(* mailbox and by the counters.                                            *)

Takes(h) == /\ job[h] = "recv" /\ attached /\ json_mb # <<>> /\ json_mb' = Tail(json_mb)
            /\ job'[h] = IF json_mb[1] = "over" THEN "detach" ELSE "parse"
            /\ UNCHANGED <<attached, user_num, num, passed>>

Parses(h) == /\ job[h] = "parse" /\ job'[h] \in {"count", "none"} /\ ~ passed'
             /\ job'[h] = "count" => num' = user_num
             /\ UNCHANGED <<attached, json_mb, user_num>>

Adds1(h) == /\ job[h] = "count" /\ job'[h] = "spawn_state" /\ user_num' = num + 1 /\ ~ passed'
            /\ UNCHANGED <<attached, json_mb, num>>

Spawns(h) == /\ job[h] \in {"spawn_state", "spawn_json"}
             /\ job'[h] \in {"spawn_json", "recv", "none"}
             /\ UNCHANGED <<attached, json_mb, user_num, num, passed>>

Detaches(h) == /\ job[h] = "detach" /\ job'[h] = "none" /\ ~ attached'
               /\ UNCHANGED <<json_mb, user_num, num, passed>>

\* No other thread of the chain is there, before and after.
Alone(h) == \A g \in Job : g # h => job[g] = "none" /\ job'[g] = "none"

\* A json thread is alone and leaves the variables of the esp32 thread alone; its
\* steps are of five kinds.
LEMMA JobIs ==
    ASSUME Types, Chain, NEW h \in Job, JobNext(h)
    PROVE  /\ Alone(h) /\ attached
           /\ UNCHANGED <<e, line, uart_rx_buffer, seen, docs, rx_mq_made>>
           /\ Takes(h) \/ Parses(h) \/ Adds1(h) \/ Spawns(h) \/ Detaches(h)
<1>0. job \in [Job -> JobPc] /\ JsonTypes
  BY DEF Types, JsonTypes
<1>1. job[h] # "none" /\ attached
  BY DEF JobNext, JsonRecv, JsonParse, JsonCount, JsonSpawn, JsonDetach, JobStep, Chain, Alive
<1>2. \A g \in Job : g # h => job[g] = "none"
  BY <1>1 DEF Chain, Alive
<1>3. \E p : job' = [job EXCEPT ![h] = p]
  BY DEF JobNext, JsonRecv, JsonParse, JsonCount, JsonSpawn, JsonDetach, JobStep
<1>4. Alone(h)
  BY <1>0, <1>2, <1>3 DEF Alone
<1>5. UNCHANGED <<e, line, uart_rx_buffer, seen, docs, rx_mq_made>>
  BY DEF JobNext, JsonRecv, JsonParse, JsonCount, JsonSpawn, JsonDetach, espVars
<1>6. CASE JsonRecv(h)
  <2>1. json_mb # <<>> /\ json_mb' = Tail(json_mb)
    BY <1>1, <1>6 DEF JsonRecv, AfterRecv
  <2>2. Head(json_mb) = json_mb[1]
    BY <1>0, <2>1, TakenIs
  <2>3. /\ job[h] = "recv" /\ job'[h] = IF json_mb[1] = "over" THEN "detach" ELSE "parse"
    BY <1>0, <1>1, <1>6, <2>2 DEF JsonRecv, JobStep
  <2>4. UNCHANGED <<attached, user_num, num, passed>>
    BY <1>6 DEF JsonRecv, espVars
  <2>5. Takes(h)
    BY <1>1, <2>1, <2>3, <2>4 DEF Takes
  <2> QED BY <1>1, <1>4, <1>5, <2>5
<1>7. CASE JsonParse(h)
  <2>1. Parses(h)
    BY <1>0, <1>7 DEF JsonParse, JobStep, Parses
  <2> QED BY <1>1, <1>4, <1>5, <2>1
<1>8. CASE JsonCount(h)
  <2>1. Adds1(h)
    BY <1>0, <1>8 DEF JsonCount, JobStep, Adds1
  <2> QED BY <1>1, <1>4, <1>5, <2>1
<1>9. CASE JsonSpawn(h)
  <2>1. Spawns(h)
    BY <1>0, <1>9 DEF JsonSpawn, JobStep, Spawns, espVars
  <2> QED BY <1>1, <1>4, <1>5, <2>1
<1>10. CASE JsonDetach(h)
  <2>1. Detaches(h)
    BY <1>0, <1>1, <1>10 DEF JsonDetach, JobStep, Detaches, AfterDetach, espVars
  <2> QED BY <1>1, <1>4, <1>5, <2>1
<1> QED BY <1>6, <1>7, <1>8, <1>9, <1>10 DEF JobNext

\* A start that finds the mailbox detached finds no thread of the chain.
LEMMA StartIs ==
    ASSUME Types, Chain, Start
    PROVE  /\ UNCHANGED <<e, line, uart_rx_buffer, seen, docs, user_num, num, passed, rx_mq_made>>
           /\ \/ UNCHANGED <<job, attached, json_mb>>
              \/ /\ attached' /\ json_mb' = <<>>
                 /\ \A h \in Job : job[h] = "none" /\ job'[h] \in {"none", "recv"}
<1>1. UNCHANGED <<e, line, uart_rx_buffer, seen, docs, user_num, num, passed, rx_mq_made>>
  BY DEF Start, espVars
<1>2. CASE attached
  BY <1>1, <1>2 DEF Start, InUse
<1>3. CASE ~ attached
  <2>1. \A h \in Job : job[h] = "none"
    BY <1>3 DEF Chain, Alive
  <2>2. /\ attached' /\ json_mb' = <<>>
        /\ job' = job \/ \E h \in Job : job' = [job EXCEPT ![h] = "recv"]
    BY <1>3 DEF Start, InUse, NewJob
  <2>3. \A h \in Job : job'[h] \in {"none", "recv"}
    BY <2>1, <2>2 DEF Types, JsonTypes
  <2> QED BY <1>1, <2>1, <2>2, <2>3
<1> QED BY <1>2, <1>3

\* Steps of the esp32 thread that send nothing.
LEMMA QuietIs ==
    ASSUME Types, Chain, PhoneSends \/ EspReads \/ EspScans \/ EspStart \/ UNCHANGED vars
    PROVE  /\ UNCHANGED <<job, attached, json_mb, num, docs>>
           /\ (e.pc # "send_over" /\ e'.pc # "send_over") \/ e' = e
<1>0. e \in EspState
  BY DEF Types, EspTypes
<1>1. UNCHANGED <<job, attached, json_mb, num, docs>>
  BY DEF PhoneSends, EspReads, EspScans, EspStart, vars, jsonVars
<1>2. CASE PhoneSends \/ UNCHANGED vars
  BY <1>1, <1>2 DEF PhoneSends, Phone, vars, espVars
<1>3. CASE EspReads
  <2>1. PICK n : /\ e.pc = "recv"
                 /\ e' = [e EXCEPT !.pc = IF n = 0 THEN "recv" ELSE "scan", !.rx_length = n, !.i = 0]
    BY <1>3 DEF EspReads, EspRead
  <2> QED BY <1>0, <1>1, <2>1 DEF EspState
<1>4. CASE EspStart
  <2>1. e' = e \/ (~ rx_mq_made /\ e' = [e EXCEPT !.pc = "recv"])
    BY <1>4 DEF EspStart
  <2> QED BY <1>0, <1>1, <2>1 DEF EspState, Types, Scans
<1>5. CASE EspScans
  <2>1. e.pc \in Scanning /\ \E p \in Pc \ {"send_over"} : e'.pc = p
    <3>1. CASE EspGet
      BY <1>0, <3>1 DEF EspGet, EspState, Scanning, Pc
    <3>2. CASE EspListStart
      BY <1>0, <3>2 DEF EspListStart, EspState, Scanning, Pc
    <3>3. CASE EspList
      BY <1>0, <3>3 DEF EspList, EspState, Scanning, Pc
    <3>4. CASE EspAdd \/ EspCount
      BY <1>0, <3>4 DEF EspAdd, EspCount, EspState, Scanning, Pc
    <3>5. CASE EspSign
      BY <1>0, <3>5, BodyEnds DEF EspSign, EspState, Scanning, Pc
    <3>6. CASE EspWindow
      BY <1>0, <3>6, BodyEnds DEF EspWindow, EspState, Scanning, Pc
    <3> QED BY <1>5, <3>1, <3>2, <3>3, <3>4, <3>5, <3>6 DEF EspScans, EspScan
  <2> QED BY <1>1, <2>1 DEF Scanning
<1> QED BY <1>2, <1>3, <1>4, <1>5

-----------------------------------------------------------------------------
(* The mails.                                                              *)

\* The two mails of a text, when the mailbox is there.
SendIs(m) == /\ UNCHANGED <<job, attached, num, passed, user_num, seen, line, uart_rx_buffer, rx_mq_made>>
             /\ IF attached THEN json_mb' = Mailed(m) ELSE json_mb' = json_mb /\ e'.pc = "assert"

\* The mail of a text is put at the end, or dropped when the mailbox is full.
LEMMA SendTextIs ==
    ASSUME Types, SendText
    PROVE  /\ SendIs("app_buffer") /\ e.pc = "recv" /\ e'.pc \in {"send_over", "assert"}
           /\ attached => e'.pc = "send_over"
           /\ docs' = docs + 1
<1>0. e \in EspState
  BY DEF Types, EspTypes
<1> QED BY <1>0 DEF SendText, SendIs, FirstMail, EspState

\* The same for the mail that follows it.
LEMMA SendOverIs ==
    ASSUME Types, SendOver
    PROVE  /\ SendIs("over") /\ e.pc = "send_over" /\ e'.pc \in {"recv", "assert"}
           /\ docs' = docs
<1>0. e \in EspState
  BY DEF Types, EspTypes
<1> QED BY <1>0 DEF SendOver, SendIs, AfterText, EspState

\* Every step keeps the order of a text and its over in the mailbox.
LEMMA MailsNext ==
    ASSUME Types, Chain, Mails, [Next]_vars
    PROVE  Mails'
<1>0. /\ JsonTypes /\ json_mb \in Seq(Mail) /\ Len(json_mb) \in Nat /\ Len(<<>>) = 0
      /\ MbSize \in Nat /\ MbSize >= 2
  BY LenIs, BoundAssumption DEF Types, JsonTypes, Mail
<1>1. CASE Start
  <2>1. CASE UNCHANGED <<job, attached, json_mb>>
    BY <1>1, <2>1, StartIs DEF Mails, Ending, Busy
  <2>2. CASE /\ attached' /\ json_mb' = <<>>
             /\ \A h \in Job : job[h] = "none" /\ job'[h] \in {"none", "recv"}
    BY <1>0, <2>2 DEF Mails, Busy
  <2> QED BY <1>1, <2>1, <2>2, StartIs
<1>2. CASE PhoneSends \/ EspReads \/ EspScans \/ EspStart \/ UNCHANGED vars
  <2>1. /\ UNCHANGED <<job, attached, json_mb>>
        /\ (e.pc # "send_over" /\ e'.pc # "send_over") \/ e' = e
    BY <1>2, QuietIs
  <2> QED BY <2>1 DEF Mails, Ending, Busy
<1>3. CASE SendText
  <2>1. /\ UNCHANGED <<job, attached>> /\ e.pc = "recv"
        /\ attached => json_mb' = Mailed("app_buffer") /\ e'.pc = "send_over"
    BY <1>3, SendTextIs DEF SendIs
  <2> SUFFICES ASSUME attached, ~ Ending
               PROVE  /\ Len(json_mb') >= 2 => "over" \in {json_mb'[1], json_mb'[2]}
                      /\ \A h \in Job : Busy(h) => \/ json_mb' = <<>>
                                                   \/ json_mb' # <<>> /\ json_mb'[1] = "over"
    BY <2>1 DEF Mails, Ending, Busy
  <2>2. /\ Len(json_mb) >= 2 => "over" \in {json_mb[1], json_mb[2]}
        /\ Len(json_mb) = 1 => json_mb[1] = "over"
        /\ \A h \in Job : Busy(h) => json_mb # <<>> /\ json_mb[1] = "over"
    BY <2>1 DEF Mails
  <2>3. /\ json_mb' \in Seq(Mail) /\ Len(json_mb') \in {Len(json_mb), Len(json_mb) + 1}
        /\ \A b \in 1 .. Len(json_mb) : json_mb'[b] = json_mb[b]
    BY <1>0, <2>1, MailedIs DEF Mail
  <2>4. Len(json_mb) >= 1 => json_mb'[1] = json_mb[1] /\ json_mb' # <<>>
    BY <1>0, <2>3
  <2>5. Len(json_mb) >= 2 => json_mb'[2] = json_mb[2]
    BY <1>0, <2>3
  <2>6. json_mb # <<>> => Len(json_mb) >= 1
    BY <1>0
  <2>7. Len(json_mb') >= 2 => Len(json_mb) = 1 \/ Len(json_mb) >= 2
    <3>1. PICK n \in Nat : n = Len(json_mb)
      BY <1>0
    <3>2. PICK m \in {n, n + 1} : m = Len(json_mb')
      BY <2>3, <3>1
    <3>3. m >= 2 => n = 1 \/ n >= 2
      BY ONLY <3>1, <3>2
    <3> QED BY <3>1, <3>2, <3>3
  <2> QED BY <2>2, <2>4, <2>5, <2>6, <2>7
<1>4. CASE SendOver
  <2>1. /\ UNCHANGED <<job, attached>> /\ e.pc = "send_over"
        /\ attached => json_mb' = Mailed("over")
    BY <1>4, SendOverIs DEF SendIs
  <2> SUFFICES ASSUME attached, ~ Ending
               PROVE  /\ Len(json_mb') >= 2 => "over" \in {json_mb'[1], json_mb'[2]}
                      /\ Len(json_mb') = 1 => json_mb'[1] = "over"
                      /\ \A h \in Job : Busy(h) => json_mb' # <<>> /\ json_mb'[1] = "over"
    BY <2>1 DEF Mails, Ending, Busy
  <2>2. /\ Len(json_mb) >= 2 => "over" \in {json_mb[1], json_mb[2]}
        /\ \A h \in Job : Busy(h) => json_mb = <<>> \/ json_mb[1] = "over"
    BY <2>1 DEF Mails
  <2>3. /\ json_mb' \in Seq(Mail) /\ Len(json_mb') \in {Len(json_mb), Len(json_mb) + 1}
        /\ Len(json_mb) < MbSize => Len(json_mb') = Len(json_mb) + 1 /\ json_mb'[Len(json_mb) + 1] = "over"
        /\ \A b \in 1 .. Len(json_mb) : json_mb'[b] = json_mb[b]
    BY <1>0, <2>1, MailedIs DEF Mail
  <2>4. CASE Len(json_mb) = 0
    <3>1. Len(json_mb') = 1 /\ json_mb'[1] = "over"
      BY <1>0, <2>3, <2>4
    <3>2. json_mb' # <<>>
      BY <1>0, <3>1
    <3> QED BY <3>1, <3>2
  <2>5. CASE Len(json_mb) = 1
    <3>1. Len(json_mb') = 2 /\ json_mb'[2] = "over" /\ json_mb'[1] = json_mb[1]
      BY <1>0, <2>3, <2>5
    <3>2. json_mb' # <<>> /\ json_mb # <<>>
      BY <1>0, <2>5, <3>1
    <3> QED BY <2>2, <3>1, <3>2
  <2>6. CASE Len(json_mb) >= 2
    <3>1. Len(json_mb') >= 2 /\ json_mb'[2] = json_mb[2] /\ json_mb'[1] = json_mb[1]
      BY <1>0, <2>3, <2>6
    <3>2. json_mb' # <<>> /\ json_mb # <<>> /\ Len(json_mb') # 1
      BY <1>0, <2>6, <3>1
    <3> QED BY <2>2, <2>6, <3>1, <3>2
  <2>7. Len(json_mb) = 0 \/ Len(json_mb) = 1 \/ Len(json_mb) >= 2
    <3>1. PICK n \in Nat : n = Len(json_mb)
      BY <1>0
    <3>2. n = 0 \/ n = 1 \/ n >= 2
      BY ONLY <3>1
    <3> QED BY <3>1, <3>2
  <2> QED BY <2>4, <2>5, <2>6, <2>7
<1>5. ASSUME NEW h \in Job, JobNext(h)
      PROVE  Mails'
  <2>1. Alone(h) /\ attached /\ e' = e
    BY <1>5, JobIs
  <2>2. CASE Takes(h)
    <3>1. job[h] = "recv" /\ json_mb # <<>> /\ json_mb' = Tail(json_mb)
      BY <2>2 DEF Takes
    <3>2. CASE json_mb[1] = "over"
      BY <2>2, <3>2 DEF Takes, Mails, Ending
    <3>3. CASE json_mb[1] # "over"
      <4>1. ~ Ending
        BY <2>1, <3>1 DEF Alone, Ending
      <4>2. /\ Len(json_mb) >= 1 /\ Len(Tail(json_mb)) = Len(json_mb) - 1
            /\ Len(json_mb) >= 2 => Tail(json_mb)[1] = json_mb[2]
            /\ Tail(json_mb) \in Seq(Mail)
        BY <1>0, <3>1, TakenIs
      <4>3. CASE Len(json_mb) = 1
        <5>1. e.pc = "send_over"
          BY <2>1, <3>3, <4>1, <4>3 DEF Mails
        <5>2. json_mb' = <<>> /\ Len(json_mb') = 0
          BY <1>0, <3>1, <4>2, <4>3
        <5> QED BY <2>1, <5>1, <5>2 DEF Mails
      <4>4. CASE Len(json_mb) >= 2
        <5>1. json_mb[2] = "over"
          BY <2>1, <3>3, <4>1, <4>4 DEF Mails
        <5>2. json_mb'[1] = "over" /\ json_mb' # <<>>
          <6>1. Len(Tail(json_mb)) # 0
            BY <1>0, <4>2, <4>4
          <6>2. Tail(json_mb) # <<>>
            BY ONLY <1>0, <6>1
          <6> QED BY <3>1, <4>2, <4>4, <5>1, <6>2
        <5> QED BY <5>2 DEF Mails
      <4> QED BY <1>0, <4>2, <4>3, <4>4
    <3> QED BY <3>2, <3>3
  <2>3. CASE Parses(h) \/ Adds1(h) \/ Spawns(h)
    <3>1. /\ UNCHANGED <<attached, json_mb>> /\ job[h] # "detach" /\ job'[h] # "detach"
          /\ job'[h] \in {"parse", "count"} => job[h] \in {"parse", "count"}
      BY <2>3 DEF Parses, Adds1, Spawns
    <3>2. ~ Ending /\ ~ Ending'
      BY <2>1, <3>1 DEF Alone, Ending
    <3>3. \A g \in Job : Busy(g)' => Busy(g)
      BY <2>1, <3>1 DEF Alone, Busy
    <3> QED BY <2>1, <3>1, <3>2, <3>3 DEF Mails
  <2>4. CASE Detaches(h)
    BY <2>4 DEF Detaches, Mails
  <2> QED BY <1>5, <2>2, <2>3, <2>4, JobIs
<1> QED BY <1>1, <1>2, <1>3, <1>4, <1>5 DEF Next, EspNext

\* In the beginning there is no mail.
LEMMA MailsInit == Init => Mails
BY DEF Init, Mails

\* Once no text is there to be counted, none is until the esp32 thread sends.
LEMMA SpentKept ==
    ASSUME Types, Chain, Spent, [Next]_vars, ~ SendText, ~ SendOver
    PROVE  Spent'
<1>1. CASE Start
  BY <1>1, StartIs DEF Spent, Waits, Ending, Busy
<1>2. CASE PhoneSends \/ EspReads \/ EspScans \/ EspStart \/ UNCHANGED vars
  BY <1>2, QuietIs DEF Spent, Waits, Ending, Busy
<1>3. ASSUME NEW h \in Job, JobNext(h)
      PROVE  Spent'
  <2>1. Alone(h) /\ attached
    BY <1>3, JobIs
  <2>2. job[h] \notin {"parse", "count"}
    BY DEF Spent, Busy
  <2>3. CASE Takes(h)
    <3>1. ~ Ending
      BY <2>1, <2>3 DEF Takes, Alone, Ending
    <3>2. json_mb[1] # "app_buffer" /\ json_mb[1] \in Mail
      BY <2>3, <3>1, TakenIs DEF Takes, Spent, Waits, Types
    <3>3. job'[h] = "detach"
      BY <2>3, <3>2 DEF Takes, Mail
    <3> QED BY <2>1, <3>3 DEF Spent, Waits, Ending, Busy, Alone
  <2>4. CASE Spawns(h)
    <3>1. /\ UNCHANGED <<attached, json_mb>> /\ job[h] # "detach"
          /\ job'[h] \notin {"parse", "count", "detach"}
      BY <2>4 DEF Spawns
    <3>2. ~ Ending /\ ~ Ending'
      BY <2>1, <3>1 DEF Alone, Ending
    <3> QED BY <2>1, <3>1, <3>2 DEF Spent, Waits, Busy, Alone
  <2>5. CASE Detaches(h)
    BY <2>1, <2>5 DEF Detaches, Spent, Waits, Busy, Alone
  <2> QED BY <1>3, <2>2, <2>3, <2>4, <2>5, JobIs DEF Parses, Adds1
<1> QED BY <1>1, <1>2, <1>3 DEF Next, EspNext

\* The count of a text is the last until the esp32 thread sends.
LEMMA SpentBy ==
    ASSUME Types, Chain, Mails, NEW h \in Job, Alone(h), attached, Adds1(h)
    PROVE  Spent'
<1>1. ~ Ending
  BY DEF Adds1, Alone, Ending
<1>2. json_mb = <<>> \/ json_mb[1] = "over"
  BY <1>1 DEF Mails, Busy, Adds1
<1>3. \A g \in Job : ~ Busy(g)'
  BY DEF Adds1, Alone, Busy
<1> QED BY <1>2, <1>3 DEF Spent, Waits, Adds1

-----------------------------------------------------------------------------
(* The two threads that count.                                             *)

\* Steps that leave the counters and the json thread alone.
LEMMA CountsKept ==
    ASSUME Counts, UNCHANGED <<user_num, num, job>>,
           \/ e' = e /\ passed' = passed
           \/ /\ ~ passed /\ passed' = (Counting /\ Asleep(e'.pc))
              /\ e'.pc # "count"
              /\ e'.pc = "add" => Asleep(e.pc)
           \/ ~ passed /\ ~ passed' /\ e'.pc # "count" /\ e'.pc # "add" /\ ~ Asleep(e'.pc),
           Spent => Spent'
    PROVE  Counts'
<1>1. Counting' = Counting
  BY DEF Counting
<1>2. CASE e' = e /\ passed' = passed
  BY <1>1, <1>2 DEF Counts
<1>3. CASE /\ ~ passed /\ passed' = (Counting /\ Asleep(e'.pc))
           /\ e'.pc # "count"
           /\ e'.pc = "add" => Asleep(e.pc)
  <2>1. Counting /\ ~ passed' => ~ Asleep(e'.pc)
    BY <1>3
  <2>2. Counting /\ e'.pc = "add" => user_num = num
    BY <1>3 DEF Counts
  <2>3. passed' => Counting /\ Asleep(e'.pc)
    BY <1>3
  <2> QED BY <1>1, <1>3, <2>1, <2>2, <2>3 DEF Counts
<1>4. CASE ~ passed /\ ~ passed' /\ e'.pc # "count" /\ e'.pc # "add" /\ ~ Asleep(e'.pc)
  BY <1>1, <1>4 DEF Counts
<1> QED BY <1>2, <1>3, <1>4

\* The steps of the esp32 thread before its next message.
LEMMA CountsScans ==
    ASSUME Types, Chain, Counts, EspScans
    PROVE  Counts'
<1>0. /\ e \in EspState /\ e.num \in Nat /\ user_num \in Nat /\ num \in Nat
  BY DEF Types, EspTypes, EspState, JsonTypes
<1>1. /\ UNCHANGED <<job, num>> /\ ~ passed /\ passed' = (Counting /\ Asleep(e'.pc))
      /\ Counting' = Counting
  BY DEF EspScans, MayRun, Passes, Counts, Counting
<1>2. Spent => Spent'
  BY SpentKept DEF EspScans, EspScan, EspGet, EspListStart, EspList, EspAdd, EspCount, EspSign,
                   EspWindow, SendText, SendOver, Next, EspNext
<1>3. CASE EspGet
  <2>1. e.pc = "scan" /\ user_num' = user_num /\ e'.pc \in {"list_start", "add"}
    BY <1>0, <1>3 DEF EspGet, EspState
  <2> QED BY <1>1, <1>2, <2>1, CountsKept DEF Asleep
<1>4. CASE EspListStart
  <2>1. user_num' = user_num /\ e'.pc \in {"list", "add"} /\ Asleep(e.pc)
    BY <1>0, <1>4 DEF EspListStart, EspState, Asleep
  <2> QED BY <1>1, <1>2, <2>1, CountsKept
<1>5. CASE EspList
  <2>1. user_num' = user_num /\ e'.pc \in {"list", "add"} /\ Asleep(e.pc)
    BY <1>0, <1>5 DEF EspList, EspState, Asleep
  <2> QED BY <1>1, <1>2, <2>1, CountsKept
<1>6. CASE EspAdd
  <2>1. user_num' = user_num /\ e.pc = "add"
    BY <1>6 DEF EspAdd
  <2>2. CASE e' = [e EXCEPT !.pc = "count", !.num = user_num]
    <3>1. e'.pc = "count" /\ e'.num = user_num
      BY <1>0, <2>2 DEF EspState
    <3>2. Counting => user_num = num
      BY <1>1, <2>1 DEF Counts
    <3>3. ~ passed'
      BY <1>1, <3>1 DEF Asleep
    <3> QED BY <1>1, <2>1, <3>1, <3>2, <3>3 DEF Counts, Asleep
  <2>3. CASE e' = [e EXCEPT !.pc = "sign"]
    <3>1. e'.pc = "sign"
      BY <1>0, <2>3 DEF EspState
    <3> QED BY <1>1, <1>2, <2>1, <3>1, CountsKept
  <2> QED BY <1>6, <2>2, <2>3 DEF EspAdd
<1>7. CASE EspCount
  <2>1. e.pc = "count" /\ user_num' = e.num + 1 /\ e'.pc = "sign"
    BY <1>0, <1>7 DEF EspCount, EspState
  <2>2. Counting => e.num = num
    BY <2>1 DEF Counts
  <2>3. ~ passed'
    BY <1>1, <2>1 DEF Asleep
  <2> QED BY <1>1, <2>1, <2>2, <2>3 DEF Counts, Asleep
<1>8. CASE EspSign
  <2>1. user_num' = user_num /\ e'.pc \in {"window", "scan", "recv"}
    BY <1>0, <1>8, BodyEnds DEF EspSign, EspState
  <2> QED BY <1>1, <1>2, <2>1, CountsKept
<1>9. CASE EspWindow
  <2>1. user_num' = user_num /\ e'.pc \in {"overrun", "scan", "recv"}
    BY <1>0, <1>9, BodyEnds DEF EspWindow, EspState
  <2> QED BY <1>1, <1>2, <2>1, CountsKept
<1> QED BY <1>3, <1>4, <1>5, <1>6, <1>7, <1>8, <1>9 DEF EspScans, EspScan

\* The steps of the json thread.
LEMMA CountsJob ==
    ASSUME Types, Chain, Mails, Counts, NEW h \in Job, JobNext(h)
    PROVE  Counts'
<1>0. user_num \in Nat /\ num \in Nat /\ e.num \in Nat
  BY DEF Types, EspTypes, JsonTypes, EspState
<1>1. Alone(h) /\ attached /\ e' = e
  BY JobIs
<1>2. Counting <=> job[h] = "count"
  BY <1>1 DEF Counting, Alone
<1>3. Counting' <=> job'[h] = "count"
  BY <1>1 DEF Counting, Alone
<1>4. CASE Takes(h) \/ Spawns(h) \/ Detaches(h)
  <2>1. /\ UNCHANGED <<user_num, num, passed>> /\ job[h] # "count" /\ job'[h] # "count"
    BY <1>4 DEF Takes, Spawns, Detaches
  <2>2. ~ passed /\ ~ Counting'
    BY <1>2, <1>3, <2>1 DEF Counts
  <2>3. Spent => Spent'
    <3>1. ~ SendText /\ ~ SendOver
      BY <1>1, SendTextIs, SendOverIs
    <3> QED BY <3>1, SpentKept DEF Next
  <2> QED BY <1>1, <2>1, <2>2, <2>3 DEF Counts
<1>5. CASE Parses(h)
  <2>1. ~ Spent
    BY <1>5 DEF Parses, Spent, Busy
  <2>2. /\ user_num' = user_num /\ ~ passed' /\ (Counting' => num' = user_num)
    BY <1>3, <1>5 DEF Parses
  <2>3. e.pc = "count" => user_num = e.num
    BY <2>1 DEF Counts
  <2>4. num' \in Nat
    BY TypesNext DEF Next, Types, JsonTypes
  <2> QED BY <1>1, <2>2, <2>3, <2>4 DEF Counts
<1>6. CASE Adds1(h)
  <2>1. Spent'
    BY <1>1, <1>6, SpentBy
  <2>2. user_num' = num + 1 /\ ~ passed' /\ ~ Counting' /\ Counting
    BY <1>2, <1>3, <1>6 DEF Adds1
  <2>3. e.pc = "count" => user_num' = e.num + 1
    BY <1>0, <2>2 DEF Counts
  <2> QED BY <1>1, <2>1, <2>2, <2>3 DEF Counts
<1> QED BY <1>4, <1>5, <1>6, JobIs

\* Every step keeps what the two counting threads have read of user_num.
LEMMA CountsNext ==
    ASSUME Types, Chain, Mails, Counts, [Next]_vars
    PROVE  Counts'
<1>0. e \in EspState
  BY DEF Types, EspTypes
<1>1. CASE Start
  <2>1. UNCHANGED <<e, user_num, num, passed>>
    BY <1>1, StartIs
  <2>2. Spent => Spent'
    <3>1. ~ SendText /\ ~ SendOver
      <4>1. starts' = starts + 1 /\ starts \in Nat
        BY <1>1 DEF Start, Types, JsonTypes
      <4>2. starts' # starts
        BY <4>1
      <4> QED BY <4>2 DEF SendText, SendOver
    <3> QED BY <1>1, <3>1, SpentKept
  <2>3. CASE UNCHANGED job
    BY <2>1, <2>2, <2>3, CountsKept
  <2>4. CASE \A h \in Job : job[h] = "none" /\ job'[h] \in {"none", "recv"}
    <3>1. ~ Counting /\ ~ Counting'
      BY <2>4 DEF Counting
    <3> QED BY <2>1, <2>2, <3>1 DEF Counts
  <2> QED BY <1>1, <2>3, <2>4, StartIs
<1>2. CASE PhoneSends \/ UNCHANGED vars
  <2>1. UNCHANGED <<e, user_num, num, passed, job, attached, json_mb>>
    BY <1>2 DEF PhoneSends, Phone, vars, espVars, jsonVars
  <2>2. Spent => Spent'
    BY <2>1 DEF Spent, Waits, Ending, Busy
  <2> QED BY <2>1, <2>2, CountsKept
<1>3. CASE EspReads
  <2>1. UNCHANGED <<user_num, num, job, attached, json_mb>> /\ e.pc = "recv"
    BY <1>3 DEF EspReads, EspRead
  <2>2. e'.pc \in {"recv", "scan"}
    BY <1>0, <1>3 DEF EspReads, EspRead, EspState
  <2>3. ~ passed /\ passed' = (Counting /\ Asleep(e'.pc))
    BY <1>3, <2>1 DEF EspReads, Passes, Counts, Asleep
  <2>4. Spent => Spent'
    BY <2>1 DEF Spent, Waits, Ending, Busy
  <2> QED BY <2>1, <2>2, <2>3, <2>4, CountsKept
<1>4. CASE EspScans
  BY <1>4, CountsScans
<1>5. CASE EspStart
  <2>1. UNCHANGED <<user_num, num, passed, job, attached, json_mb>>
    BY <1>5 DEF EspStart
  <2>2. Spent => Spent'
    BY <2>1 DEF Spent, Waits, Ending, Busy
  <2>3. CASE e' = e
    BY <2>1, <2>2, <2>3, CountsKept
  <2>4. CASE e' # e
    <3>1. e' = [e EXCEPT !.pc = "recv"] /\ e.pc = "none"
      BY <1>5, <2>4 DEF EspStart, Types, Scans
    <3>2. e'.pc = "recv" /\ ~ passed
      BY <1>0, <3>1 DEF EspState, Counts, Asleep
    <3> QED BY <2>1, <2>2, <3>2, CountsKept DEF Asleep
  <2> QED BY <2>3, <2>4
<1>6. CASE SendText \/ SendOver
  <2>1. /\ UNCHANGED <<user_num, num, passed, job>> /\ e.pc \in {"recv", "send_over"}
        /\ e'.pc \in {"send_over", "assert", "recv"}
    BY <1>6, SendTextIs, SendOverIs DEF SendIs
  <2>2. ~ passed /\ Counting' = Counting
    BY <2>1 DEF Counts, Asleep, Counting
  <2> QED BY <2>1, <2>2 DEF Counts, Asleep
<1>7. ASSUME NEW h \in Job, JobNext(h)
      PROVE  Counts'
  BY <1>7, CountsJob
<1> QED BY <1>1, <1>2, <1>3, <1>4, <1>5, <1>6, <1>7 DEF Next, EspNext

\* In the beginning nobody counts.
LEMMA CountsInit == Init => Counts
BY DEF Init, EspInit, Counts, Counting

-----------------------------------------------------------------------------
(* Listings.                                                               *)

\* Neither thread ever puts user_num back.
LEMMA CountGrows ==
    ASSUME Types, Chain, Mails, Counts, [Next]_vars
    PROVE  user_num' \in Nat /\ user_num' >= user_num
<1>0. user_num \in Nat /\ num \in Nat /\ e.num \in Nat
  BY DEF Types, EspTypes, JsonTypes, EspState
<1>1. CASE UNCHANGED user_num
  BY <1>0, <1>1
<1>2. CASE EspCount
  <2>1. user_num' = e.num + 1 /\ user_num \in {e.num, e.num + 1}
    BY <1>2 DEF EspCount, Counts
  <2> QED BY <1>0, <2>1
<1>3. ASSUME NEW h \in Job, Adds1(h) PROVE user_num' \in Nat /\ user_num' >= user_num
  <2>1. user_num' = num + 1 /\ user_num \in {num, num + 1}
    BY <1>3 DEF Adds1, Counts, Counting
  <2> QED BY <1>0, <2>1
<1>4. UNCHANGED user_num \/ EspCount \/ \E h \in Job : Adds1(h)
  <2>1. CASE Start
    BY <2>1, StartIs
  <2>2. CASE PhoneSends \/ EspReads \/ EspStart \/ UNCHANGED vars
    BY <2>2 DEF PhoneSends, Phone, EspReads, EspRead, EspStart, vars, espVars
  <2>3. CASE EspScans
    BY <2>3 DEF EspScans, EspScan, EspGet, EspListStart, EspList, EspAdd, EspSign, EspWindow
  <2>4. CASE SendText \/ SendOver
    BY <2>4 DEF SendText, SendOver
  <2>5. ASSUME NEW h \in Job, JobNext(h)
        PROVE  UNCHANGED user_num \/ Adds1(h)
    BY <2>5, JobIs DEF Takes, Parses, Spawns, Detaches
  <2> QED BY <2>1, <2>2, <2>3, <2>4, <2>5 DEF Next, EspNext
<1> QED BY <1>1, <1>2, <1>3, <1>4

\* Division as the listing counts: three fields to an entry.
LEMMA ThreeFields ==
    ASSUME NEW m \in Nat, NEW g \in 0 .. 2
    PROVE  (3 * m + g) \div 3 = m
OBVIOUS

\* Fields further apart than three are of different entries.
LEMMA ThreeApart ==
    ASSUME NEW a \in Nat, NEW b \in Nat, b >= 1, b < a
    PROVE  ((b - 1) \div 3) + ((a - b) \div 3) <= (a - 1) \div 3
OBVIOUS

\* The next field of an entry.
LEMMA NextField ==
    ASSUME NEW f \in Nat, NEW k \in 1 .. f, NEW g \in 0 .. 2, NEW n \in Nat, n = 3 * (f - k) + g
    PROVE  n + 1 = 3 * (f - k) + (g + 1)
OBVIOUS

\* The first field of the next entry.
LEMMA NextEntry ==
    ASSUME NEW f \in Nat, NEW k \in 1 .. f, k # 1, NEW n \in Nat, n = 3 * (f - k) + 2
    PROVE  k - 1 \in 1 .. f /\ n + 1 = 3 * (f - (k - 1)) + 0
OBVIOUS

\* Steps that read no field.
LEMMA ListingKept ==
    ASSUME Types, Listing, seen'.listed = seen.listed, seen'.from = seen.from,
           user_num' \in Nat, user_num' >= user_num,
           e'.pc = "list" =>
              /\ e' = e
              /\ \/ user_num' = user_num /\ (Spent => Spent')
                 \/ user_num' = seen.from
                 \/ user_num' = seen.from + 1 /\ Spent'
    PROVE  Listing'
<1>0. /\ user_num \in Nat /\ seen.from \in Nat /\ seen.listed \in Seq(Int)
  BY DEF Types, EspTypes, Seen
<1>1. \A a \in 1 .. Len(seen.listed) : seen.listed[a] \in Int /\ Ahead(a) \in Int
  <2> SUFFICES ASSUME NEW a \in 1 .. Len(seen.listed)
               PROVE  seen.listed[a] \in Int /\ Ahead(a) \in Int
    OBVIOUS
  <2>1. seen.listed[a] \in Int
    BY <1>0
  <2> QED BY <2>1 DEF Ahead
<1>2. \A a \in 1 .. Len(seen.listed) : Ahead(a)' = Ahead(a)
  BY DEF Ahead
<1>3. \A a \in 1 .. Len(seen.listed) : seen.listed[a] < user_num'
  <2> SUFFICES ASSUME NEW a \in 1 .. Len(seen.listed) PROVE seen.listed[a] < user_num'
    OBVIOUS
  <2>1. seen.listed[a] < user_num /\ seen.listed[a] \in Int
    BY <1>1 DEF Listing
  <2> QED BY <1>0, <2>1
<1>4. /\ Len(seen'.listed) <= 3 * seen'.from
      /\ \A a \in 1 .. Len(seen'.listed) : /\ Ahead(a)' \in {0, 1} /\ seen'.listed[a] < user_num'
                                           /\ \A b \in 1 .. a - 1 : Ahead(b)' <= Ahead(a)'
  <2>1. \A a \in 1 .. Len(seen.listed) : \A b \in 1 .. a - 1 : b \in 1 .. Len(seen.listed)
    BY <1>0, LenIs
  <2> QED BY <1>2, <1>3, <2>1 DEF Listing
<1>5. ASSUME e'.pc = "list"
      PROVE  /\ e'.k \in 1 .. seen'.from
             /\ Len(seen'.listed) = 3 * (seen'.from - e'.k) + e'.field
             /\ user_num' = seen'.from \/ (user_num' = seen'.from + 1 /\ Spent')
             /\ \A a \in 1 .. Len(seen'.listed) : Ahead(a)' <= user_num' - seen'.from
  <2>1. e' = e
    BY <1>5
  <2>2. /\ e.k \in 1 .. seen.from
        /\ Len(seen.listed) = 3 * (seen.from - e.k) + e.field
        /\ user_num = seen.from \/ (user_num = seen.from + 1 /\ Spent)
        /\ \A a \in 1 .. Len(seen.listed) : Ahead(a) <= user_num - seen.from
    BY <1>5, <2>1 DEF Listing
  <2>3. user_num' = seen.from \/ (user_num' = seen.from + 1 /\ Spent')
    BY <1>5, <2>2
  <2>4. ASSUME NEW a \in 1 .. Len(seen.listed) PROVE Ahead(a)' <= user_num' - seen.from
    <3>1. Ahead(a) <= user_num - seen.from /\ Ahead(a) \in Int /\ Ahead(a)' = Ahead(a)
      BY <1>1, <1>2, <2>2
    <3> QED BY <1>0, <3>1
  <2> QED BY <2>1, <2>2, <2>3, <2>4
<1> QED BY <1>4, <1>5 DEF Listing

\* One field is read.
LEMMA ListingRead ==
    ASSUME Types, Listing, EspList, Spent => Spent'
    PROVE  Listing'
<1>0. /\ user_num \in Nat /\ e \in EspState /\ seen \in Seen /\ user_num' = user_num
      /\ e.pc = "list"
  BY DEF Types, EspTypes, EspList
<1>1. PICK l \in Seq(Int) : l = seen.listed
  BY <1>0 DEF Seen
<1>2. PICK f \in Nat : f = seen.from
  BY <1>0 DEF Seen
<1>3. PICK n \in Nat : n = Len(l)
  BY <1>1, LenIs
<1>4. /\ e.k \in 1 .. f /\ e.field \in 0 .. 2 /\ n = 3 * (f - e.k) + e.field
      /\ user_num = f \/ (user_num = f + 1 /\ Spent)
      /\ \A a \in 1 .. n : Ahead(a) <= user_num - f
  BY <1>0, <1>1, <1>2, <1>3 DEF Listing, EspState
<1>5. PICK x \in Int : x = user_num - e.k
  BY <1>0, <1>4
<1>6. seen'.from = f /\ seen'.listed = Append(l, x)
  BY <1>0, <1>1, <1>2, <1>5 DEF EspList, ListedEntry, Seen
<1>7. /\ Len(Append(l, x)) = n + 1 /\ Append(l, x)[n + 1] = x
      /\ \A a \in 1 .. n : Append(l, x)[a] = l[a]
  BY <1>1, <1>3
<1>8. (n + 1 - 1) \div 3 = f - e.k
  <2>1. PICK m \in Nat : m = f - e.k
    BY <1>4
  <2>2. n + 1 - 1 = 3 * m + e.field
    BY <1>4, <2>1
  <2> QED BY <1>4, <2>1, <2>2, ThreeFields
<1>9. Ahead(n + 1)' = user_num - f
  <2>1. Ahead(n + 1)' = x - ((n + 1 - 1) \div 3)
    BY <1>6, <1>7 DEF Ahead
  <2> QED BY <1>0, <1>4, <1>5, <1>8, <2>1
<1>10. \A a \in 1 .. n : Ahead(a)' = Ahead(a) /\ Ahead(a) \in {0, 1} /\ l[a] < user_num
  <2> SUFFICES ASSUME NEW a \in 1 .. n
               PROVE  Ahead(a)' = Ahead(a) /\ Ahead(a) \in {0, 1} /\ l[a] < user_num
    OBVIOUS
  <2>1. Ahead(a)' = Ahead(a)
    BY <1>1, <1>6, <1>7 DEF Ahead
  <2> QED BY <1>1, <1>3, <2>1 DEF Listing
<1>11. ASSUME NEW a \in 1 .. n + 1
       PROVE  /\ Ahead(a)' \in {0, 1} /\ seen'.listed[a] < user_num'
              /\ \A b \in 1 .. a - 1 : Ahead(b)' <= Ahead(a)'
              /\ Ahead(a)' <= user_num' - f
  <2>1. CASE a = n + 1
    <3>1. Ahead(a)' \in {0, 1} /\ Ahead(a)' = user_num' - f
      BY <1>0, <1>2, <1>4, <1>9, <2>1
    <3>2. seen'.listed[a] < user_num'
      BY <1>0, <1>4, <1>5, <1>6, <1>7, <2>1
    <3>3. ASSUME NEW b \in 1 .. a - 1 PROVE Ahead(b)' <= Ahead(a)'
      <4>1. b \in 1 .. n
        BY <1>3, <2>1
      <4> QED BY <1>0, <1>4, <1>10, <3>1, <4>1
    <3>4. Ahead(a)' <= user_num' - f
      BY <3>1
    <3> QED BY <3>1, <3>2, <3>3, <3>4
  <2>2. CASE a \in 1 .. n
    <3>1. Ahead(a)' = Ahead(a) /\ Ahead(a) \in {0, 1} /\ l[a] < user_num
      BY <1>10, <2>2
    <3>2. seen'.listed[a] < user_num'
      BY <1>0, <1>6, <1>7, <2>2, <3>1
    <3>3. ASSUME NEW b \in 1 .. a - 1 PROVE Ahead(b)' <= Ahead(a)'
      <4>1. b \in 1 .. n
        BY <1>3, <2>2
      <4>2. Ahead(b) <= Ahead(a)
        BY <1>1, <1>3, <2>2 DEF Listing
      <4> QED BY <1>10, <2>2, <4>1, <4>2
    <3>4. Ahead(a)' <= user_num' - f
      BY <1>0, <1>4, <2>2, <3>1
    <3> QED BY <3>1, <3>2, <3>3, <3>4
  <2>3. a = n + 1 \/ a \in 1 .. n
    BY <1>3
  <2> QED BY <2>1, <2>2, <2>3
<1>12. n + 1 <= 3 * f
  BY <1>4
<1>13. ASSUME e'.pc = "list"
       PROVE  e'.k \in 1 .. f /\ n + 1 = 3 * (f - e'.k) + e'.field
  <2>1. CASE e.field < 2
    <3>1. e'.field = e.field + 1 /\ e'.k = e.k
      BY <1>0, <2>1 DEF EspList, EspState
    <3>2. PICK k \in 1 .. f : k = e.k /\ n = 3 * (f - k) + e.field
      BY <1>4
    <3>3. PICK g \in 0 .. 2 : g = e.field
      BY <1>4
    <3>4. n + 1 = 3 * (f - k) + (g + 1)
      <4>1. n = 3 * (f - k) + g
        BY <3>2, <3>3
      <4> QED BY <4>1, NextField
    <3>5. e'.k = k /\ e'.field = g + 1
      BY <3>1, <3>2, <3>3
    <3> QED BY ONLY <3>4, <3>5
  <2>2. CASE e.field = 2
    <3>0. ~ (e.field < 2)
      BY <2>2
    <3>1. PICK p : /\ p = (IF e.k = 1 THEN "add" ELSE "list")
                   /\ e' = [e EXCEPT !.field = 0, !.k = @ - 1, !.i = @ + 1, !.pc = p]
      BY <3>0 DEF EspList
    <3>2. e'.field = 0 /\ e'.k = e.k - 1 /\ e'.pc = p
      BY <1>0, <3>1 DEF EspState
    <3>3. e.k # 1
      BY <1>13, <3>1, <3>2
    <3>4. e.k - 1 \in 1 .. f /\ n + 1 = 3 * (f - (e.k - 1)) + 0
      <4>1. PICK k \in 1 .. f : k = e.k /\ k # 1 /\ n = 3 * (f - k) + 2
        BY <1>4, <2>2, <3>3
      <4> QED BY <4>1, NextEntry
    <3> QED BY <3>2, <3>4
  <2> QED BY <1>4, <2>1, <2>2
<1>14. user_num' = f \/ (user_num' = f + 1 /\ Spent')
  BY <1>0, <1>4
<1>15. Len(seen'.listed) = n + 1
  BY <1>6, <1>7
<1> QED BY <1>6, <1>11, <1>12, <1>13, <1>14, <1>15 DEF Listing

\* Every step keeps the order of a listing.
LEMMA ListingNext ==
    ASSUME Types, Chain, Mails, Counts, Listing, [Next]_vars
    PROVE  Listing'
<1>0. /\ e \in EspState /\ seen \in Seen /\ user_num \in Nat /\ num \in Nat
  BY DEF Types, EspTypes, JsonTypes
<1>1. user_num' \in Nat /\ user_num' >= user_num
  BY CountGrows
<1>2. CASE Start
  <2>1. UNCHANGED <<e, user_num, seen>>
    BY <1>2, StartIs
  <2>2. Spent => Spent'
    <3>1. ~ SendText /\ ~ SendOver
      <4>1. starts' = starts + 1 /\ starts \in Nat
        BY <1>2 DEF Start, Types, JsonTypes
      <4>2. starts' # starts
        BY <4>1
      <4> QED BY <4>2 DEF SendText, SendOver
    <3> QED BY <1>2, <3>1, SpentKept
  <2> QED BY <1>1, <2>1, <2>2, ListingKept
<1>3. CASE PhoneSends \/ UNCHANGED vars
  <2>1. UNCHANGED <<e, user_num, job, attached, json_mb>>
    BY <1>3 DEF PhoneSends, Phone, vars, espVars, jsonVars
  <2>2. seen'.listed = seen.listed /\ seen'.from = seen.from
    BY <1>0, <1>3 DEF PhoneSends, Phone, vars, espVars, Seen
  <2>3. Spent => Spent'
    BY <2>1 DEF Spent, Waits, Ending, Busy
  <2> QED BY <1>1, <2>1, <2>2, <2>3, ListingKept
<1>4. CASE EspReads
  <2>1. e'.pc \in {"recv", "scan"}
    BY <1>0, <1>4 DEF EspReads, EspRead, EspState
  <2>2. seen'.listed = seen.listed /\ seen'.from = seen.from
    BY <1>0, <1>4 DEF EspReads, EspRead, Seen
  <2> QED BY <1>1, <2>1, <2>2, ListingKept
<1>5. CASE EspStart
  <2>1. UNCHANGED <<user_num, seen, job, attached, json_mb>>
    BY <1>5 DEF EspStart
  <2>2. Spent => Spent'
    BY <2>1 DEF Spent, Waits, Ending, Busy
  <2>3. e' = e \/ e'.pc = "recv"
    BY <1>0, <1>5 DEF EspStart, EspState
  <2> QED BY <1>1, <2>1, <2>2, <2>3, ListingKept
<1>6. CASE SendText \/ SendOver
  <2>1. UNCHANGED seen /\ e'.pc # "list"
    BY <1>6, SendTextIs, SendOverIs DEF SendIs
  <2> QED BY <1>1, <2>1, ListingKept
<1>7. CASE EspScans
  <2>0. Spent => Spent'
    BY <1>7 DEF EspScans, Spent, Waits, Ending, Busy
  <2>1. CASE EspListStart
    <3>1. /\ e'.k = user_num /\ e'.field = 0 /\ seen'.from = user_num /\ seen'.listed = <<>>
          /\ user_num' = user_num /\ (e'.pc = "list" => user_num # 0)
      BY <1>0, <2>1 DEF EspListStart, EspState, Seen
    <3>2. Len(seen'.listed) = 0
      BY <3>1
    <3>3. 3 * (user_num - user_num) + 0 = 0 /\ (user_num # 0 => user_num \in 1 .. user_num)
      BY <1>0
    <3>4. 0 <= 3 * user_num
      BY <1>0
    <3> QED BY <3>1, <3>2, <3>3, <3>4 DEF Listing
  <2>2. CASE EspList
    BY <2>0, <2>2, ListingRead
  <2>3. CASE EspGet \/ EspAdd \/ EspCount
    <3>1. UNCHANGED seen /\ e'.pc # "list"
      BY <1>0, <2>3 DEF EspGet, EspAdd, EspCount, EspState
    <3> QED BY <1>1, <3>1, ListingKept
  <2>4. CASE EspSign
    <3>1. e'.pc # "list"
      BY <1>0, <2>4, BodyEnds DEF EspSign, EspState
    <3>2. seen'.listed = seen.listed /\ seen'.from = seen.from
      BY <1>0, <2>4 DEF EspSign, Seen
    <3> QED BY <1>1, <3>1, <3>2, ListingKept
  <2>5. CASE EspWindow
    <3>1. UNCHANGED seen /\ e'.pc # "list"
      BY <1>0, <2>5, BodyEnds DEF EspWindow, EspState
    <3> QED BY <1>1, <3>1, ListingKept
  <2> QED BY <1>7, <2>1, <2>2, <2>3, <2>4, <2>5 DEF EspScans, EspScan
<1>8. ASSUME NEW h \in Job, JobNext(h)
      PROVE  Listing'
  <2>1. Alone(h) /\ attached /\ UNCHANGED <<e, seen>>
    BY <1>8, JobIs
  <2>2. CASE Adds1(h)
    <3>1. Spent'
      BY <2>1, <2>2, SpentBy
    <3>2. ~ Spent /\ Counting
      BY <2>2 DEF Adds1, Spent, Busy, Counting
    <3>3. user_num' = num + 1 /\ user_num \in {num, num + 1}
      BY <2>2, <3>2 DEF Adds1, Counts
    <3>4. e.pc = "list" => user_num = seen.from
      BY <3>2 DEF Listing
    <3>5. e.pc = "list" => user_num' = seen.from \/ user_num' = seen.from + 1
      BY <1>0, <3>3, <3>4
    <3> QED BY <1>1, <2>1, <3>1, <3>5, ListingKept
  <2>3. CASE ~ Adds1(h)
    <3>1. user_num' = user_num
      BY <1>8, <2>3, JobIs DEF Takes, Parses, Spawns, Detaches
    <3>2. Spent => Spent'
      <4>1. ~ SendText /\ ~ SendOver
        BY <2>1, SendTextIs, SendOverIs
      <4> QED BY <4>1, SpentKept
    <3> QED BY <1>1, <2>1, <3>1, <3>2, ListingKept
  <2> QED BY <2>2, <2>3
<1> QED BY <1>2, <1>3, <1>4, <1>5, <1>6, <1>7, <1>8 DEF Next, EspNext

\* In the beginning nothing is listed.
LEMMA ListingInit == Init => Listing
BY DEF Init, EspInit, NothingSeen, Listing

\* What the listing invariant says of the entries read.
LEMMA ListingIs ==
    ASSUME Types, Listing
    PROVE  ListingIsOrdered
<1>0. /\ user_num \in Nat /\ seen.from \in Nat /\ seen.listed \in Seq(Int)
  BY DEF Types, EspTypes, Seen
<1>1. DOMAIN seen.listed = 1 .. Len(seen.listed) /\ Len(seen.listed) \in Nat
  BY <1>0, LenIs
<1>2. \A a \in 1 .. Len(seen.listed) : seen.listed[a] \in Int
  BY <1>0
<1>3. ASSUME NEW a \in 1 .. Len(seen.listed), NEW b \in 1 .. a - 1
      PROVE  seen.listed[b] <= seen.listed[a] - (a - b) \div 3
  <2>1. b \in 1 .. Len(seen.listed) /\ a \in Nat /\ b \in Nat /\ b >= 1 /\ b < a
    BY <1>1
  <2>2. PICK p \in Int : p = seen.listed[a]
    BY <1>2
  <2>3. PICK q \in Int : q = seen.listed[b]
    BY <1>2, <2>1
  <2>4. q - ((b - 1) \div 3) <= p - ((a - 1) \div 3)
    BY <2>2, <2>3 DEF Listing, Ahead
  <2>5. ((b - 1) \div 3) + ((a - b) \div 3) <= (a - 1) \div 3
    BY <2>1, ThreeApart
  <2> QED BY <2>1, <2>2, <2>3, <2>4, <2>5
<1>4. e.pc = "list" /\ seen.listed # <<>> => seen.listed[1] \in {0, user_num - seen.from}
  <2> SUFFICES ASSUME e.pc = "list", seen.listed # <<>>
               PROVE  seen.listed[1] \in {0, user_num - seen.from}
    OBVIOUS
  <2>1. 1 \in 1 .. Len(seen.listed)
    BY <1>0, <1>1
  <2>2. Ahead(1) = seen.listed[1] /\ seen.listed[1] \in Int
    BY <1>2, <2>1 DEF Ahead
  <2>3. Ahead(1) \in {0, 1} /\ Ahead(1) <= user_num - seen.from /\ user_num - seen.from \in {0, 1}
    BY <1>0, <2>1 DEF Listing
  <2> QED BY <1>0, <2>2, <2>3
<1> QED BY <1>1, <1>3, <1>4 DEF Listing, ListingIsOrdered

\* While the listing of the command "get" sleeps between its fields the json thread
\* may count one more entry, and it still reads forward only, never past the end.
THEOREM ListingsAreOrdered == Spec => []ListingIsOrdered
<1> DEFINE I == Types /\ Chain /\ Mails /\ Counts /\ Listing
<1>1. Init => I
  BY TypesInit, ChainInit, MailsInit, CountsInit, ListingInit
<1>2. I /\ [Next]_vars => I'
  BY TypesNext, ChainNext, MailsNext, CountsNext, ListingNext
<1>3. I => ListingIsOrdered
  BY ListingIs
<1> QED BY <1>1, <1>2, <1>3, PTL DEF Spec

-----------------------------------------------------------------------------
(* What is counted is asked for.                                           *)

\* Places are integers, and finitely many.
LEMMA AddsAreFinite ==
    ASSUME NEW f, NEW lo \in Int, NEW hi \in Int
    PROVE  /\ IsFiniteSet(Adds(f, lo, hi)) /\ Cardinality(Adds(f, lo, hi)) \in Nat
           /\ Adds(f, lo, hi) \in SUBSET Int
<1>1. IsFiniteSet(lo .. hi) /\ Adds(f, lo, hi) \in SUBSET (lo .. hi)
  BY FS_Interval DEF Adds
<1>2. IsFiniteSet(Adds(f, lo, hi))
  BY <1>1, FS_Subset, Zenon
<1>3. Cardinality(Adds(f, lo, hi)) \in Nat
  BY <1>2, FS_CardinalityType, Zenon
<1>4. lo .. hi \in SUBSET Int
  OBVIOUS
<1> QED BY <1>1, <1>2, <1>3, <1>4

\* Moving the places of a set changes nothing of their number.
Moved(S, c) == {x + c : x \in S}

\* Moving positions does not change their number.
LEMMA MovedIs ==
    ASSUME NEW S \in SUBSET Int, IsFiniteSet(S), NEW c \in Int
    PROVE  IsFiniteSet(Moved(S, c)) /\ Cardinality(Moved(S, c)) = Cardinality(S)
<1>1. PICK T : T = Moved(S, c)
  OBVIOUS
<1>2. PICK f : f = [x \in S |-> x + c]
  OBVIOUS
<1>3. f \in [S -> T]
  BY <1>1, <1>2 DEF Moved
<1>4. \A x, y \in S : f[x] = f[y] => x = y
  BY <1>2
<1>5. \A t \in T : \E x \in S : f[x] = t
  BY <1>1, <1>2 DEF Moved
<1>6. f \in Bijection(S, T)
  <2>1. f \in Injection(S, T)
    BY <1>3, <1>4, Zenon DEF Injection, IsInjective
  <2>2. f \in Surjection(S, T)
    BY <1>3, <1>5, Zenon DEF Surjection
  <2> QED BY <2>1, <2>2, Zenon DEF Bijection
<1>7. ExistsBijection(S, T)
  BY <1>6 DEF ExistsBijection
<1> QED BY <1>1, <1>7, FS_Bijection, Zenon

\* A set that two moved ones cover has no more places than they have.
LEMMA CoveredBy ==
    ASSUME NEW U \in SUBSET Int, NEW S \in SUBSET Int, NEW T \in SUBSET Int,
           IsFiniteSet(S), IsFiniteSet(T), NEW c \in Int,
           \A u \in U : u \in S \/ u - c \in T
    PROVE  Cardinality(U) <= Cardinality(S) + Cardinality(T)
<1>1. PICK M : M = Moved(T, c)
  OBVIOUS
<1>2. IsFiniteSet(M) /\ Cardinality(M) = Cardinality(T)
  BY <1>1, MovedIs
<1>3. U \in SUBSET (S \cup M)
  <2> SUFFICES ASSUME NEW u \in U, u \notin S PROVE u \in M
    OBVIOUS
  <2>1. u - c \in T /\ u = (u - c) + c
    OBVIOUS
  <2> QED BY <1>1, <2>1 DEF Moved
<1>4. /\ IsFiniteSet(S \cup M)
      /\ Cardinality(S \cup M) = Cardinality(S) + Cardinality(M) - Cardinality(S \cap M)
  BY <1>2, FS_Union, Zenon
<1>5. IsFiniteSet(S \cap M)
  BY FS_Intersection, Zenon
<1>6. Cardinality(S) \in Nat /\ Cardinality(T) \in Nat /\ Cardinality(S \cap M) \in Nat
  BY <1>5, FS_CardinalityType, Zenon
<1>7. IsFiniteSet(U) /\ Cardinality(U) <= Cardinality(S \cup M)
  BY <1>3, <1>4, FS_Subset, Zenon
<1>8. Cardinality(U) \in Nat
  BY <1>7, FS_CardinalityType, Zenon
<1> QED BY <1>2, <1>4, <1>6, <1>7, <1>8

\* Two sets that move apart into a third have no more places than it has.
LEMMA MoveInto ==
    ASSUME NEW U \in SUBSET Int, NEW S \in SUBSET Int, NEW T \in SUBSET Int,
           IsFiniteSet(U), IsFiniteSet(S), IsFiniteSet(T), NEW c \in Int, NEW d \in Int,
           \A s \in S : s + c \in U, \A t \in T : t + d \in U,
           \A s \in S : \A t \in T : s + c # t + d
    PROVE  Cardinality(S) + Cardinality(T) <= Cardinality(U)
<1>1. PICK M : M = Moved(S, c)
  OBVIOUS
<1>2. PICK N : N = Moved(T, d)
  OBVIOUS
<1>3. IsFiniteSet(M) /\ Cardinality(M) = Cardinality(S)
  BY <1>1, MovedIs
<1>4. IsFiniteSet(N) /\ Cardinality(N) = Cardinality(T)
  BY <1>2, MovedIs
<1>5. M \cap N = {}
  BY <1>1, <1>2 DEF Moved
<1>6. M \cup N \in SUBSET U
  BY <1>1, <1>2 DEF Moved
<1>7. Cardinality(M \cup N) = Cardinality(M) + Cardinality(N) - Cardinality(M \cap N)
  BY <1>3, <1>4, FS_Union, Zenon
<1>8. Cardinality(M \cap N) = 0
  BY <1>5, FS_EmptySet
<1>9. Cardinality(M \cup N) <= Cardinality(U)
  BY <1>6, FS_Subset, Zenon
<1>10. Cardinality(S) \in Nat /\ Cardinality(T) \in Nat
  BY FS_CardinalityType, Zenon
<1> QED BY <1>3, <1>4, <1>7, <1>8, <1>9, <1>10

\* The sets the counts to come are taken from.
AskedSets == /\ IsFiniteSet(InLine) /\ Cardinality(InLine) \in Nat /\ InLine \in SUBSET Int
             /\ IsFiniteSet(InBatch) /\ Cardinality(InBatch) \in Nat /\ InBatch \in SUBSET Int
             /\ ByJson \in 0 .. 1 /\ ByEsp \in 0 .. 1
             /\ user_num \in Nat /\ docs \in Nat /\ seen.adds \in Nat

\* The sets counted are finite sets of positions.
LEMMA AskedTypes == Types => AskedSets
<1> SUFFICES ASSUME Types PROVE AskedSets
  OBVIOUS
<1>1. Len(line) - 2 \in Int /\ e.i \in Int /\ e.i + 1 \in Int /\ e.rx_length - 3 \in Int
  <2>1. line \in Seq(Byte) /\ e \in EspState
    BY DEF Types, EspTypes
  <2>2. Len(line) \in Nat
    BY <2>1, LenIs
  <2>3. e.i \in Nat /\ e.rx_length \in Int
    BY <2>1 DEF EspState
  <2> QED BY <2>2, <2>3
<1>2. IsFiniteSet(InLine) /\ Cardinality(InLine) \in Nat /\ InLine \in SUBSET Int
  BY <1>1, AddsAreFinite DEF InLine
<1>3. IsFiniteSet({}) /\ Cardinality({}) \in Nat /\ {} \in SUBSET Int
  BY FS_EmptySet
<1>4. IsFiniteSet(InBatch) /\ Cardinality(InBatch) \in Nat /\ InBatch \in SUBSET Int
  BY <1>1, <1>3, AddsAreFinite DEF InBatch
<1>5. user_num \in Nat /\ docs \in Nat /\ seen.adds \in Nat
  BY DEF Types, EspTypes, JsonTypes, Seen
<1> QED BY <1>2, <1>4, <1>5 DEF ByJson, ByEsp, AskedSets

\* Sums of what was counted and what is to come.
LEMMA MoreAsked ==
    ASSUME NEW u \in Nat, NEW j \in 0 .. 1, NEW k \in 0 .. 1, NEW a \in Nat, NEW b \in Nat,
           NEW a1 \in Nat, NEW s \in Nat, NEW d \in Nat, NEW n \in Nat,
           u + j + k + a + b <= 2 + s + d, a1 <= a + n
    PROVE  u + j + k + a1 + b <= 2 + (s + n) + d
OBVIOUS

\* Steps after which no more is to come than before.
LEMMA AskedKept ==
    ASSUME Types, Types', Asked, ~ seen'.jumped => ~ seen.jumped, seen'.adds = seen.adds,
           InLine' \in SUBSET InLine, InBatch' \in SUBSET InBatch,
           ~ seen'.jumped =>
             (user_num + ByJson + ByEsp)' - docs' <= (user_num + ByJson + ByEsp) - docs
    PROVE  Asked'
<1>1. /\ IsFiniteSet(InLine) /\ Cardinality(InLine) \in Nat
      /\ IsFiniteSet(InBatch) /\ Cardinality(InBatch) \in Nat
      /\ ByJson \in 0 .. 1 /\ ByEsp \in 0 .. 1
      /\ user_num \in Nat /\ docs \in Nat /\ seen.adds \in Nat
  BY AskedTypes DEF AskedSets
<1>2. /\ Cardinality(InLine') \in Nat /\ Cardinality(InBatch') \in Nat
      /\ ByJson' \in 0 .. 1 /\ ByEsp' \in 0 .. 1 /\ user_num' \in Nat /\ docs' \in Nat
  <2>1. AskedSets'
    BY AskedTypes, PTL
  <2> QED BY <2>1 DEF AskedSets
<1>3. Cardinality(InLine') <= Cardinality(InLine) /\ Cardinality(InBatch') <= Cardinality(InBatch)
  BY <1>1, FS_Subset, Zenon
<1>4. ASSUME ~ seen'.jumped
      PROVE  user_num' + ByJson' + ByEsp' + Cardinality(InLine') + Cardinality(InBatch')
                <= 2 + seen.adds + docs'
  <2>1. user_num + ByJson + ByEsp + Cardinality(InLine) + Cardinality(InBatch) <= 2 + seen.adds + docs
    BY <1>4 DEF Asked
  <2>2. (user_num' + ByJson' + ByEsp') - docs' <= (user_num + ByJson + ByEsp) - docs
    BY <1>4
  <2>3. PICK w \in Int : w = user_num + ByJson + ByEsp
    BY <1>1
  <2>4. PICK w1 \in Int : w1 = user_num' + ByJson' + ByEsp'
    <3>1. PICK j \in Int : j = ByJson'
      BY <1>2
    <3>2. PICK k \in Int : k = ByEsp'
      BY <1>2
    <3>3. user_num' + j + k \in Int
      BY <1>2
    <3> QED BY <3>1, <3>2, <3>3
  <2>5. w1 + Cardinality(InLine') + Cardinality(InBatch') <= 2 + seen.adds + docs'
    <3>1. w + Cardinality(InLine) + Cardinality(InBatch) <= 2 + seen.adds + docs
      BY <2>1, <2>3
    <3>2. w1 - docs' <= w - docs
      BY <2>2, <2>3, <2>4
    <3>3. PICK a \in Nat : a = Cardinality(InLine)
      BY <1>1
    <3>4. PICK b \in Nat : b = Cardinality(InBatch)
      BY <1>1
    <3>5. PICK a1 \in Nat : a1 = Cardinality(InLine')
      BY <1>2
    <3>6. PICK b1 \in Nat : b1 = Cardinality(InBatch')
      BY <1>2
    <3>7. PICK s \in Nat : s = seen.adds
      BY <1>1
    <3>8. PICK d \in Nat : d = docs
      BY <1>1
    <3>9. PICK d1 \in Nat : d1 = docs'
      BY <1>2
    <3>10. a1 <= a /\ b1 <= b /\ w + a + b <= 2 + s + d /\ w1 - d1 <= w - d
      BY <1>3, <3>1, <3>2, <3>3, <3>4, <3>5, <3>6, <3>7, <3>8, <3>9
    <3>11. w1 + a1 + b1 <= 2 + s + d1
      BY <3>10
    <3> QED BY <3>5, <3>6, <3>7, <3>9, <3>11
  <2> QED BY <2>4, <2>5
<1> QED BY <1>4 DEF Asked

\* The phone adds to the line what it asks for; no command begins with a "d" that
\* would complete an "add" of the bytes before it.
LEMMA AskedPhone ==
    ASSUME Types, Types', Asked, NEW x \in Item, Phone(x), UNCHANGED jsonVars
    PROVE  Asked'
<1>1. x \in Seq(Byte) /\ Len(x) >= 1 /\ x[1] # "d"
  BY ItemIs
<1>2. PICK q \in Seq(Byte) : q = line
  BY DEF Types, EspTypes
<1>3. PICK n \in Nat : n = Len(q)
  BY <1>2, LenIs
<1>4. PICK m \in Nat : m = Len(x)
  BY <1>1, LenIs
<1>5. PICK r : r = q \o x
  OBVIOUS
<1>6. /\ Len(r) = n + m /\ \A b \in 1 .. n : r[b] = q[b]
      /\ \A b \in 1 .. m : r[n + b] = x[b]
  BY <1>1, <1>2, <1>3, <1>4, <1>5, JoinedIs
<1>7. InLine = Adds(q, 1, n - 2) /\ InLine' = Adds(r, 1, n + m - 2)
  BY <1>2, <1>3, <1>5, <1>6 DEF InLine, Phone
<1>8. AddsIn(x) = Cardinality(Adds(x, 1, m - 2))
  BY <1>4 DEF AddsIn, Adds
<1>9. ASSUME NEW u \in Adds(r, 1, n + m - 2)
      PROVE  u \in Adds(q, 1, n - 2) \/ u - n \in Adds(x, 1, m - 2)
  <2>0. /\ u \in Int /\ u >= 1 /\ u <= n + m - 2
        /\ r[u] = "a" /\ r[u + 1] = "d" /\ r[u + 2] = "d"
    BY <1>3, <1>4, <1>9 DEF Adds
  <2>1. CASE u <= n - 2
    <3>1. u \in 1 .. n - 2 /\ u \in 1 .. n /\ u + 1 \in 1 .. n /\ u + 2 \in 1 .. n
      BY <1>3, <2>0, <2>1
    <3> QED BY <1>6, <2>0, <3>1 DEF Adds
  <2>2. CASE u = n - 1 \/ u = n
    <3>1. u + 2 = n + 1 \/ u + 1 = n + 1
      BY <1>3, <2>2
    <3>2. 1 \in 1 .. m
      BY <1>1, <1>4
    <3>3. r[n + 1] # "d"
      BY <1>1, <1>6, <3>2
    <3> QED BY <2>0, <3>1, <3>3
  <2>3. CASE u > n
    <3>1. PICK b \in Int : b = u - n
      BY <1>3, <2>0
    <3>2. /\ b \in 1 .. m - 2 /\ b \in 1 .. m /\ b + 1 \in 1 .. m /\ b + 2 \in 1 .. m
          /\ u = n + b /\ u + 1 = n + (b + 1) /\ u + 2 = n + (b + 2)
      BY <1>3, <1>4, <2>0, <2>3, <3>1
    <3>3. x[b] = "a" /\ x[b + 1] = "d" /\ x[b + 2] = "d"
      BY <1>6, <2>0, <3>2
    <3> QED BY <3>1, <3>2, <3>3 DEF Adds
  <2> QED BY <1>3, <2>0, <2>1, <2>2, <2>3
<1>10. /\ IsFiniteSet(InLine) /\ Cardinality(InLine) \in Nat /\ InLine \in SUBSET Int
       /\ Cardinality(InBatch) \in Nat /\ ByJson \in 0 .. 1 /\ ByEsp \in 0 .. 1
       /\ user_num \in Nat /\ docs \in Nat /\ seen.adds \in Nat
  BY AskedTypes DEF AskedSets
<1>11. Cardinality(InLine') \in Nat /\ InLine' \in SUBSET Int
  <2>1. AskedSets'
    BY AskedTypes, PTL
  <2> QED BY <2>1 DEF AskedSets
<1>12. /\ IsFiniteSet(Adds(x, 1, m - 2)) /\ Cardinality(Adds(x, 1, m - 2)) \in Nat
       /\ Adds(x, 1, m - 2) \in SUBSET Int
  BY <1>4, AddsAreFinite
<1>13. \A u \in InLine' : u \in InLine \/ u - n \in Adds(x, 1, m - 2)
  BY <1>7, <1>9
<1>14. n \in Int
  BY <1>3
<1>15. Cardinality(InLine') <= Cardinality(InLine) + AddsIn(x)
  BY <1>8, <1>10, <1>11, <1>12, <1>13, <1>14, CoveredBy
<1>16. /\ UNCHANGED <<user_num, docs, e, uart_rx_buffer, job, attached, json_mb>>
       /\ seen'.jumped = seen.jumped /\ seen'.adds = seen.adds + AddsIn(x)
  <2>1. seen \in Seen
    BY DEF Types, EspTypes
  <2> QED BY <2>1 DEF Phone, jsonVars, Seen
<1>17. InBatch' = InBatch /\ ByEsp' = ByEsp /\ ByJson' = ByJson
  BY <1>16 DEF InBatch, ByEsp, ByJson, Spent, Waits, Ending, Busy
<1>18. AddsIn(x) \in Nat
  BY <1>8, <1>12
<1>19. ASSUME ~ seen.jumped
       PROVE  user_num + ByJson + ByEsp + Cardinality(InLine') + Cardinality(InBatch)
                 <= 2 + (seen.adds + AddsIn(x)) + docs
  <2>1. user_num + ByJson + ByEsp + Cardinality(InLine) + Cardinality(InBatch) <= 2 + seen.adds + docs
    BY <1>19 DEF Asked
  <2> QED BY <1>10, <1>11, <1>15, <1>18, <2>1, MoreAsked
<1> QED BY <1>16, <1>17, <1>19 DEF Asked

\* A read divides the line into the batch and the rest; an "add" that is divided is
\* not found any more.
LEMMA AskedRead ==
    ASSUME Types, Types', Asked, NEW n \in 0 .. Len(line), EspRead(n),
           UNCHANGED <<attached, json_mb, job, docs>>
    PROVE  Asked'
<1>1. PICK q \in Seq(Byte) : q = line
  BY DEF Types, EspTypes
<1>2. PICK l \in Nat : l = Len(q)
  BY <1>1, LenIs
<1>3. n \in Nat /\ n <= l
  BY <1>1, <1>2
<1>4. e \in EspState /\ seen \in Seen
  BY DEF Types, EspTypes
<1>5. /\ e.pc = "recv" /\ UNCHANGED user_num /\ seen'.adds = seen.adds /\ seen'.jumped = seen.jumped
      /\ e'.i = 0 /\ e'.rx_length = n /\ e'.pc = (IF n = 0 THEN "recv" ELSE "scan")
  BY <1>4 DEF EspRead, EspState, Seen
<1>6. InLine = Adds(q, 1, l - 2) /\ InBatch = {}
  BY <1>1, <1>2, <1>5 DEF InLine, InBatch
<1>7. PICK r : r = SubSeq(q, n + 1, l)
  OBVIOUS
<1>8. Len(r) = l - n /\ \A b \in 1 .. l - n : r[b] = q[n + b]
  BY <1>1, <1>2, <1>3, <1>7, CutIs
<1>9. InLine' = Adds(r, 1, l - n - 2)
  BY <1>1, <1>2, <1>7, <1>8 DEF InLine, EspRead
<1>10. PICK g : g = uart_rx_buffer'
  OBVIOUS
<1>11. \A b \in 0 .. n - 1 : g[b] = q[b + 1]
  BY <1>1, <1>10, FilledIs DEF EspRead, Types
<1>12. InBatch' = IF n = 0 THEN {} ELSE Adds(g, 0, n - 3)
  BY <1>5, <1>10 DEF InBatch
<1>13. /\ IsFiniteSet(InLine) /\ Cardinality(InLine) \in Nat /\ InLine \in SUBSET Int
       /\ user_num \in Nat /\ docs \in Nat /\ seen.adds \in Nat
       /\ ByJson \in 0 .. 1
  BY AskedTypes DEF AskedSets
<1>14. /\ IsFiniteSet(InLine') /\ Cardinality(InLine') \in Nat /\ InLine' \in SUBSET Int
       /\ IsFiniteSet(InBatch') /\ Cardinality(InBatch') \in Nat /\ InBatch' \in SUBSET Int
  <2>1. AskedSets'
    BY AskedTypes, PTL
  <2> QED BY <2>1 DEF AskedSets
<1>15. ASSUME NEW u \in InLine' PROVE u + n \in InLine /\ u >= 1
  <2>1. /\ u \in Int /\ u >= 1 /\ u <= l - n - 2 /\ r[u] = "a" /\ r[u + 1] = "d" /\ r[u + 2] = "d"
    BY <1>2, <1>3, <1>9, <1>15 DEF Adds
  <2>2. /\ u \in 1 .. l - n /\ u + 1 \in 1 .. l - n /\ u + 2 \in 1 .. l - n /\ u + n \in 1 .. l - 2
        /\ n + u = u + n /\ n + (u + 1) = (u + n) + 1 /\ n + (u + 2) = (u + n) + 2
    BY <1>2, <1>3, <2>1
  <2>3. q[u + n] = "a" /\ q[(u + n) + 1] = "d" /\ q[(u + n) + 2] = "d"
    BY <1>8, <2>1, <2>2
  <2> QED BY <1>6, <2>1, <2>2, <2>3 DEF Adds
<1>16. ASSUME NEW u \in InBatch' PROVE u + 1 \in InLine /\ u <= n - 3
  <2>0. u \in Adds(g, 0, n - 3)
    BY <1>12
  <2>1. /\ u \in Int /\ u >= 0 /\ u <= n - 3 /\ g[u] = "a" /\ g[u + 1] = "d" /\ g[u + 2] = "d"
    BY <1>3, <2>0 DEF Adds
  <2>2. /\ u \in 0 .. n - 1 /\ u + 1 \in 0 .. n - 1 /\ u + 2 \in 0 .. n - 1 /\ u + 1 \in 1 .. l - 2
        /\ (u + 2) + 1 = (u + 1) + 2
    BY <1>2, <1>3, <2>1
  <2>3. q[u + 1] = "a" /\ q[(u + 1) + 1] = "d" /\ q[(u + 1) + 2] = "d"
    BY <1>11, <2>1, <2>2
  <2> QED BY <1>6, <2>1, <2>2, <2>3 DEF Adds
<1>17. \A u \in InLine' : \A v \in InBatch' : u + n # v + 1
  BY <1>3, <1>14, <1>15, <1>16
<1>18. Cardinality(InLine') + Cardinality(InBatch') <= Cardinality(InLine)
  <2>1. n \in Int /\ 1 \in Int
    BY <1>3
  <2> QED BY <1>13, <1>14, <1>15, <1>16, <1>17, <2>1, MoveInto
<1>19. ByJson' = ByJson /\ ByEsp' = 0 /\ ByEsp = 0
  BY <1>5 DEF ByEsp, ByJson, Spent, Waits, Ending, Busy
<1>20. Cardinality(InBatch) = 0
  BY <1>6, FS_EmptySet
<1> QED BY <1>5, <1>13, <1>14, <1>18, <1>19, <1>20 DEF Asked

\* A later start finds fewer places.
LEMMA AddsFrom ==
    ASSUME NEW f, NEW lo \in Int, NEW lo1 \in Int, NEW hi \in Int, lo1 >= lo
    PROVE  Adds(f, lo1, hi) \in SUBSET Adds(f, lo, hi)
BY DEF Adds

\* "add" is only found where the batch has all of it: the NUL behind the batch ends
\* what the comparison sees, and the places left to look at do not include this one.
LEMMA AskedAdd ==
    ASSUME Types, Types', Asked, EspAdd, UNCHANGED <<attached, json_mb, job, docs>>
    PROVE  Asked'
<1>0. e \in EspState /\ uart_rx_buffer \in [0 .. RxSize - 1 -> Byte]
  BY DEF Types, EspTypes
<1>1. /\ e.pc = "add" /\ UNCHANGED <<user_num, line, uart_rx_buffer, seen>>
      /\ e'.i = e.i /\ e'.rx_length = e.rx_length
      /\ e'.pc = IF Here(Add) THEN "count" ELSE "sign"
  BY <1>0 DEF EspAdd, EspState
<1>2. PICK i \in Nat : i = e.i
  BY <1>0 DEF EspState
<1>3. PICK n \in Nat : n = e.rx_length /\ n <= RxSize - 1
  BY <1>0, SizeIs DEF EspState
<1>4. PICK f : f = uart_rx_buffer
  OBVIOUS
<1>5. InLine' = InLine /\ ByJson' = ByJson
  BY <1>1 DEF InLine, ByJson, Spent, Waits, Ending, Busy
<1>6. InBatch = Adds(f, i, n - 3) /\ InBatch' = Adds(f, i + 1, n - 3)
  BY <1>1, <1>2, <1>3, <1>4 DEF InBatch
<1>7. InBatch' \in SUBSET InBatch
  BY <1>2, <1>3, <1>6, AddsFrom
<1>8. /\ IsFiniteSet(InBatch) /\ Cardinality(InBatch) \in Nat /\ Cardinality(InLine) \in Nat
      /\ ByJson \in 0 .. 1 /\ user_num \in Nat /\ docs \in Nat /\ seen.adds \in Nat
  BY AskedTypes DEF AskedSets
<1>9. CASE ~ Here(Add)
  <2>1. ByEsp = 0 /\ ByEsp' = 0
    BY <1>1, <1>9 DEF ByEsp
  <2>2. (user_num + ByJson + ByEsp)' - docs' <= (user_num + ByJson + ByEsp) - docs
    BY <1>1, <1>5, <1>8, <2>1
  <2> QED BY <1>1, <1>5, <1>7, <2>2, AskedKept
<1>10. CASE Here(Add)
  <2> SUFFICES ASSUME ~ seen.jumped
               PROVE  user_num + ByJson + ByEsp' + Cardinality(InLine) + Cardinality(InBatch')
                         <= 2 + seen.adds + docs
    BY <1>1, <1>5 DEF Asked
  <2>1. i < n /\ f[n] = Nul
    BY <1>1, <1>2, <1>3, <1>4 DEF Types, Scans, Scanning
  <2>2. Rx(i) = "a" /\ Rx(i + 1) = "d" /\ Rx(i + 2) = "d"
    <3>1. \A b \in DOMAIN Add : Rx(i + b - 1) = Add[b]
      BY <1>2, <1>10 DEF Here
    <3>2. DOMAIN Add = 1 .. 3 /\ Add[1] = "a" /\ Add[2] = "d" /\ Add[3] = "d"
      BY DEF Add
    <3>3. 1 \in 1 .. 3 /\ 2 \in 1 .. 3 /\ 3 \in 1 .. 3 /\ i + 1 - 1 = i /\ i + 2 - 1 = i + 1
          /\ i + 3 - 1 = i + 2
      OBVIOUS
    <3>4. Rx(i + 1 - 1) = "a" /\ Rx(i + 2 - 1) = "d" /\ Rx(i + 3 - 1) = "d"
      BY <3>1, <3>2, <3>3
    <3> QED BY <3>3, <3>4
  <2>3. \A x \in 0 .. n : Rx(x) = f[x]
    BY <1>3, <1>4, SizeIs DEF Rx
  <2>4. Rx(n) # "d"
    BY <1>3, <2>1, <2>3, NulIs
  <2>5. i <= n - 3
    BY <1>2, <1>3, <2>1, <2>2, <2>4
  <2>6. i \in InBatch
    <3>1. i \in 0 .. n /\ i + 1 \in 0 .. n /\ i + 2 \in 0 .. n /\ i \in i .. n - 3
      BY <1>2, <1>3, <2>5
    <3>2. f[i] = "a" /\ f[i + 1] = "d" /\ f[i + 2] = "d"
      BY <2>2, <2>3, <3>1
    <3> QED BY <1>6, <3>1, <3>2 DEF Adds
  <2>7. i \notin InBatch'
    BY <1>2, <1>3, <1>6 DEF Adds
  <2>8. InBatch' \in SUBSET (InBatch \ {i})
    BY <1>7, <2>7
  <2>9. IsFiniteSet(InBatch \ {i}) /\ Cardinality(InBatch \ {i}) = Cardinality(InBatch) - 1
    BY <1>8, <2>6, FS_RemoveElement
  <2>10. IsFiniteSet(InBatch') /\ Cardinality(InBatch') <= Cardinality(InBatch \ {i})
    BY <2>8, <2>9, FS_Subset, Zenon
  <2>11. Cardinality(InBatch') \in Nat
    BY <2>10, FS_CardinalityType, Zenon
  <2>12. ByEsp' = 1 /\ ByEsp = 0
    BY <1>1, <1>10 DEF ByEsp
  <2>13. user_num + ByJson + 0 + Cardinality(InLine) + Cardinality(InBatch) <= 2 + seen.adds + docs
    BY <2>12 DEF Asked
  <2> QED BY <1>8, <2>9, <2>10, <2>11, <2>12, <2>13
<1> QED BY <1>9, <1>10

\* The other steps of a scan: i never goes back, and the count an "add" was promised
\* is made.
LEMMA AskedScans ==
    ASSUME Types, Types', Counts, Asked, EspScans
    PROVE  Asked'
<1>0. /\ e \in EspState /\ seen \in Seen /\ e.i \in Nat /\ e.rx_length \in Int
      /\ e.rx_length - 3 \in Int
  BY DEF Types, EspTypes, EspState
<1>1. UNCHANGED <<attached, json_mb, job, docs>>
  BY DEF EspScans
<1>2. ByJson' = ByJson /\ ByJson \in 0 .. 1 /\ user_num \in Nat /\ docs \in Nat
  BY <1>1, AskedTypes DEF AskedSets, ByJson, Spent, Waits, Ending, Busy
<1>3. ASSUME UNCHANGED <<line, user_num>>, ~ seen'.jumped => ~ seen.jumped, seen'.adds = seen.adds,
             InBatch' \in SUBSET InBatch, ByEsp' = 0
      PROVE  Asked'
  <2>1. InLine' \in SUBSET InLine
    BY <1>3 DEF InLine
  <2>2. ByEsp \in 0 .. 1
    BY DEF ByEsp
  <2>3. (user_num + ByJson + ByEsp)' - docs' <= (user_num + ByJson + ByEsp) - docs
    BY <1>1, <1>2, <1>3, <2>2
  <2> QED BY <1>3, <2>1, <2>3, AskedKept
<1>4. CASE EspGet
  <2>1. /\ UNCHANGED <<line, user_num, seen, uart_rx_buffer>> /\ e.pc = "scan"
        /\ e'.pc \in {"list_start", "add"} /\ e'.i = e.i /\ e'.rx_length = e.rx_length
    BY <1>0, <1>4 DEF EspGet, EspState
  <2> QED BY <1>3, <2>1 DEF InBatch, ByEsp
<1>5. CASE EspListStart
  <2>1. /\ UNCHANGED <<line, user_num, uart_rx_buffer>> /\ e.pc = "list_start"
        /\ seen'.adds = seen.adds /\ seen'.jumped = seen.jumped
        /\ e'.pc \in {"list", "add"} /\ e'.i = e.i /\ e'.rx_length = e.rx_length
    BY <1>0, <1>5 DEF EspListStart, EspState, Seen
  <2> QED BY <1>3, <2>1 DEF InBatch, ByEsp
<1>6. CASE EspList
  <2>1. /\ UNCHANGED <<line, user_num, uart_rx_buffer>> /\ e.pc = "list" /\ seen'.adds = seen.adds
    BY <1>0, <1>6 DEF EspList, Seen
  <2>2. ~ seen'.jumped => ~ seen.jumped
    <3>1. PICK y : y = (seen.jumped \/ e'.i >= e.rx_length)
      OBVIOUS
    <3>2. PICK z : z = Append(seen.listed, ListedEntry)
      OBVIOUS
    <3>3. seen' = [seen EXCEPT !.listed = z, !.aligned = FALSE, !.jumped = y]
      BY <1>6, <3>1, <3>2 DEF EspList
    <3>4. seen'.jumped = y
      BY <1>0, <3>3 DEF Seen
    <3> QED BY <3>1, <3>4
  <2>3. e'.pc \in {"list", "add"} /\ e'.i \in {e.i, e.i + 1} /\ e'.rx_length = e.rx_length
    BY <1>0, <1>6 DEF EspList, EspState
  <2>4. /\ InBatch = Adds(uart_rx_buffer, e.i, e.rx_length - 3)
        /\ InBatch' = Adds(uart_rx_buffer, e'.i, e.rx_length - 3)
    BY <2>1, <2>3 DEF InBatch
  <2>5. e.i \in Int /\ e'.i \in Int /\ e'.i >= e.i
    BY <1>0, <2>3
  <2>6. InBatch' \in SUBSET InBatch
    BY <1>0, <2>4, <2>5, AddsFrom
  <2>7. ByEsp' = 0
    BY <2>3 DEF ByEsp
  <2> QED BY <1>3, <2>1, <2>2, <2>6, <2>7
<1>7. CASE EspAdd
  BY <1>1, <1>7, AskedAdd
<1>8. CASE EspCount
  <2>1. /\ UNCHANGED <<line, seen, uart_rx_buffer>> /\ e.pc = "count" /\ user_num' = e.num + 1
        /\ e'.pc = "sign" /\ e'.i = e.i /\ e'.rx_length = e.rx_length
    BY <1>0, <1>8 DEF EspCount, EspState
  <2>2. InBatch' \in SUBSET InBatch /\ ByEsp = 1 /\ ByEsp' = 0
    BY <2>1 DEF InBatch, ByEsp
  <2>3. InLine' \in SUBSET InLine
    BY <2>1 DEF InLine
  <2>4. e.num \in Nat /\ (user_num = e.num \/ user_num = e.num + 1)
    BY <1>0, <2>1 DEF Counts, EspState
  <2>5. (user_num + ByJson + ByEsp)' - docs' <= (user_num + ByJson + ByEsp) - docs
    BY <1>1, <1>2, <2>1, <2>2, <2>4
  <2> QED BY <2>1, <2>2, <2>3, <2>5, AskedKept
<1>9. CASE EspSign
  <2>1. /\ UNCHANGED <<line, user_num, uart_rx_buffer>> /\ e.pc = "sign"
        /\ seen'.adds = seen.adds /\ seen'.jumped = seen.jumped
    BY <1>0, <1>9 DEF EspSign, Seen
  <2>2. /\ e'.rx_length = e.rx_length
        /\ \/ e'.pc = "window" /\ e'.i = e.i
           \/ e'.pc \in {"scan", "recv"} /\ e'.i = e.i + 1
    BY <1>0, <1>9, BodyEnds DEF EspSign, EspState, NextIndex
  <2>3. InBatch' \in SUBSET InBatch /\ ByEsp' = 0
    BY <2>1, <2>2 DEF InBatch, ByEsp
  <2> QED BY <1>3, <2>1, <2>3
<1>10. CASE EspWindow
  <2>1. UNCHANGED <<line, user_num, seen, uart_rx_buffer>> /\ e.pc = "window"
    BY <1>10 DEF EspWindow
  <2>2. /\ e'.rx_length = e.rx_length
        /\ \/ e'.pc = "overrun"
           \/ e'.pc \in {"scan", "recv"} /\ e'.i = e.i + 1
    BY <1>0, <1>10, BodyEnds DEF EspWindow, EspState, NextIndex
  <2>3. InBatch' \in SUBSET InBatch /\ ByEsp' = 0
    BY <2>1, <2>2 DEF InBatch, ByEsp
  <2> QED BY <1>3, <2>1, <2>3
<1> QED BY <1>4, <1>5, <1>6, <1>7, <1>8, <1>9, <1>10 DEF EspScans, EspScan

\* The json thread is to count no more than before.
LEMMA NoMoreToCome ==
    ASSUME NEW u \in Nat, NEW j \in Int, NEW k \in Int, NEW d \in Int,
           NEW j1 \in Int, j1 <= j
    PROVE  (u + j1 + k) - d <= (u + j + k) - d
OBVIOUS

\* Every step keeps the count of what was asked for.
LEMMA AskedNext ==
    ASSUME Types, Types', Chain, Mails, Counts, Asked, [Next]_vars
    PROVE  Asked'
<1>0. /\ e \in EspState /\ user_num \in Nat /\ docs \in Nat /\ num \in Nat
      /\ ByJson \in 0 .. 1 /\ ByEsp \in 0 .. 1
  BY AskedTypes DEF AskedSets, Types, EspTypes, JsonTypes
<1>1. ASSUME UNCHANGED <<user_num, docs, e, line, uart_rx_buffer, seen>>, Spent => Spent'
      PROVE  Asked'
  <2>1. InLine' \in SUBSET InLine /\ InBatch' \in SUBSET InBatch /\ ByEsp' = ByEsp
    BY <1>1 DEF InLine, InBatch, ByEsp
  <2>2. ByJson' \in Nat /\ ByJson' <= ByJson
    BY <1>1 DEF ByJson
  <2>3. (user_num + ByJson' + ByEsp) - docs <= (user_num + ByJson + ByEsp) - docs
    <3>1. ByJson' \in Int /\ ByJson \in Int /\ ByEsp \in Int /\ docs \in Int
      BY <1>0, <2>2
    <3> QED BY <1>0, <2>2, <3>1, NoMoreToCome
  <2> QED BY <1>1, <2>1, <2>3, AskedKept
<1>2. CASE Start
  <2>1. ~ SendText /\ ~ SendOver
    <3>1. starts' = starts + 1 /\ starts \in Nat
      BY <1>2 DEF Start, Types, JsonTypes
    <3>2. starts' # starts
      BY <3>1
    <3> QED BY <3>2 DEF SendText, SendOver
  <2>2. Spent => Spent'
    BY <1>2, <2>1, SpentKept
  <2> QED BY <1>1, <1>2, <2>2, StartIs
<1>3. CASE PhoneSends
  BY <1>3, AskedPhone DEF PhoneSends
<1>4. CASE EspReads
  BY <1>4, AskedRead DEF EspReads
<1>5. CASE EspScans
  BY <1>5, AskedScans
<1>6. CASE EspStart
  <2>1. UNCHANGED <<user_num, docs, line, uart_rx_buffer, seen, attached, json_mb, job>>
    BY <1>6 DEF EspStart
  <2>2. Spent => Spent'
    BY <2>1 DEF Spent, Waits, Ending, Busy
  <2>3. CASE e' = e
    BY <1>1, <2>1, <2>2, <2>3
  <2>4. CASE e' # e
    <3>1. e'.pc = "recv" /\ e.pc = "none"
      BY <1>0, <1>6, <2>4 DEF EspStart, Types, Scans, EspState
    <3>2. InLine' \in SUBSET InLine /\ InBatch' \in SUBSET InBatch /\ ByEsp' = 0 /\ ByEsp = 0
      BY <2>1, <3>1 DEF InLine, InBatch, ByEsp
    <3>3. ByJson' = ByJson
      BY <2>1 DEF ByJson, Spent, Waits, Ending, Busy
    <3>4. (user_num + ByJson + ByEsp)' - docs' <= (user_num + ByJson + ByEsp) - docs
      BY <1>0, <2>1, <3>2, <3>3
    <3> QED BY <2>1, <3>2, <3>4, AskedKept
  <2> QED BY <2>3, <2>4
<1>7. CASE SendText
  <2>1. /\ UNCHANGED <<user_num, line, uart_rx_buffer, seen>> /\ docs' = docs + 1
        /\ e.pc = "recv" /\ e'.pc \in {"send_over", "assert"}
    BY <1>7, SendTextIs DEF SendIs
  <2>2. InLine' \in SUBSET InLine /\ InBatch' \in SUBSET InBatch /\ ByEsp' = 0 /\ ByEsp = 0
    BY <2>1 DEF InLine, InBatch, ByEsp
  <2>3. ByJson' \in 0 .. 1
    BY DEF ByJson
  <2>4. (user_num + ByJson' + 0) - (docs + 1) <= (user_num + ByJson + 0) - docs
    <3>1. PICK j \in 0 .. 1 : j = ByJson
      BY <1>0
    <3>2. PICK j1 \in 0 .. 1 : j1 = ByJson'
      BY <2>3
    <3>3. (user_num + j1 + 0) - (docs + 1) <= (user_num + j + 0) - docs
      BY <1>0
    <3> QED BY <3>1, <3>2, <3>3
  <2> QED BY <2>1, <2>2, <2>4, AskedKept
<1>8. CASE SendOver
  <2>1. /\ UNCHANGED <<user_num, line, uart_rx_buffer, seen, job, attached>> /\ docs' = docs
        /\ e.pc = "send_over" /\ e'.pc \in {"recv", "assert"}
        /\ json_mb' = json_mb \/ json_mb' = Mailed("over")
    BY <1>8, SendOverIs DEF SendIs
  <2>2. InLine' \in SUBSET InLine /\ InBatch' \in SUBSET InBatch /\ ByEsp' = 0 /\ ByEsp = 0
    BY <2>1 DEF InLine, InBatch, ByEsp
  <2>3. json_mb' # <<>> /\ json_mb'[1] = "app_buffer" => json_mb # <<>> /\ json_mb[1] = "app_buffer"
    <3>1. json_mb \in Seq({"app_buffer", "over"}) /\ Len(json_mb) \in Nat
      BY LenIs DEF Types, JsonTypes
    <3>2. CASE json_mb = <<>> /\ json_mb' = Append(json_mb, "over")
      <4>1. json_mb'[1] = "over"
        BY <3>2
      <4> QED BY <4>1
    <3>3. CASE json_mb # <<>> /\ json_mb' = Append(json_mb, "over")
      <4>1. json_mb'[1] = json_mb[1]
        BY <3>1, <3>3
      <4> QED BY <3>3, <4>1
    <3> QED BY <2>1, <3>2, <3>3 DEF Mailed
  <2>4. Spent => Spent'
    BY <2>1, <2>3 DEF Spent, Waits, Ending, Busy
  <2>5. ByJson' \in Nat /\ ByJson' <= ByJson
    BY <2>4 DEF ByJson
  <2>6. (user_num + ByJson' + 0) - docs <= (user_num + ByJson + 0) - docs
    <3>1. ByJson' \in Int /\ ByJson \in Int /\ 0 \in Int /\ docs \in Int
      BY <1>0, <2>5
    <3> QED BY <1>0, <2>5, <3>1, NoMoreToCome
  <2> QED BY <2>1, <2>2, <2>6, AskedKept
<1>9. ASSUME NEW h \in Job, JobNext(h)
      PROVE  Asked'
  <2>1. Alone(h) /\ attached /\ UNCHANGED <<e, line, uart_rx_buffer, seen, docs>>
    BY <1>9, JobIs
  <2>2. CASE Adds1(h)
    <3>1. ByJson' = 0 /\ ByJson = 1
      <4>1. Spent'
        BY <2>1, <2>2, SpentBy
      <4>2. ~ Spent
        BY <2>2 DEF Adds1, Spent, Busy
      <4> QED BY <4>1, <4>2 DEF ByJson
    <3>2. user_num' = num + 1 /\ user_num \in {num, num + 1}
      BY <2>2 DEF Adds1, Counts, Counting
    <3>3. InLine' \in SUBSET InLine /\ InBatch' \in SUBSET InBatch /\ ByEsp' = ByEsp
      BY <2>1 DEF InLine, InBatch, ByEsp
    <3>4. (user_num' + 0 + ByEsp) - docs <= (user_num + 1 + ByEsp) - docs
      BY <1>0, <3>2
    <3> QED BY <2>1, <3>1, <3>3, <3>4, AskedKept
  <2>3. CASE ~ Adds1(h)
    <3>1. user_num' = user_num
      BY <1>9, <2>3, JobIs DEF Takes, Parses, Spawns, Detaches
    <3>2. ~ SendText /\ ~ SendOver
      BY <2>1, SendTextIs, SendOverIs
    <3>3. Spent => Spent'
      BY <3>2, SpentKept
    <3> QED BY <1>1, <2>1, <3>1, <3>3
  <2> QED BY <2>2, <2>3
<1>10. CASE UNCHANGED vars
  <2>1. UNCHANGED <<user_num, docs, e, line, uart_rx_buffer, seen, attached, json_mb, job>>
    BY <1>10 DEF vars, espVars, jsonVars
  <2>2. Spent => Spent'
    BY <2>1 DEF Spent, Waits, Ending, Busy
  <2> QED BY <1>1, <2>1, <2>2
<1> QED BY <1>2, <1>3, <1>4, <1>5, <1>6, <1>7, <1>8, <1>9, <1>10 DEF Next, EspNext

\* In the beginning nothing was asked for.
LEMMA AskedInit == Init => Asked
<1> SUFFICES ASSUME Init PROVE Asked
  OBVIOUS
<1>1. /\ line = <<>> /\ e.pc = "none" /\ user_num = 2 /\ seen.adds = 0 /\ docs = 0
      /\ json_mb = <<>> /\ \A h \in Job : job[h] = "none"
  BY DEF Init, EspInit, NothingSeen
<1>2. InLine = {} /\ InBatch = {}
  <2>1. Len(line) - 2 = 0 - 2
    BY <1>1
  <2>2. 1 .. (0 - 2) = {}
    OBVIOUS
  <2> QED BY <1>1, <2>1, <2>2 DEF InLine, InBatch, Adds
<1>3. Cardinality(InLine) = 0 /\ Cardinality(InBatch) = 0
  BY <1>2, FS_EmptySet
<1>4. ByJson = 0 /\ ByEsp = 0
  BY <1>1 DEF ByJson, ByEsp, Spent, Waits, Busy
<1> QED BY <1>1, <1>3, <1>4 DEF Asked

\* No entry is counted twice or uncalled for: in each state the entries counted, and
\* those that the bytes on the way, the batch and the json thread still announce, are
\* no more than the "add" and the texts the phone has sent.
THEOREM NothingCountedUnasked == Spec => []CountsOnlyAsked
<1> DEFINE I == Types /\ Chain /\ Mails /\ Counts /\ Asked
<1>1. Init => I
  BY TypesInit, ChainInit, MailsInit, CountsInit, AskedInit
<1>2. I /\ [Next]_vars => I'
  BY TypesNext, ChainNext, MailsNext, CountsNext, AskedNext
<1>3. I => CountsOnlyAsked
  <2> SUFFICES ASSUME I, ~ seen.jumped PROVE user_num - 2 <= seen.adds + docs
    BY DEF CountsOnlyAsked
  <2>1. /\ Cardinality(InLine) \in Nat /\ Cardinality(InBatch) \in Nat
        /\ ByJson \in 0 .. 1 /\ ByEsp \in 0 .. 1
        /\ user_num \in Nat /\ docs \in Nat /\ seen.adds \in Nat
    BY AskedTypes DEF AskedSets
  <2>2. user_num + ByJson + ByEsp + Cardinality(InLine) + Cardinality(InBatch) <= 2 + seen.adds + docs
    BY DEF Asked
  <2> QED BY <2>1, <2>2
<1> QED BY <1>1, <1>2, <1>3, PTL DEF Spec
=============================================================================
