------------------------- MODULE ScheduleFetchProofs -------------------------
(***************************************************************************)
(* Proofs about module ScheduleFetch: the types, the buffer and the table  *)
(* for pages of any length, the consumer that ends before its mailbox, and *)
(* the filing of every read.                                               *)
(*                                                                         *)
(* A field is filed for every cell at most: 5 * user_num + j - 1 never     *)
(* exceeds index, and index never exceeds a read, whatever a second thread *)
(* does to the shared bytes_read.  So the byte user_num does not wrap, and *)
(* when it is past the table the page is longer than the table.            *)
(***************************************************************************)
EXTENDS ScheduleFetch, FiniteSetTheorems, TLAPS

Pc == {"none", "get", "read", "parse", "send_table", "send_len", "send_over", "next",
       "chunk", "send_buffer", "assert"}

Types == /\ page \in Pages
         /\ attached \in BOOLEAN /\ frozen \in BOOLEAN /\ user_date_flag \in BOOLEAN
         /\ mb \in Seq({"table", "len", "buffer", "over"}) /\ Len(mb) <= MbSize
         /\ thread1 \in {"none", "recv", "delay", "detach"}
         /\ fetch \in [Fetch -> Pc]
         /\ unread \in [Fetch -> Seq(Cell)] /\ buffer \in [Fetch -> Seq(Cell)]
         /\ index \in [Fetch -> 0 .. Content] /\ j \in [Fetch -> Field]
         /\ user_num \in [Fetch -> 0 .. 255]
         /\ content_pos \in [Fetch -> Nat]
         /\ bytes_read \in 0 .. Content /\ bytes_read <= BufCells
         /\ user_date_t \in [0 .. Entries - 1 -> [Field -> Cell \cup {Spoilt}]]
         /\ starts \in 0 .. MaxStarts[page]

Bounds == InBuffer /\ FieldPerCell /\ SpoiltByOverrun

ServiceCore == Types /\ Bounds /\ DetachedMeansDone

-----------------------------------------------------------------------------
\* What the page and its cells are.
LEMMA PageIs ==
    ASSUME page \in Pages
    PROVE  /\ Content \in Nat /\ Content > 0
           /\ page \in Seq(Cell) /\ NoCell \in Cell /\ Cut \in Cell
<1>1. page # <<>> /\ page \in Seq({page[i] : i \in DOMAIN page})
  BY PageAssumption
<1>2. page \in Seq(Cell)
  BY <1>1 DEF Cell
<1>3. Len(page) \in Nat /\ Len(page) > 0
  BY <1>1
<1> QED BY <1>2, <1>3 DEF Cell, Content

\* Before a cell is filed user_num is less than its largest value, and when it
\* is past the table the page is longer than the table.
LEMMA UserIs ==
    ASSUME Types, FieldPerCell, NEW f \in Fetch, index[f] < bytes_read
    PROVE  /\ user_num[f] \in Nat /\ j[f] \in 1 .. 5 /\ index[f] \in Nat /\ bytes_read \in Nat
           /\ NextUser(f) = IF j[f] = 5 THEN user_num[f] + 1 ELSE user_num[f]
           /\ NextUser(f) \in 0 .. 255
           /\ user_num[f] >= Entries => bytes_read > 5 * Entries /\ Content > 5 * Entries
           /\ user_num[f] < Entries => user_num[f] \in 0 .. Entries - 1
<1>1. BufCells \in 1 .. 204 /\ Entries \in Nat
  BY TableAssumption
<1>2. 5 * user_num[f] + j[f] <= index[f] + 1
  BY DEF FieldPerCell
<1>3. PICK c \in Nat : c = Content
  BY PageIs DEF Types
<1>4. /\ user_num[f] \in 0 .. 255 /\ j[f] \in 1 .. 5 /\ index[f] \in 0 .. c
      /\ bytes_read \in 0 .. c /\ bytes_read <= BufCells
  BY <1>3 DEF Types, Field
<1>5. PICK x \in Nat : x = index[f]
  BY <1>3, <1>4
<1>6. PICK u \in Nat : u = user_num[f]
  BY <1>4
<1>7. PICK g \in 1 .. 5 : g = j[f]
  BY <1>4
<1>8. PICK n \in Nat : n = bytes_read /\ n <= c /\ n <= 204 /\ x + 1 <= n
  BY <1>1, <1>3, <1>4, <1>5
<1>9. 5 * u + g <= x + 1
  BY <1>2, <1>5, <1>6, <1>7
<1>10. u + 1 <= 255 /\ (u >= Entries => n > 5 * Entries /\ c > 5 * Entries)
  BY <1>1, <1>8, <1>9
<1>11. (u + 1) % 256 = u + 1
  BY <1>10
<1>12. NextUser(f) = IF g = 5 THEN u + 1 ELSE u
  BY <1>6, <1>7, <1>11 DEF NextUser
<1>13. NextUser(f) \in 0 .. 255
  BY <1>10, <1>12
<1>14. u < Entries => u \in 0 .. Entries - 1
  BY <1>1
<1> QED BY <1>3, <1>4, <1>5, <1>6, <1>7, <1>8, <1>10, <1>12, <1>13, <1>14

\* What is in the buffer is no spoilt field.
LEMMA HereIs ==
    ASSUME Types, NEW f \in Fetch
    PROVE  Here(f) \in Cell /\ Here(f) # Spoilt
<1>1. buffer[f] \in Seq(Cell) /\ index[f] \in Nat
  BY PageIs DEF Types
<1>2. Here(f) \in Cell
  BY <1>1, PageIs DEF Here, Types
<1>3. Spoilt \notin Cell
  BY SpoiltAssumption DEF Cell, Types
<1> QED BY <1>2, <1>3

\* The three things that can happen to the table.
LEMMA TableAfterIs ==
    ASSUME Types, FieldPerCell, NEW f \in Fetch, index[f] < bytes_read,
           NEW t \in TableAfter(f)
    PROVE  \/ /\ user_num[f] \in 0 .. Entries - 1
              /\ t = [user_date_t EXCEPT ![user_num[f]][j[f]] = Here(f)]
           \/ user_num[f] >= Entries /\ t = user_date_t
           \/ /\ user_num[f] >= Entries
              /\ \E g \in Field : t = [user_date_t EXCEPT ![0][g] = Spoilt]
<1>1. Entries \in Nat /\ user_num[f] \in Nat
  BY UserIs, TableAssumption
<1>2. CASE user_num[f] < Entries
  BY <1>2, UserIs DEF TableAfter
<1>3. CASE ~ (user_num[f] < Entries)
  BY <1>1, <1>3 DEF TableAfter
<1> QED BY <1>2, <1>3

\* The table keeps its type, and is spoilt only as SpoiltByOverrun says.
LEMMA TableKept ==
    ASSUME Types, FieldPerCell, SpoiltByOverrun, NEW f \in Fetch, index[f] < bytes_read,
           NEW t \in TableAfter(f)
    PROVE  /\ t \in [0 .. Entries - 1 -> [Field -> Cell \cup {Spoilt}]]
           /\ \A u \in 0 .. Entries - 1, g \in Field :
                 t[u][g] = Spoilt => u = 0 /\ Content > 5 * Entries
<1>1. PICK T : T = [0 .. Entries - 1 -> [Field -> Cell \cup {Spoilt}]]  OBVIOUS
<1>2. user_date_t \in [0 .. Entries - 1 -> [Field -> Cell \cup {Spoilt}]]
  BY DEF Types
<1>3. \A u \in 0 .. Entries - 1, g \in Field :
         user_date_t[u][g] = Spoilt => u = 0 /\ Content > 5 * Entries
  BY DEF SpoiltByOverrun
<1>4. j[f] \in Field /\ Here(f) \in Cell /\ Here(f) # Spoilt
  BY HereIs DEF Types
<1>5. user_num[f] >= Entries => Content > 5 * Entries
  BY UserIs
<1>6. 0 \in 0 .. Entries - 1
  BY TableAssumption
<1> HIDE DEF Field
<1>7. CASE /\ user_num[f] \in 0 .. Entries - 1
           /\ t = [user_date_t EXCEPT ![user_num[f]][j[f]] = Here(f)]
  <2>1. PICK y \in Cell : y = Here(f) /\ y # Spoilt
    BY <1>4
  <2>2. PICK v \in 0 .. Entries - 1 : v = user_num[f]
    BY <1>7
  <2>3. PICK h \in Field : h = j[f]
    BY <1>4
  <2>4. t = [user_date_t EXCEPT ![v][h] = y]
    BY <1>7, <2>1, <2>2, <2>3
  <2>5. t \in [0 .. Entries - 1 -> [Field -> Cell \cup {Spoilt}]]
    BY <1>2, <2>4
  <2>6. \A u \in 0 .. Entries - 1, g \in Field : t[u][g] = Spoilt => user_date_t[u][g] = Spoilt
    BY <1>2, <2>1, <2>4
  <2> QED BY <1>3, <2>5, <2>6
<1>8. CASE user_num[f] >= Entries /\ t = user_date_t
  BY <1>2, <1>3, <1>8
<1>9. CASE user_num[f] >= Entries /\ \E g \in Field : t = [user_date_t EXCEPT ![0][g] = Spoilt]
  <2>1. PICK h \in Field : t = [user_date_t EXCEPT ![0][h] = Spoilt]
    BY <1>9
  <2>2. t \in [0 .. Entries - 1 -> [Field -> Cell \cup {Spoilt}]]
    BY <1>2, <1>6, <2>1
  <2>3. \A u \in 0 .. Entries - 1, g \in Field : u # 0 => t[u][g] = user_date_t[u][g]
    BY <1>2, <1>6, <2>1
  <2> QED BY <1>3, <1>5, <1>9, <2>2, <2>3
<1> QED BY <1>7, <1>8, <1>9, TableAfterIs

\* The mailbox keeps its type and its bound when something is mailed.
LEMMA MailedFits ==
    ASSUME Types, NEW m \in {"table", "len", "buffer", "over"}
    PROVE  Mailed(m) \in Seq({"table", "len", "buffer", "over"}) /\ Len(Mailed(m)) <= MbSize
<1> PICK q : q = mb  OBVIOUS
<1>1. q \in Seq({"table", "len", "buffer", "over"}) /\ Len(q) <= MbSize /\ MbSize \in Nat
  BY SizeAssumption DEF Types
<1>2. Append(q, m) \in Seq({"table", "len", "buffer", "over"}) /\ Len(Append(q, m)) = Len(q) + 1
  BY <1>1
<1>3. Len(q) \in Nat
  BY <1>1
<1> QED BY <1>1, <1>2, <1>3 DEF Mailed

\* What a read leaves in the buffer.
LEMMA FilledIs ==
    ASSUME Types, NEW f \in Fetch, NEW n \in 1 .. Len(unread[f]), NEW last \in LastCells(f, n)
    PROVE  /\ Filled(f, n, last) \in Seq(Cell)
           /\ SubSeq(unread[f], n + 1, Len(unread[f])) \in Seq(Cell)
           /\ Len(Filled(f, n, last)) \in Nat /\ Len(Filled(f, n, last)) >= n
           /\ \A m \in Nat : n <= m /\ Len(buffer[f]) <= m => Len(Filled(f, n, last)) <= m
<1> PICK u : u = unread[f]  OBVIOUS
<1> PICK b : b = buffer[f]  OBVIOUS
<1>1. u \in Seq(Cell) /\ b \in Seq(Cell)
  BY DEF Types
<1>2. /\ Len(u) \in Nat /\ Len(b) \in Nat /\ n \in 1 .. Len(u)
      /\ \A i \in 1 .. Len(u) : u[i] \in Cell
      /\ \A i \in 1 .. Len(b) : b[i] \in Cell
  BY <1>1
<1>3. last \in Cell
  BY <1>2, PageIs DEF LastCells, Types
<1> PICK m : m = IF n > Len(b) THEN n ELSE Len(b)  OBVIOUS
<1>4. m \in Nat /\ \A i \in 1 .. m : i > n => i \in 1 .. Len(b)
  BY <1>2
<1>5. \A i \in 1 .. m : (IF i < n THEN u[i] ELSE IF i = n THEN last ELSE b[i]) \in Cell
  BY <1>2, <1>3, <1>4
<1>6. Filled(f, n, last) = [i \in 1 .. m |-> IF i < n THEN u[i] ELSE IF i = n THEN last ELSE b[i]]
  BY DEF Filled
<1>7. Filled(f, n, last) \in Seq(Cell)
  BY <1>4, <1>5, <1>6
<1>8. SubSeq(u, n + 1, Len(u)) \in Seq(Cell)
  BY <1>1, <1>2
<1>9. Len(Filled(f, n, last)) = m
  BY <1>4, <1>6
<1>10. m >= n /\ \A k \in Nat : n <= k /\ Len(b) <= k => m <= k
  BY <1>2
<1> QED BY <1>4, <1>7, <1>8, <1>9, <1>10

\* The page does not change, and so neither do its cells and its length.
LEMMA PageKept ==
    ASSUME page' = page
    PROVE  Cell' = Cell /\ Content' = Content
BY DEF Cell, Content

\* Steps that do not touch buffer, counters and table keep their bounds.
LEMMA BoundsKept ==
    ASSUME Bounds, UNCHANGED <<page, buffer, index, j, user_num, user_date_t>>
    PROVE  Bounds'
BY PageKept DEF Bounds, InBuffer, FieldPerCell, SpoiltByOverrun

-----------------------------------------------------------------------------
(* The invariant of the service.                                           *)

\* A step that only moves the program counters, the mailbox and the flags.
LEMMA ServiceSend ==
    ASSUME ServiceCore, NEW f \in Fetch, NEW from, NEW m \in {"table", "len", "buffer", "over"},
           NEW to \in Pc, Send(f, from, m, to)
    PROVE  ServiceCore'
<1>1. /\ UNCHANGED <<page, attached, frozen, thread1, unread, content_pos, buffer, index, j,
                     user_num, user_date_t, bytes_read, user_date_flag, starts>>
      /\ fetch' = [fetch EXCEPT ![f] = IF attached THEN to ELSE "assert"]
      /\ mb' = IF attached THEN Mailed(m) ELSE mb
  BY DEF Send, Step, parser
<1>2. fetch' \in [Fetch -> Pc]
  BY <1>1 DEF ServiceCore, Types, Pc
<1>3. mb' \in Seq({"table", "len", "buffer", "over"}) /\ Len(mb') <= MbSize
  BY <1>1, MailedFits DEF ServiceCore, Types
<1>4. Types'
  BY <1>1, <1>2, <1>3, PageKept DEF ServiceCore, Types
<1> QED BY <1>1, <1>4, BoundsKept DEF ServiceCore, DetachedMeansDone

\* The shell command keeps the service invariant.
LEMMA ServiceStart ==
    ASSUME ServiceCore, Start
    PROVE  ServiceCore'
<1>1. UNCHANGED <<page, unread, content_pos, buffer, index, j, user_num, user_date_t,
                  bytes_read, user_date_flag>>
  BY DEF Start, parser
<1>2. fetch' \in [Fetch -> Pc]
  <2>1. fetch' = fetch \/ \E f \in Fetch : fetch' = [fetch EXCEPT ![f] = "get"]
    BY DEF Start
  <2>2. fetch \in [Fetch -> Pc] /\ "get" \in Pc
    BY DEF ServiceCore, Types, Pc
  <2> QED BY <2>1, <2>2
<1>3. mb' \in Seq({"table", "len", "buffer", "over"}) /\ Len(mb') <= MbSize
  <2>1. mb' = mb \/ mb' = <<>>
    BY DEF Start
  <2>2. <<>> \in Seq({"table", "len", "buffer", "over"}) /\ Len(<<>>) = 0
    OBVIOUS
  <2>3. MbSize >= 0
    BY SizeAssumption
  <2> QED BY <2>1, <2>2, <2>3 DEF ServiceCore, Types
<1>4. /\ attached' \in BOOLEAN /\ frozen' \in BOOLEAN /\ attached'
      /\ thread1' \in {"none", "recv", "delay", "detach"}
  BY DEF Start, ServiceCore, Types
<1>5. MaxStarts[page] \in Nat
  BY SizeAssumption DEF ServiceCore, Types
<1>6. starts' \in 0 .. MaxStarts[page]
  BY <1>5 DEF Start, ServiceCore, Types
<1>7. Types'
  BY <1>1, <1>2, <1>3, <1>4, <1>6, PageKept DEF ServiceCore, Types
<1> QED BY <1>1, <1>4, <1>7, BoundsKept DEF ServiceCore, DetachedMeansDone

\* A step of the consumer keeps it.
LEMMA ServiceThread1 ==
    ASSUME ServiceCore, Thread1
    PROVE  ServiceCore'
<1>1. UNCHANGED <<page, frozen, fetch, unread, content_pos, buffer, index, j, user_num,
                  user_date_t, bytes_read, user_date_flag, starts>>
  BY DEF Thread1, Thread1Recv, Thread1Delay, Thread1Detach, parser
<1>2. mb' \in Seq({"table", "len", "buffer", "over"}) /\ Len(mb') <= MbSize
  <2>1. mb' = mb \/ (mb # <<>> /\ mb' = Tail(mb))
    BY DEF Thread1, Thread1Recv, Thread1Delay, Thread1Detach
  <2>2. ASSUME NEW q \in Seq({"table", "len", "buffer", "over"}), Len(q) <= MbSize, q # <<>>
        PROVE  Tail(q) \in Seq({"table", "len", "buffer", "over"}) /\ Len(Tail(q)) <= MbSize
    BY <2>2, SizeAssumption
  <2> QED BY <2>1, <2>2 DEF ServiceCore, Types
<1>3. /\ attached' \in BOOLEAN /\ thread1' \in {"none", "recv", "delay", "detach"}
      /\ ~ attached' => thread1' = "none"
  BY DEF Thread1, Thread1Recv, Thread1Delay, Thread1Detach, Step1, AfterDetach,
         ServiceCore, Types, DetachedMeansDone
<1>4. Types'
  BY <1>1, <1>2, <1>3, PageKept DEF ServiceCore, Types
<1> QED BY <1>1, <1>3, <1>4, BoundsKept DEF ServiceCore, DetachedMeansDone

\* A request that succeeds or fails keeps it.
LEMMA ServiceGet ==
    ASSUME ServiceCore, NEW f \in Fetch, Get(f)
    PROVE  ServiceCore'
<1>1. /\ UNCHANGED <<page, attached, mb, frozen, thread1, index, j, user_num, user_date_t,
                     bytes_read, user_date_flag, starts>>
      /\ unread' = [unread EXCEPT ![f] = page]
      /\ content_pos' = [content_pos EXCEPT ![f] = 0]
      /\ buffer' = [buffer EXCEPT ![f] = <<>>]
  BY DEF Get
<1>2. fetch' \in [Fetch -> Pc]
  BY DEF Get, Step, ServiceCore, Types, Pc
<1>3. page \in Seq(Cell) /\ <<>> \in Seq(Cell)
  BY PageIs DEF ServiceCore, Types
<1>4. unread' \in [Fetch -> Seq(Cell)] /\ buffer' \in [Fetch -> Seq(Cell)]
  BY <1>1, <1>3 DEF ServiceCore, Types
<1>5. content_pos' \in [Fetch -> Nat]
  BY <1>1 DEF ServiceCore, Types
<1>6. Types'
  BY <1>1, <1>2, <1>4, <1>5, PageKept DEF ServiceCore, Types
<1>7. Bounds'
  <2>1. FieldPerCell' /\ SpoiltByOverrun'
    BY <1>1, PageKept DEF ServiceCore, Bounds, FieldPerCell, SpoiltByOverrun
  <2>2. Len(<<>>) = 0 /\ BufCells \in Nat
    BY TableAssumption
  <2>3. InBuffer'
    BY <1>1, <2>2 DEF ServiceCore, Bounds, InBuffer, Types
  <2> QED BY <2>1, <2>3 DEF Bounds
<1> QED BY <1>1, <1>6, <1>7 DEF ServiceCore, DetachedMeansDone

\* A read of any part of the page, or a failing one, keeps it.
LEMMA ServiceRead ==
    ASSUME ServiceCore, NEW f \in Fetch, Read(f)
    PROVE  ServiceCore'
<1>1. /\ UNCHANGED <<page, attached, mb, frozen, thread1, content_pos, user_date_t,
                     user_date_flag, starts>>
      /\ index' = [index EXCEPT ![f] = 0]
      /\ j' = [j EXCEPT ![f] = 1]
      /\ user_num' = [user_num EXCEPT ![f] = 0]
      /\ fetch' = [fetch EXCEPT ![f] = "parse"]
  BY DEF Read, Step, FirstUser
<1>2. PICK n \in 1 .. Len(unread[f]) :
         /\ n <= AskFor(f)
         /\ \E last \in LastCells(f, n) : buffer' = [buffer EXCEPT ![f] = Filled(f, n, last)]
         /\ bytes_read' = n
         /\ unread' = [unread EXCEPT ![f] = SubSeq(unread[f], n + 1, Len(unread[f]))]
  BY DEF Read
<1>3. PICK last \in LastCells(f, n) : buffer' = [buffer EXCEPT ![f] = Filled(f, n, last)]
  BY <1>2
<1>4. Types
  BY DEF ServiceCore
<1>5. /\ Filled(f, n, last) \in Seq(Cell)
      /\ SubSeq(unread[f], n + 1, Len(unread[f])) \in Seq(Cell)
      /\ \A m \in Nat : n <= m /\ Len(buffer[f]) <= m => Len(Filled(f, n, last)) <= m
  BY <1>4, FilledIs
<1>6. unread' \in [Fetch -> Seq(Cell)] /\ buffer' \in [Fetch -> Seq(Cell)]
  BY <1>2, <1>3, <1>4, <1>5 DEF Types
<1>7. Content \in Nat /\ content_pos[f] \in Nat /\ BufCells \in Nat
  BY <1>4, PageIs, TableAssumption DEF Types
<1>8. n \in Nat /\ bytes_read' \in 0 .. Content /\ bytes_read' <= BufCells
  <2>1. unread[f] \in Seq(Cell)
    BY <1>4 DEF Types
  <2>2. Len(unread[f]) \in Nat
    BY <2>1
  <2> QED BY <1>2, <1>7, <2>2 DEF AskFor
<1>9. /\ fetch' \in [Fetch -> Pc] /\ index' \in [Fetch -> 0 .. Content] /\ j' \in [Fetch -> Field]
      /\ user_num' \in [Fetch -> 0 .. 255]
  BY <1>1, <1>4, <1>7 DEF Types, Pc, Field
<1>10. Types'
  BY <1>1, <1>4, <1>6, <1>8, <1>9, PageKept DEF Types
<1>11. FieldPerCell'
  BY <1>1, <1>4 DEF ServiceCore, Bounds, FieldPerCell, Types
<1>12. InBuffer'
  <2> SUFFICES ASSUME NEW g \in Fetch
               PROVE  Len(buffer'[g]) <= BufCells /\ index'[g] <= BufCells
    BY DEF InBuffer
  <2>1. Len(buffer[g]) <= BufCells /\ index[g] <= BufCells /\ Len(buffer[f]) <= BufCells
    BY DEF ServiceCore, Bounds, InBuffer
  <2>2. n <= BufCells
    BY <1>2, <1>8
  <2>3. Len(Filled(f, n, last)) <= BufCells
    BY <1>5, <1>7, <2>1, <2>2
  <2> QED BY <1>1, <1>3, <1>4, <1>7, <2>1, <2>3 DEF Types
<1>13. SpoiltByOverrun'
  BY <1>1, PageKept DEF ServiceCore, Bounds, SpoiltByOverrun
<1> QED BY <1>1, <1>10, <1>11, <1>12, <1>13 DEF ServiceCore, Bounds, DetachedMeansDone

\* A parsed cell keeps it.
LEMMA ServiceParseCell ==
    ASSUME ServiceCore, NEW f \in Fetch, ParseCell(f)
    PROVE  ServiceCore'
<1>1. /\ UNCHANGED <<page, attached, mb, frozen, thread1, unread, content_pos, buffer,
                     bytes_read, user_date_flag, starts>>
      /\ index[f] < bytes_read
      /\ index' = [index EXCEPT ![f] = index[f] + 1]
      /\ fetch' = [fetch EXCEPT ![f] = "parse"]
      /\ \/ /\ Here(f) # NoCell
            /\ user_date_t' \in TableAfter(f)
            /\ j' = [j EXCEPT ![f] = NextField(j[f])]
            /\ user_num' = [user_num EXCEPT ![f] = NextUser(f)]
         \/ UNCHANGED <<user_date_t, j, user_num>>
  BY DEF ParseCell, Step, NextIndex
<1>2. Types /\ FieldPerCell /\ SpoiltByOverrun /\ InBuffer
  BY DEF ServiceCore, Bounds
<1>3. Content \in Nat
  BY <1>2, PageIs DEF Types
<1>4. fetch' \in [Fetch -> Pc] /\ index' \in [Fetch -> 0 .. Content]
  BY <1>1, <1>2, <1>3 DEF Types, Pc
<1>5. j[f] \in 1 .. 5 /\ NextField(j[f]) \in 1 .. 5
  BY <1>2 DEF Types, Field, NextField
<1>6. NextUser(f) = (IF j[f] = 5 THEN user_num[f] + 1 ELSE user_num[f]) /\ NextUser(f) \in 0 .. 255
  BY <1>1, <1>2, UserIs
<1>7. j' \in [Fetch -> Field] /\ user_num' \in [Fetch -> 0 .. 255]
  <2>1. PICK u \in 0 .. 255 : u = NextUser(f)
    BY <1>6
  <2>2. PICK g \in Field : g = NextField(j[f])
    BY <1>5 DEF Field
  <2>3. /\ j' = j \/ j' = [j EXCEPT ![f] = g]
        /\ user_num' = user_num \/ user_num' = [user_num EXCEPT ![f] = u]
    BY <1>1, <2>1, <2>2
  <2>4. j \in [Fetch -> Field] /\ user_num \in [Fetch -> 0 .. 255]
    BY <1>2 DEF Types
  <2> QED BY <2>3, <2>4
<1>8. /\ user_date_t' \in [0 .. Entries - 1 -> [Field -> Cell \cup {Spoilt}]]
      /\ \A u \in 0 .. Entries - 1, g \in Field :
            user_date_t'[u][g] = Spoilt => u = 0 /\ Content > 5 * Entries
  <2>1. CASE user_date_t' \in TableAfter(f)
    BY <1>1, <1>2, <2>1, TableKept
  <2>2. CASE user_date_t' = user_date_t
    BY <1>2, <2>2 DEF Types, SpoiltByOverrun
  <2> QED BY <1>1, <2>1, <2>2
<1>9. SpoiltByOverrun'
  BY <1>1, <1>8, PageKept DEF SpoiltByOverrun
<1>10. Types'
  BY <1>1, <1>2, <1>4, <1>7, <1>8, PageKept DEF Types
<1>11. FieldPerCell'
  <2> SUFFICES ASSUME NEW g \in Fetch
               PROVE  5 * user_num'[g] + j'[g] <= index'[g] + 1
    BY DEF FieldPerCell
  <2>1. 5 * user_num[g] + j[g] <= index[g] + 1
    BY <1>2 DEF FieldPerCell
  <2>2. /\ user_num[g] \in Nat /\ j[g] \in 1 .. 5 /\ index[g] \in Nat
        /\ f \in DOMAIN user_num /\ f \in DOMAIN j /\ f \in DOMAIN index
    <3>1. user_num[g] \in 0 .. 255 /\ j[g] \in 1 .. 5 /\ index[g] \in 0 .. Content
      BY <1>2 DEF Types, Field
    <3>2. f \in DOMAIN user_num /\ f \in DOMAIN j /\ f \in DOMAIN index
      BY <1>2 DEF Types
    <3> QED BY <1>3, <3>1, <3>2
  <2>3. CASE g # f
    BY <1>1, <1>2, <2>1, <2>3 DEF Types
  <2>4. CASE g = f
    <3>1. index'[f] = index[f] + 1
      BY <1>1, <2>2
    <3>2. CASE UNCHANGED <<j, user_num>>
      BY <2>1, <2>2, <2>4, <3>1, <3>2
    <3>3. CASE /\ j' = [j EXCEPT ![f] = NextField(j[f])]
               /\ user_num' = [user_num EXCEPT ![f] = NextUser(f)]
      <4>1. /\ j'[f] = NextField(j[f])
            /\ user_num'[f] = IF j[f] = 5 THEN user_num[f] + 1 ELSE user_num[f]
        BY <1>6, <2>2, <3>3
      <4> QED BY <2>1, <2>2, <2>4, <3>1, <4>1 DEF NextField
    <3> QED BY <1>1, <3>2, <3>3
  <2> QED BY <2>3, <2>4
<1>12. InBuffer'
  <2> SUFFICES ASSUME NEW g \in Fetch
               PROVE  Len(buffer'[g]) <= BufCells /\ index'[g] <= BufCells
    BY DEF InBuffer
  <2>1. Len(buffer[g]) <= BufCells /\ index[g] <= BufCells
    BY <1>2 DEF InBuffer
  <2>2. bytes_read \in Nat /\ bytes_read <= BufCells /\ BufCells \in Nat /\ index[f] \in Nat
    BY <1>2, <1>3, TableAssumption DEF Types
  <2>3. index[f] + 1 <= BufCells
    BY <1>1, <2>2
  <2> QED BY <1>1, <1>2, <2>1, <2>3 DEF Types
<1> QED BY <1>1, <1>9, <1>10, <1>11, <1>12 DEF ServiceCore, Bounds, DetachedMeansDone

\* A failing read and the steps between two reads keep it.
LEMMA ServiceRest ==
    ASSUME ServiceCore, NEW f \in Fetch,
           ReadFails(f) \/ ParseEnd(f) \/ ChunkRead(f) \/ ReadNext(f)
    PROVE  ServiceCore'
<1>1. Types /\ Content \in Nat /\ Content > 0
  BY PageIs DEF ServiceCore, Types
<1>2. /\ UNCHANGED <<page, attached, mb, frozen, thread1, buffer, index, j, user_num,
                     user_date_t, starts>>
      /\ user_date_flag' \in {user_date_flag, TRUE}
      /\ bytes_read' \in {bytes_read, 0, 1}
  BY DEF ReadFails, ParseEnd, ChunkRead, ReadNext, parser
<1>3. fetch' \in [Fetch -> Pc]
  BY <1>1 DEF ReadFails, ParseEnd, ChunkRead, ReadNext, Step, Types, Pc
<1>4. unread' \in [Fetch -> Seq(Cell)]
  <2>1. unread' = unread \/ (unread[f] # <<>> /\ unread' = [unread EXCEPT ![f] = Tail(unread[f])])
    BY DEF ReadFails, ParseEnd, ChunkRead, ReadNext
  <2>2. ASSUME NEW q \in Seq(Cell), q # <<>>
        PROVE  Tail(q) \in Seq(Cell)
    BY <2>2
  <2>3. unread \in [Fetch -> Seq(Cell)]
    BY <1>1 DEF Types
  <2>4. CASE unread[f] # <<>> /\ unread' = [unread EXCEPT ![f] = Tail(unread[f])]
    <3>1. PICK t \in Seq(Cell) : t = Tail(unread[f])
      BY <2>2, <2>3, <2>4
    <3> QED BY <2>3, <2>4, <3>1
  <2> QED BY <2>1, <2>3, <2>4
<1>5. content_pos' \in [Fetch -> Nat]
  <2>1. /\ content_pos \in [Fetch -> Nat] /\ bytes_read \in Nat
    BY <1>1 DEF Types
  <2>2. content_pos' = content_pos
        \/ content_pos' = [content_pos EXCEPT ![f] = content_pos[f] + bytes_read]
    BY DEF ReadFails, ParseEnd, ChunkRead, ReadNext
  <2> QED BY <2>1, <2>2
<1>6. bytes_read' \in 0 .. Content /\ bytes_read' <= BufCells
  BY <1>1, <1>2, TableAssumption DEF Types
<1>7. Types'
  BY <1>1, <1>2, <1>3, <1>4, <1>5, <1>6, PageKept DEF Types
<1> QED BY <1>2, <1>7, BoundsKept DEF ServiceCore, DetachedMeansDone

\* Every step of the service keeps the invariant.
LEMMA ServiceNext ==
    ASSUME ServiceCore, [Next]_vars
    PROVE  ServiceCore'
<1>1. CASE Start
  BY <1>1, ServiceStart
<1>2. CASE Thread1
  BY <1>2, ServiceThread1
<1>3. ASSUME NEW f \in Fetch, Thread2(f)
      PROVE  ServiceCore'
  <2>1. CASE Get(f)
    BY <2>1, ServiceGet
  <2>2. CASE Read(f)
    BY <2>2, ServiceRead
  <2>3. CASE ParseCell(f)
    BY <2>3, ServiceParseCell
  <2>4. CASE ReadFails(f) \/ ParseEnd(f) \/ ChunkRead(f) \/ ReadNext(f)
    BY <2>4, ServiceRest
  <2>5. CASE SendTable(f)
    BY <2>5, ServiceSend DEF SendTable, Pc
  <2>6. CASE SendLen(f)
    BY <2>6, ServiceSend DEF SendLen, Pc
  <2>7. CASE SendOver(f)
    BY <2>7, ServiceSend DEF SendOver, Pc
  <2>8. CASE ChunkSend(f)
    BY <2>8, ServiceSend DEF ChunkSend, Pc
  <2> QED BY <1>3, <2>1, <2>2, <2>3, <2>4, <2>5, <2>6, <2>7, <2>8 DEF Thread2
<1>4. CASE UNCHANGED vars
  <2>1. UNCHANGED <<page, attached, mb, frozen, thread1, fetch, unread, content_pos, buffer,
                    index, j, user_num, user_date_t, bytes_read, user_date_flag, starts>>
    BY <1>4 DEF vars, parser
  <2>2. Types'
    BY <2>1, PageKept DEF ServiceCore, Types
  <2> QED BY <2>1, <2>2, BoundsKept DEF ServiceCore, DetachedMeansDone
<1> QED BY <1>1, <1>2, <1>3, <1>4 DEF Next

\* It holds in the beginning.
LEMMA ServiceInit == Init => ServiceCore
<1> SUFFICES ASSUME Init PROVE ServiceCore
  OBVIOUS
<1>1. page \in Pages
  BY DEF Init
<1>2. Content \in Nat /\ NoCell \in Cell /\ Cut \in Cell
  BY <1>1, PageIs
<1>3. MaxStarts[page] \in Nat /\ MbSize \in Nat
  BY <1>1, SizeAssumption
<1>4. <<>> \in Seq(Cell) /\ <<>> \in Seq({"table", "len", "buffer", "over"}) /\ Len(<<>>) = 0
  OBVIOUS
<1>5. /\ unread \in [Fetch -> Seq(Cell)] /\ buffer \in [Fetch -> Seq(Cell)]
      /\ mb \in Seq({"table", "len", "buffer", "over"}) /\ Len(mb) <= MbSize
  BY <1>3, <1>4 DEF Init
<1>6. /\ Blank \in [0 .. Entries - 1 -> [Field -> Cell \cup {Spoilt}]]
      /\ \A u \in 0 .. Entries - 1, g \in Field : Blank[u][g] # Spoilt
  BY <1>2, SpoiltAssumption DEF Blank
<1>7. /\ index \in [Fetch -> 0 .. Content] /\ j \in [Fetch -> Field]
      /\ user_num \in [Fetch -> 0 .. 255] /\ content_pos \in [Fetch -> Nat]
      /\ bytes_read \in 0 .. Content /\ bytes_read <= BufCells /\ starts \in 0 .. MaxStarts[page]
  BY <1>2, <1>3, TableAssumption DEF Init, Field
<1>8. fetch \in [Fetch -> Pc]
  BY DEF Init, Pc
<1>9. Types
  BY <1>1, <1>5, <1>6, <1>7, <1>8 DEF Init, Types
<1>10. Bounds
  BY <1>4, <1>6, TableAssumption DEF Init, Bounds, InBuffer, FieldPerCell, SpoiltByOverrun
<1> QED BY <1>9, <1>10 DEF Init, ServiceCore, DetachedMeansDone

\* The inductive invariant implies what the runs check.
LEMMA ServiceIs == ServiceCore => ServiceInv
<1> SUFFICES ASSUME ServiceCore PROVE ServiceInv
  OBVIOUS
<1>1. TypeOK
  BY DEF ServiceCore, TypeOK, Types, Pc
<1> QED BY <1>1 DEF ServiceInv, ServiceCore, Bounds

\* For pages of any length, longer than the table too, and any number of
\* fetching threads that share bytes_read: the mailbox and the buffer never
\* hold more than they have room for, the byte user_num does not wrap and
\* leaves user_date_t only in a read of more cells than the table has fields,
\* what such a read spoils is the first user, and thread1 exists only while
\* its mailbox does, through restarts.
THEOREM FetchIsSound == Spec => []ServiceInv
<1>1. Init => ServiceCore
  BY ServiceInit
<1>2. ServiceCore /\ [Next]_vars => ServiceCore'
  BY ServiceNext
<1> QED BY <1>1, <1>2, ServiceIs, PTL DEF Spec

-----------------------------------------------------------------------------
(* The filing of a read.  While the command has been given once only one   *)
(* thread fetches, so that bytes_read, user_date_t and the parser are its  *)
(* own: what it has read and not read add up to the page, a first read of  *)
(* everything leaves the page in the buffer, the counters are those of the *)
(* cells before index that are not empty, and these are filed.             *)

OneFetch == /\ starts = 0 => \A f \in Fetch : fetch[f] = "none"
            /\ starts = 1 => \A f, g \in Fetch : fetch[f] # "none" /\ fetch[g] # "none" => f = g

HasRead == {"parse", "send_table", "send_len", "send_over", "next"}

BeforeRead(f) == /\ content_pos[f] + Len(unread[f]) = Content
                 /\ content_pos[f] = 0 => unread[f] = page /\ buffer[f] = <<>>

AfterRead(f) == /\ bytes_read >= 1 /\ index[f] <= bytes_read /\ bytes_read <= Len(buffer[f])
                /\ content_pos[f] + bytes_read + Len(unread[f]) = Content
                /\ fetch[f] # "parse" => index[f] >= bytes_read
                /\ content_pos[f] = 0 /\ unread[f] = <<>> => buffer[f] = page
                /\ Place(f, index[f]) + 1 = 5 * user_num[f] + j[f]
                /\ \A i \in 1 .. index[f] :
                      buffer[f][i] # NoCell => FiledAs(Place(f, i), buffer[f][i])

Filing == starts = 1 => \A f \in Fetch : /\ fetch[f] = "read" => BeforeRead(f)
                                         /\ fetch[f] \in HasRead => AfterRead(f)

FilingCore == OneFetch /\ Filing

\* Five fields per user: the place of a cell, and that no other cell has it.
LEMMA PlaceIs ==
    ASSUME NEW i \in Nat, i >= 1
    PROVE  /\ (i - 1) \div 5 \in Nat /\ ((i - 1) % 5) + 1 \in 1 .. 5
           /\ i = 5 * ((i - 1) \div 5) + ((i - 1) % 5) + 1
OBVIOUS

\* The user and the field of the cell with number i.
LEMMA PlaceOf ==
    ASSUME NEW u \in Nat, NEW g \in 1 .. 5, NEW i \in Nat, i = 5 * u + g
    PROVE  (i - 1) \div 5 = u /\ ((i - 1) % 5) + 1 = g
<1>1. i >= 1
  OBVIOUS
<1>2. PICK a \in Nat : a = (i - 1) \div 5
  BY <1>1, PlaceIs
<1>3. PICK b \in 1 .. 5 : b = ((i - 1) % 5) + 1
  BY <1>1, PlaceIs
<1>4. i = 5 * a + b
  BY <1>1, <1>2, <1>3, PlaceIs
<1>5. a = u /\ b = g
  BY <1>4
<1> QED BY <1>2, <1>3, <1>5

\* The count of the filled cells: one more for a cell that is not empty.
LEMMA PlaceSteps ==
    ASSUME NEW f \in Fetch, NEW n \in Nat
    PROVE  /\ Place(f, n) \in Nat
           /\ Place(f, 0) = 0
           /\ buffer[f][n + 1] # NoCell => Place(f, n + 1) = Place(f, n) + 1
           /\ buffer[f][n + 1] = NoCell => Place(f, n + 1) = Place(f, n)
           /\ \A i \in 1 .. n : /\ Place(f, i) \in Nat /\ Place(f, i) <= Place(f, n)
                                /\ buffer[f][i] # NoCell => Place(f, i) >= 1
<1> DEFINE S(k) == {x \in 1 .. k : buffer[f][x] # NoCell}
<1>1. ASSUME NEW k \in Nat PROVE IsFiniteSet(S(k)) /\ Cardinality(S(k)) \in Nat
  <2>1. IsFiniteSet(1 .. k)
    BY FS_Interval
  <2>2. S(k) \subseteq 1 .. k
    OBVIOUS
  <2>3. IsFiniteSet(S(k))
    BY <2>1, <2>2, FS_Subset
  <2> QED BY <2>3, FS_CardinalityType
<1>2. Cardinality(S(0)) = 0
  <2>1. S(0) = {}
    OBVIOUS
  <2> QED BY <2>1, FS_EmptySet
<1>3. ASSUME buffer[f][n + 1] # NoCell
      PROVE  Cardinality(S(n + 1)) = Cardinality(S(n)) + 1
  <2>1. S(n + 1) = S(n) \cup {n + 1}
    BY <1>3
  <2>2. n + 1 \notin S(n)
    OBVIOUS
  <2> HIDE DEF S
  <2> QED BY <1>1, <2>1, <2>2, FS_AddElement
<1>4. ASSUME buffer[f][n + 1] = NoCell
      PROVE  Cardinality(S(n + 1)) = Cardinality(S(n))
  <2>1. S(n + 1) = S(n)
    BY <1>4
  <2> QED BY <2>1
<1>5. ASSUME NEW i \in 1 .. n
      PROVE  /\ Cardinality(S(i)) \in Nat /\ Cardinality(S(i)) <= Cardinality(S(n))
             /\ buffer[f][i] # NoCell => Cardinality(S(i)) >= 1
  <2>1. i \in Nat /\ S(i) \subseteq S(n)
    OBVIOUS
  <2>2. buffer[f][i] # NoCell => i \in S(i)
    OBVIOUS
  <2> HIDE DEF S
  <2>3. Cardinality(S(i)) \in Nat /\ Cardinality(S(i)) <= Cardinality(S(n))
    BY <1>1, <2>1, FS_Subset
  <2>4. S(i) # {} => Cardinality(S(i)) # 0
    BY <1>1, <2>1, FS_EmptySet
  <2> QED BY <2>2, <2>3, <2>4
<1>6. \A k : Place(f, k) = Cardinality(S(k))
  BY DEF Place
<1> HIDE DEF S
<1> QED BY <1>1, <1>2, <1>3, <1>4, <1>5, <1>6

\* A filed cell stays filed when a later one is filed, or goes past the table.
LEMMA FiledStays ==
    ASSUME Types, FieldPerCell, NEW f \in Fetch, index[f] < bytes_read, bytes_read' = bytes_read,
           user_date_t' \in TableAfter(f),
           NEW m \in Nat, m >= 1, m < 5 * user_num[f] + j[f], NEW cell, FiledAs(m, cell)
    PROVE  FiledAs(m, cell)'
<1>1. PICK a \in Nat : a = (m - 1) \div 5
  BY PlaceIs
<1>2. PICK b \in 1 .. 5 : b = ((m - 1) % 5) + 1
  BY PlaceIs
<1>3. m = 5 * a + b
  BY <1>1, <1>2, PlaceIs
<1>4. /\ user_num[f] \in Nat /\ j[f] \in 1 .. 5 /\ Entries \in Nat \ {0}
      /\ user_num[f] >= Entries => bytes_read > 5 * Entries
  BY UserIs, TableAssumption
<1>5. FiledAs(m, cell) = \/ m > 5 * Entries
                         \/ user_date_t[a][b] = cell
                         \/ user_date_t[a][b] = Spoilt /\ m <= 5 /\ bytes_read > 5 * Entries
  BY <1>1, <1>2 DEF FiledAs
<1>6. FiledAs(m, cell)' = \/ m > 5 * Entries
                          \/ user_date_t'[a][b] = cell
                          \/ user_date_t'[a][b] = Spoilt /\ m <= 5 /\ bytes_read > 5 * Entries
  BY <1>1, <1>2 DEF FiledAs
<1>7. CASE m > 5 * Entries
  BY <1>6, <1>7
<1>8. CASE ~ (m > 5 * Entries)
  <2>1. a \in 0 .. Entries - 1 /\ b \in Field
    BY <1>3, <1>4, <1>8 DEF Field
  <2>2. ~ (a = user_num[f] /\ b = j[f])
    BY <1>3, <1>4
  <2>3. user_date_t \in [0 .. Entries - 1 -> [Field -> Cell \cup {Spoilt}]]
    BY DEF Types
  <2>4. CASE /\ user_num[f] \in 0 .. Entries - 1
             /\ user_date_t' = [user_date_t EXCEPT ![user_num[f]][j[f]] = Here(f)]
    <3> HIDE DEF Field
    <3>1. user_date_t'[a][b] = user_date_t[a][b]
      BY <2>1, <2>2, <2>3, <2>4
    <3> QED BY <1>5, <1>6, <3>1
  <2>5. CASE user_date_t' = user_date_t
    BY <1>5, <1>6, <2>5
  <2>6. CASE /\ user_num[f] >= Entries
             /\ \E g \in Field : user_date_t' = [user_date_t EXCEPT ![0][g] = Spoilt]
    <3>1. PICK g \in Field : user_date_t' = [user_date_t EXCEPT ![0][g] = Spoilt]
      BY <2>6
    <3>2. 0 \in 0 .. Entries - 1
      BY <1>4
    <3>3. CASE a = 0 /\ b = g
      <4>1. user_date_t'[a][b] = Spoilt
        BY <2>3, <3>1, <3>2, <3>3
      <4>2. m <= 5
        BY <1>3, <3>3
      <4> QED BY <1>4, <1>6, <2>6, <4>1, <4>2
    <3>4. CASE ~ (a = 0 /\ b = g)
      <4> HIDE DEF Field
      <4>1. user_date_t'[a][b] = user_date_t[a][b]
        BY <2>1, <2>3, <3>1, <3>2, <3>4
      <4> QED BY <1>5, <1>6, <4>1
    <3> QED BY <3>3, <3>4
  <2> QED BY <2>4, <2>5, <2>6, TableAfterIs
<1> QED BY <1>7, <1>8

\* The next cell goes to the place its number says.
LEMMA NextIsFiled ==
    ASSUME Types, FieldPerCell, NEW f \in Fetch, index[f] < bytes_read,
           user_date_t' \in TableAfter(f),
           NEW m \in Nat, m = 5 * user_num[f] + j[f], NEW c, c = Here(f)
    PROVE  FiledAs(m, c)'
<1>1. user_num[f] \in Nat /\ j[f] \in 1 .. 5 /\ Entries \in Nat \ {0}
  BY UserIs, TableAssumption
<1>2. (m - 1) \div 5 = user_num[f] /\ ((m - 1) % 5) + 1 = j[f]
  BY <1>1, PlaceOf
<1>3. CASE user_num[f] >= Entries
  <2>1. m > 5 * Entries
    BY <1>1, <1>3
  <2> QED BY <2>1 DEF FiledAs
<1>4. CASE ~ (user_num[f] >= Entries)
  <2>1. /\ user_num[f] \in 0 .. Entries - 1
        /\ user_date_t' = [user_date_t EXCEPT ![user_num[f]][j[f]] = Here(f)]
    BY <1>4, TableAfterIs
  <2>2. user_date_t \in [0 .. Entries - 1 -> [Field -> Cell \cup {Spoilt}]] /\ j[f] \in Field
    BY DEF Types
  <2>3. user_date_t'[user_num[f]][j[f]] = Here(f)
    BY <2>1, <2>2
  <2> QED BY <1>2, <2>3 DEF FiledAs
<1> QED BY <1>3, <1>4

\* The last cell of a read that takes everything is not cut.
LEMMA WholeRead ==
    ASSUME Types, NEW f \in Fetch, unread[f] = page, buffer[f] = <<>>,
           NEW last \in LastCells(f, Content)
    PROVE  Filled(f, Content, last) = page
<1>1. page \in Seq(Cell) /\ Content \in Nat /\ Content > 0 /\ Len(page) = Content
  BY PageIs DEF Types, Content
<1>2. last = page[Content]
  BY <1>1 DEF LastCells
<1>3. Len(<<>>) = 0
  OBVIOUS
<1>4. Filled(f, Content, last) =
         [i \in 1 .. Content |-> IF i < Content THEN page[i]
                                 ELSE IF i = Content THEN last ELSE buffer[f][i]]
  BY <1>1, <1>3 DEF Filled
<1>5. page = [i \in 1 .. Content |-> page[i]]
  BY <1>1
<1>6. ASSUME NEW i \in 1 .. Content
      PROVE  page[i] = IF i < Content THEN page[i]
                       ELSE IF i = Content THEN last ELSE buffer[f][i]
  BY <1>1, <1>2
<1> QED BY <1>4, <1>5, <1>6

\* The state of one thread, as Filing says it.
OneFiling(f) == /\ fetch[f] = "read" => BeforeRead(f)
                /\ fetch[f] \in HasRead => AfterRead(f)

\* A step of one thread: only its own part of Filing is left to show.
LEMMA FilingOfOne ==
    ASSUME Types, FilingCore, NEW f \in Fetch, fetch[f] # "none", starts' = starts,
           NEW to, fetch' = [fetch EXCEPT ![f] = to],
           starts = 1 => OneFiling(f)'
    PROVE  FilingCore'
<1>1. starts # 0
  BY DEF FilingCore, OneFetch
<1>2. \A g \in Fetch : starts = 1 /\ g # f => fetch[g] = "none" /\ fetch'[g] = "none"
  BY DEF FilingCore, OneFetch, Types
<1>3. OneFetch'
  BY <1>1, <1>2 DEF OneFetch
<1>4. Filing'
  BY <1>2 DEF Filing, OneFiling, HasRead
<1> QED BY <1>3, <1>4 DEF FilingCore

\* The shell command keeps what is filed.
LEMMA FilingStart ==
    ASSUME Types, FilingCore, Start
    PROVE  FilingCore'
<1>1. starts \in Nat /\ starts' = starts + 1
  BY DEF Types, Start
<1>2. CASE starts # 0
  BY <1>1, <1>2 DEF FilingCore, OneFetch, Filing
<1>3. CASE starts = 0
  <2>1. \A f \in Fetch : fetch[f] = "none"
    BY <1>3 DEF FilingCore, OneFetch
  <2>2. fetch' = fetch \/ \E f \in Fetch : fetch' = [fetch EXCEPT ![f] = "get"]
    BY DEF Start
  <2>3. \A f \in Fetch : fetch'[f] \in {"none", "get"}
    BY <2>1, <2>2 DEF Types
  <2>4. Filing'
    BY <2>3 DEF Filing, HasRead
  <2>5. OneFetch'
    BY <1>1, <1>3, <2>1, <2>2 DEF OneFetch, Types
  <2> QED BY <2>4, <2>5 DEF FilingCore
<1> QED BY <1>2, <1>3

\* Steps that leave the fetch threads alone keep what is filed.
LEMMA FilingKept ==
    ASSUME FilingCore, UNCHANGED <<page, fetch, unread, content_pos, buffer, index, j, user_num,
                                   user_date_t, bytes_read, starts>>
    PROVE  FilingCore'
<1>1. /\ \A f \in Fetch : BeforeRead(f)' = BeforeRead(f)
      /\ \A f \in Fetch : AfterRead(f)' = AfterRead(f)
  BY DEF BeforeRead, AfterRead, Place, FiledAs, Content
<1> QED BY <1>1 DEF FilingCore, OneFetch, Filing

\* A thread that goes on after its read without touching what it read.
LEMMA FilingGoesOn ==
    ASSUME Types, FilingCore, NEW f \in Fetch, fetch[f] \in HasRead \cup {"chunk", "send_buffer"},
           NEW to, fetch' = [fetch EXCEPT ![f] = to],
           to \in HasRead => fetch[f] \in HasRead /\ to # "parse",
           fetch[f] = "parse" => index[f] >= bytes_read,
           to # "read",
           UNCHANGED <<page, unread, content_pos, buffer, index, j, user_num, user_date_t,
                       bytes_read, starts>>
    PROVE  FilingCore'
<1>1. fetch[f] # "none" /\ fetch'[f] = to
  BY DEF HasRead, Types
<1>2. starts = 1 => OneFiling(f)'
  <2> SUFFICES ASSUME starts = 1, to \in HasRead PROVE AfterRead(f)'
    BY <1>1 DEF OneFiling
  <2>1. AfterRead(f)
    BY DEF FilingCore, Filing
  <2> QED BY <1>1, <2>1 DEF AfterRead, Place, FiledAs, Content
<1> QED BY <1>1, <1>2, FilingOfOne

\* A request keeps what is filed.
LEMMA FilingGet ==
    ASSUME Types, FilingCore, NEW f \in Fetch, Get(f)
    PROVE  FilingCore'
<1>1. PICK to \in {"none", "read", "chunk"} : Step(f, "get", to)
  BY DEF Get
<1>2. /\ fetch[f] = "get" /\ fetch' = [fetch EXCEPT ![f] = to] /\ fetch'[f] = to
      /\ starts' = starts /\ page' = page
      /\ unread'[f] = page /\ content_pos'[f] = 0 /\ buffer'[f] = <<>>
  BY <1>1 DEF Get, Step, Types
<1>3. Content \in Nat /\ Content' = Content /\ Len(page) = Content
  BY <1>2, PageIs, PageKept DEF Types, Content
<1>4. BeforeRead(f)'
  BY <1>2, <1>3 DEF BeforeRead
<1>5. OneFiling(f)'
  BY <1>2, <1>4 DEF OneFiling, HasRead
<1> QED BY <1>2, <1>5, FilingOfOne

\* A read that brings the whole page begins its filing.
LEMMA FilingRead ==
    ASSUME Types, FilingCore, NEW f \in Fetch, Read(f)
    PROVE  FilingCore'
<1>1. /\ fetch[f] = "read" /\ fetch' = [fetch EXCEPT ![f] = "parse"] /\ fetch'[f] = "parse"
      /\ starts' = starts /\ page' = page /\ content_pos' = content_pos
      /\ index'[f] = 0 /\ j'[f] = 1 /\ user_num'[f] = 0
  BY DEF Read, Step, FirstUser, Types
<1>2. PICK n \in 1 .. Len(unread[f]) :
         /\ \E last \in LastCells(f, n) : buffer' = [buffer EXCEPT ![f] = Filled(f, n, last)]
         /\ bytes_read' = n
         /\ unread' = [unread EXCEPT ![f] = SubSeq(unread[f], n + 1, Len(unread[f]))]
  BY DEF Read
<1>3. PICK last \in LastCells(f, n) : buffer' = [buffer EXCEPT ![f] = Filled(f, n, last)]
  BY <1>2
<1>4. unread'[f] = SubSeq(unread[f], n + 1, Len(unread[f])) /\ buffer'[f] = Filled(f, n, last)
  BY <1>2, <1>3 DEF Types
<1>5. Content \in Nat /\ Content' = Content /\ Len(page) = Content /\ content_pos[f] \in Nat
  BY <1>1, PageIs, PageKept DEF Types, Content
<1>6. /\ Len(unread[f]) \in Nat /\ n \in Nat /\ n >= 1
      /\ Len(unread'[f]) = Len(unread[f]) - n
  <2>1. unread[f] \in Seq(Cell)
    BY DEF Types
  <2>2. Len(unread[f]) \in Nat
    BY <2>1
  <2> QED BY <1>2, <1>4, <2>1, <2>2
<1>7. starts = 1 => OneFiling(f)'
  <2> SUFFICES ASSUME starts = 1 PROVE AfterRead(f)'
    BY <1>1 DEF OneFiling
  <2>1. BeforeRead(f)
    BY <1>1 DEF FilingCore, Filing
  <2>2. content_pos'[f] + bytes_read' + Len(unread'[f]) = Content'
    BY <1>1, <1>2, <1>5, <1>6, <2>1 DEF BeforeRead
  <2>3. ASSUME content_pos[f] = 0, unread'[f] = <<>>
        PROVE  buffer'[f] = page
    <3>1. unread[f] = page /\ buffer[f] = <<>>
      BY <2>1, <2>3 DEF BeforeRead
    <3>2. Len(<<>>) = 0
      OBVIOUS
    <3>3. n = Content
      BY <1>5, <1>6, <2>3, <3>1, <3>2
    <3> QED BY <1>4, <3>1, <3>3, WholeRead
  <2>4. \A i \in 1 .. index'[f] : FALSE
    BY <1>1
  <2>5. Len(buffer'[f]) \in Nat /\ bytes_read' <= Len(buffer'[f])
    BY <1>2, <1>4, FilledIs
  <2>6. Place(f, 0)' = 0
    <3>1. Place(f, 0)' = Cardinality({})
      BY DEF Place
    <3> QED BY <3>1, FS_EmptySet
  <2>7. Place(f, index[f])' = Place(f, 0)'
    BY <1>1 DEF Place
  <2> QED BY <1>1, <1>2, <1>6, <2>2, <2>3, <2>4, <2>5, <2>6, <2>7 DEF AfterRead
<1> QED BY <1>1, <1>7, FilingOfOne

\* A cell of the read goes to its own place.
LEMMA FilingParseCell ==
    ASSUME ServiceCore, FilingCore, NEW f \in Fetch, ParseCell(f)
    PROVE  FilingCore'
<1>1. Types /\ FieldPerCell
  BY DEF ServiceCore, Bounds
<1>2. /\ fetch[f] = "parse" /\ fetch' = [fetch EXCEPT ![f] = "parse"] /\ fetch'[f] = "parse"
      /\ UNCHANGED <<starts, page, content_pos, unread, buffer, bytes_read>>
      /\ index[f] < bytes_read
      /\ index'[f] = index[f] + 1
  BY <1>1 DEF ParseCell, Step, NextIndex, Types
<1>3. Content' = Content
  BY <1>2, PageKept
<1>4. /\ index[f] \in Nat /\ bytes_read \in Nat /\ j[f] \in 1 .. 5 /\ user_num[f] \in Nat
      /\ NextUser(f) = IF j[f] = 5 THEN user_num[f] + 1 ELSE user_num[f]
  BY <1>1, <1>2, UserIs
<1>5. starts = 1 => OneFiling(f)'
  <2> SUFFICES ASSUME starts = 1 PROVE AfterRead(f)'
    BY <1>2 DEF OneFiling
  <2>1. AfterRead(f)
    BY <1>2 DEF FilingCore, Filing, HasRead
  <2>2. PICK x \in Nat : x = index[f] + 1 /\ x = index'[f]
    BY <1>2, <1>4
  <2>3. Here(f) = buffer[f][x]
    <3>1. Len(buffer[f]) \in Nat
      <4>1. buffer[f] \in Seq(Cell)
        BY <1>1 DEF Types
      <4> QED BY <4>1
    <3> QED BY <1>2, <1>4, <2>1, <2>2, <3>1 DEF AfterRead, Here
  <2>4. \A i : Place(f, i)' = Place(f, i)
    BY <1>2 DEF Place
  <2>5. PICK p \in Nat : p = Place(f, index[f]) /\ p + 1 = 5 * user_num[f] + j[f]
    BY <1>4, <2>1, PlaceSteps DEF AfterRead
  <2>6. /\ buffer[f][x] # NoCell => Place(f, x) = p + 1
        /\ buffer[f][x] = NoCell => Place(f, x) = p
    BY <1>4, <2>2, <2>5, PlaceSteps
  <2>7. \A i \in 1 .. index[f] : /\ Place(f, i) \in Nat /\ Place(f, i) <= p
                                 /\ buffer[f][i] # NoCell => Place(f, i) >= 1
    BY <1>4, <2>5, PlaceSteps
  <2>8. \A i \in 1 .. index[f] : buffer[f][i] # NoCell => FiledAs(Place(f, i), buffer[f][i])
    BY <2>1 DEF AfterRead
  <2>9. \A i \in 1 .. x : i = x \/ i \in 1 .. index[f]
    BY <1>4, <2>2
  <2>10. /\ Place(f, x) + 1 = 5 * user_num'[f] + j'[f]
         /\ \A i \in 1 .. x : buffer[f][i] # NoCell => FiledAs(Place(f, i), buffer[f][i])'
    <3>1. CASE Here(f) = NoCell
      <4>1. UNCHANGED <<user_date_t, j, user_num>>
        BY <3>1 DEF ParseCell
      <4>2. \A m, c : FiledAs(m, c)' = FiledAs(m, c)
        BY <1>2, <4>1 DEF FiledAs
      <4>3. Place(f, x) + 1 = 5 * user_num'[f] + j'[f]
        BY <2>3, <2>5, <2>6, <3>1, <4>1
      <4>4. ASSUME NEW i \in 1 .. x, buffer[f][i] # NoCell
            PROVE  FiledAs(Place(f, i), buffer[f][i])'
        <5>1. i \in 1 .. index[f]
          BY <2>3, <2>9, <3>1, <4>4
        <5>2. FiledAs(Place(f, i), buffer[f][i])
          BY <2>8, <4>4, <5>1
        <5> QED BY <1>2, <2>4, <4>2, <5>2
      <4> QED BY <4>3, <4>4
    <3>2. CASE Here(f) # NoCell
      <4>1. /\ user_date_t' \in TableAfter(f)
            /\ j' = [j EXCEPT ![f] = NextField(j[f])]
            /\ user_num' = [user_num EXCEPT ![f] = NextUser(f)]
        BY <3>2 DEF ParseCell
      <4>2. j'[f] = NextField(j[f]) /\ user_num'[f] = NextUser(f)
        BY <1>1, <4>1 DEF Types
      <4>3. Place(f, x) = p + 1
        BY <2>3, <2>6, <3>2
      <4>4. Place(f, x) + 1 = 5 * user_num'[f] + j'[f]
        BY <1>4, <2>5, <4>2, <4>3 DEF NextField
      <4>5. PICK c : c = Here(f)
        OBVIOUS
      <4>6. FiledAs(Place(f, x), buffer[f][x])'
        <5>1. FiledAs(p + 1, c)'
          <6>1. PICK m \in Nat : m = p + 1
            OBVIOUS
          <6>2. FiledAs(m, c)'
            BY <1>1, <1>2, <2>5, <4>1, <4>5, <6>1, NextIsFiled
          <6> QED BY <6>1, <6>2
        <5> QED BY <1>2, <2>3, <2>4, <4>3, <4>5, <5>1
      <4>7. ASSUME NEW i \in 1 .. index[f], buffer[f][i] # NoCell
            PROVE  FiledAs(Place(f, i), buffer[f][i])'
        <5>1. PICK m \in Nat : m = Place(f, i) /\ m >= 1 /\ m <= p
          <6>1. Place(f, i) \in Nat /\ Place(f, i) <= p
            BY <2>7
          <6>2. Place(f, i) >= 1
            BY <2>7, <4>7
          <6> QED BY <6>1, <6>2
        <5>2. PICK d : d = buffer[f][i]
          OBVIOUS
        <5>3. FiledAs(m, d)
          BY <2>8, <4>7, <5>1, <5>2
        <5>4. m < 5 * user_num[f] + j[f]
          BY <2>5, <5>1
        <5>5. FiledAs(m, d)'
          BY <1>1, <1>2, <4>1, <5>1, <5>3, <5>4, FiledStays
        <5> QED BY <1>2, <2>4, <5>1, <5>2, <5>5
      <4> QED BY <2>9, <4>4, <4>6, <4>7
    <3> QED BY <3>1, <3>2
  <2>11. x <= bytes_read
    BY <1>2, <1>4, <2>2
  <2>12. /\ bytes_read' >= 1 /\ index'[f] <= bytes_read' /\ bytes_read' <= Len(buffer'[f])
         /\ content_pos'[f] + bytes_read' + Len(unread'[f]) = Content'
         /\ content_pos'[f] = 0 /\ unread'[f] = <<>> => buffer'[f] = page'
    BY <1>2, <1>3, <2>1, <2>2, <2>11 DEF AfterRead
  <2>13. Place(f, index[f])' = Place(f, x)
    BY <1>2, <2>2, <2>4
  <2>14. \A i \in 1 .. index'[f] :
            buffer'[f][i] # NoCell => FiledAs(Place(f, i), buffer[f][i])'
    BY <1>2, <2>2, <2>10
  <2> QED BY <1>2, <2>10, <2>12, <2>13, <2>14 DEF AfterRead
<1> QED BY <1>1, <1>2, <1>5, FilingOfOne

\* The next read starts where the last one ended, so that it is not the first.
LEMMA FilingReadNext ==
    ASSUME Types, FilingCore, NEW f \in Fetch, ReadNext(f)
    PROVE  FilingCore'
<1>1. /\ fetch[f] = "next" /\ fetch'[f] \in {"read", "none"}
      /\ UNCHANGED <<starts, page, unread, buffer, bytes_read>>
      /\ content_pos'[f] = content_pos[f] + bytes_read
  BY DEF ReadNext, Step, Types, parser
<1>2. PICK to \in {"read", "none"} : fetch' = [fetch EXCEPT ![f] = to]
  BY DEF ReadNext, Step
<1>3. Content' = Content /\ Content \in Nat /\ content_pos[f] \in Nat /\ bytes_read \in Nat
  BY <1>1, PageIs, PageKept DEF Types
<1>4. Len(unread[f]) \in Nat
  <2>1. unread[f] \in Seq(Cell)
    BY DEF Types
  <2> QED BY <2>1
<1>5. starts = 1 => OneFiling(f)'
  <2> SUFFICES ASSUME starts = 1 PROVE BeforeRead(f)'
    BY <1>1 DEF OneFiling, HasRead
  <2>1. bytes_read >= 1 /\ content_pos[f] + bytes_read + Len(unread[f]) = Content
    BY <1>1 DEF FilingCore, Filing, HasRead, AfterRead
  <2>2. content_pos'[f] # 0 /\ content_pos'[f] + Len(unread'[f]) = Content'
    BY <1>1, <1>3, <1>4, <2>1
  <2> QED BY <2>2 DEF BeforeRead
<1> QED BY <1>1, <1>2, <1>5, FilingOfOne

\* Nothing is expected of a thread that has ended or that reads chunks.
LEMMA FilingLeft ==
    ASSUME Types, FilingCore, NEW f \in Fetch, ReadFails(f) \/ ChunkRead(f)
    PROVE  FilingCore'
<1>1. PICK to \in {"none", "send_buffer"} : fetch' = [fetch EXCEPT ![f] = to]
  BY DEF ReadFails, ChunkRead, Step
<1>2. fetch[f] # "none" /\ starts' = starts
  BY DEF ReadFails, ChunkRead, Step
<1>3. OneFiling(f)'
  BY <1>1 DEF OneFiling, HasRead, Types
<1> QED BY <1>1, <1>2, <1>3, FilingOfOne

\* A mail is sent after the parse, or after a chunk.
LEMMA FilingSend ==
    ASSUME Types, FilingCore, NEW f \in Fetch, NEW from, NEW m, NEW to, Send(f, from, m, to),
           \/ from \in HasRead \ {"parse"} /\ to \in HasRead \ {"parse"}
           \/ from = "send_buffer" /\ to = "chunk"
    PROVE  FilingCore'
<1>1. PICK t : t = IF attached THEN to ELSE "assert"  OBVIOUS
<1>2. /\ fetch[f] = from /\ fetch' = [fetch EXCEPT ![f] = t]
      /\ UNCHANGED <<page, unread, content_pos, buffer, index, j, user_num, user_date_t,
                     bytes_read, starts>>
  BY <1>1 DEF Send, Step, parser
<1>3. /\ t \in HasRead => from \in HasRead /\ t # "parse"
      /\ t # "read" /\ from # "parse" /\ from \in HasRead \cup {"send_buffer"}
  BY <1>1 DEF HasRead
<1> QED BY <1>2, <1>3, FilingGoesOn

\* Every step keeps the filing.
LEMMA FilingNext ==
    ASSUME ServiceCore, FilingCore, [Next]_vars
    PROVE  FilingCore'
<1>0. Types
  BY DEF ServiceCore
<1>1. CASE Start
  BY <1>0, <1>1, FilingStart
<1>2. CASE Thread1
  BY <1>2, FilingKept DEF Thread1, Thread1Recv, Thread1Delay, Thread1Detach, parser
<1>3. ASSUME NEW f \in Fetch, Thread2(f)
      PROVE  FilingCore'
  <2>1. CASE Get(f)
    BY <1>0, <2>1, FilingGet
  <2>2. CASE Read(f)
    BY <1>0, <2>2, FilingRead
  <2>3. CASE ParseCell(f)
    BY <2>3, FilingParseCell
  <2>4. CASE ReadFails(f) \/ ChunkRead(f)
    BY <1>0, <2>4, FilingLeft
  <2>5. CASE ReadNext(f)
    BY <1>0, <2>5, FilingReadNext
  <2>6. CASE ParseEnd(f)
    <3>1. /\ fetch[f] = "parse" /\ fetch' = [fetch EXCEPT ![f] = "send_table"]
          /\ index[f] >= bytes_read
          /\ UNCHANGED <<page, unread, content_pos, buffer, index, j, user_num, user_date_t,
                         bytes_read, starts>>
      BY <2>6 DEF ParseEnd, Step, parser
    <3> QED BY <1>0, <3>1, FilingGoesOn DEF HasRead
  <2>7. CASE SendTable(f)
    BY <1>0, <2>7, FilingSend DEF SendTable, HasRead
  <2>8. CASE SendLen(f)
    BY <1>0, <2>8, FilingSend DEF SendLen, HasRead
  <2>9. CASE SendOver(f)
    BY <1>0, <2>9, FilingSend DEF SendOver, HasRead
  <2>10. CASE ChunkSend(f)
    BY <1>0, <2>10, FilingSend DEF ChunkSend, HasRead
  <2> QED BY <1>3, <2>1, <2>2, <2>3, <2>4, <2>5, <2>6, <2>7, <2>8, <2>9, <2>10 DEF Thread2
<1>4. CASE UNCHANGED vars
  BY <1>4, FilingKept DEF vars, parser
<1> QED BY <1>1, <1>2, <1>3, <1>4 DEF Next

\* When a read is mailed its cells are in the table, in order and without the
\* empty ones, beginning with the first user, and a page that came in one read
\* is filed from its first cell to its last: for pages of any length, any
\* division into reads, and however the mailbox and thread1 behave meanwhile.
\* The cells that the table has no user for are not, and cost at most fields
\* of the first user.
THEOREM ReadsAreFiled == Spec => []ReadIsFiled
<1>1. Init => ServiceCore /\ FilingCore
  BY ServiceInit DEF Init, FilingCore, OneFetch, Filing
<1>2. ServiceCore /\ FilingCore /\ [Next]_vars => ServiceCore' /\ FilingCore'
  BY ServiceNext, FilingNext
<1>3. ServiceCore /\ FilingCore => ReadIsFiled
  <2> SUFFICES ASSUME ServiceCore, FilingCore, NEW f \in Fetch,
                      fetch[f] = "send_table", starts = 1
               PROVE  /\ \A i \in 1 .. bytes_read :
                            buffer[f][i] # NoCell => FiledAs(Place(f, i), buffer[f][i])
                      /\ content_pos[f] = 0 /\ unread[f] = <<>> => buffer[f] = page
    BY DEF ReadIsFiled
  <2>1. AfterRead(f)
    BY DEF FilingCore, Filing, HasRead
  <2>2. bytes_read \in Nat /\ index[f] \in Nat
    BY PageIs DEF ServiceCore, Types
  <2>3. index[f] = bytes_read
    BY <2>1, <2>2 DEF AfterRead
  <2> QED BY <2>1, <2>3 DEF AfterRead
<1> QED BY <1>1, <1>2, <1>3, PTL DEF Spec
=============================================================================
