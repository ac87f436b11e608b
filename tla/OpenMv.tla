------------------------------- MODULE OpenMv -------------------------------
(***************************************************************************)
(* Face recognition: applications/openMv.c, and the command "face" of      *)
(* esp32_thread_entry that shares face_flag with it.  The camera reports   *)
(* "resuc" (a face was registered), "get" (somebody is there) and ">>>n"   *)
(* (it is user n).  The openmv thread switches the backlight on and sends  *)
(* n to the screen thread; after 15000 ticks of silence it switches the    *)
(* backlight off.  The phone asks with "face" whether somebody was there.  *)
(*                                                                         *)
(* A batch is what one notification makes the thread read (module          *)
(* UartReceiver); reports cut by the end of a batch are not recognised,    *)
(* except that ">>>" is read with whatever follows: User 0.                *)
(***************************************************************************)
EXTENDS Naturals, Sequences

CONSTANTS User,        \* the characters behind ">>>": 1, 2, 3, or 0 for any other
          MaxBatch,    \* bound: reports in one batch
          MaxPending,  \* bound: batches waiting
          MaxFaces,    \* bound: "get" reports seen when one more batch arrives
          ScreenSize,  \* slots of the queue screen (5)
          MaxStarts    \* bound: test_rtt_openmv commands

ASSUME UserAssumption == User \subseteq 0 .. 3
ASSUME BatchAssumption == MaxBatch \in Nat \ {0} /\ MaxPending \in Nat \ {0}
ASSUME FacesAssumption == MaxFaces \in Nat /\ MaxStarts \in Nat
ASSUME ScreenAssumption == ScreenSize \in Nat \ {0}

Id(n)  == [kind |-> "id", user |-> n]
Report == {[kind |-> k, user |-> 0] : k \in {"resuc", "get"}} \cup {Id(n) : n \in User}
Batch  == UNION {[1 .. n -> Report] : n \in 1 .. MaxBatch}

VARIABLES pending,     \* batches notified and not yet read
          openmv,      \* where openmv_thread_entry is
          todo,        \* reports of this batch not yet looked at
          light,       \* the backlight
          face_flag, user_num_flag,
          screen,      \* the queue to the screen thread
          shown,       \* where screen_thread_entry is
          phone,       \* where esp32_thread_entry is in its command "face"
          faces, told, \* how often "get" was seen, how often the phone was told
          unanswered,  \* "get" was seen since the phone was told last
          forgotten,   \* how often the flag was cleared in spite of that
          frozen, starts

answers == <<told, unanswered, forgotten>>

camera_vars == <<pending, openmv, todo, light, face_flag, user_num_flag, screen, shown,
                 phone, faces, answers, frozen, starts>>

-----------------------------------------------------------------------------
\* test_rtt_openmv: rt_mq_init(&screen), two threads.  The queue is never
\* detached: a second command asserts in rt_object_init, with the scheduler
\* locked.  rt_thread_create may find no memory
Start ==
    /\ ~ frozen
    /\ starts < MaxStarts
    /\ starts' = starts + 1
    /\ IF starts = 0
       THEN /\ openmv' \in {"none", "recv"}
            /\ shown' \in {"none", "recv"}
            /\ UNCHANGED frozen
       ELSE frozen' = TRUE /\ UNCHANGED <<openmv, shown>>
    /\ UNCHANGED <<pending, todo, light, face_flag, user_num_flag, screen, phone, faces, answers>>

Faces(b) == Len(SelectSeq(b, LAMBDA r : r.kind = "get"))

\* the camera sends, openmv_uart_input notifies
Arrive(b) ==
    /\ ~ frozen
    /\ openmv # "none"
    /\ Len(pending) < MaxPending
    /\ faces + Faces(b) <= MaxFaces
    /\ pending' = Append(pending, b)
    /\ UNCHANGED <<openmv, todo, light, face_flag, user_num_flag, screen, shown,
                   phone, faces, answers, frozen, starts>>

-----------------------------------------------------------------------------
(* openmv_thread_entry.                                                    *)

CameraStep(from, to) == ~ frozen /\ openmv = from /\ openmv' = to

\* no notification for 15000 ticks: rt_mq_recv is left to return -RT_ETIMEOUT,
\* also when one comes before the thread runs
CameraTimeout ==
    /\ CameraStep("recv", "timeout")
    /\ pending = <<>>
    /\ UNCHANGED <<pending, todo, light, face_flag, user_num_flag, screen, shown,
                   phone, faces, answers, frozen, starts>>

\* mutant: the thread ends when the camera is silent
AfterSilenceEnds == "none"

AfterSilence == "recv"

Silence ==
    /\ CameraStep("timeout", AfterSilence)
    /\ light' = FALSE
    /\ UNCHANGED <<pending, todo, face_flag, user_num_flag, screen, shown,
                   phone, faces, answers, frozen, starts>>

CameraRecv ==
    /\ CameraStep("recv", "parse")
    /\ pending # <<>>
    /\ todo' = Head(pending)
    /\ pending' = Tail(pending)
    /\ UNCHANGED <<light, face_flag, user_num_flag, screen, shown,
                   phone, faces, answers, frozen, starts>>

\* "get": the flag, then the GUI and 100 ticks of sleep
See ==
    /\ todo # <<>>
    /\ Head(todo).kind = "get"
    /\ CameraStep("parse", "light_on")
    /\ face_flag' = TRUE
    /\ faces' = faces + 1
    /\ unanswered' = TRUE
    /\ todo' = Tail(todo)
    /\ UNCHANGED <<pending, light, user_num_flag, screen, shown, phone, told, forgotten,
                   frozen, starts>>

\* mutant: users are counted from one
ShownUserFromOne(n) == n

ShownUser(n) == n - 1

\* ">>>n": the user to show, the screen queue (nothing waits if it is full)
Identify ==
    /\ todo # <<>>
    /\ Head(todo).kind = "id"
    /\ CameraStep("parse", "light_on")
    /\ LET n == Head(todo).user IN
       /\ user_num_flag' = IF n \in 1 .. 3 THEN ShownUser(n) ELSE user_num_flag
       /\ screen' = IF Len(screen) < ScreenSize THEN Append(screen, n) ELSE screen
    /\ todo' = Tail(todo)
    /\ UNCHANGED <<pending, light, face_flag, shown, phone, faces, answers, frozen, starts>>

\* mutant: pwminit_user is called with the wrong argument
LightAfterReportOff == FALSE

LightAfterReport == TRUE

LightOn ==
    /\ CameraStep("light_on", "parse")
    /\ light' = LightAfterReport
    /\ UNCHANGED <<pending, todo, face_flag, user_num_flag, screen, shown,
                   phone, faces, answers, frozen, starts>>

\* "resuc" is only printed
Registered ==
    /\ CameraStep("parse", "parse")
    /\ todo # <<>>
    /\ Head(todo).kind = "resuc"
    /\ todo' = Tail(todo)
    /\ UNCHANGED <<pending, light, face_flag, user_num_flag, screen, shown,
                   phone, faces, answers, frozen, starts>>

ParseEnd ==
    /\ CameraStep("parse", "recv")
    /\ todo = <<>>
    /\ UNCHANGED <<pending, todo, light, face_flag, user_num_flag, screen, shown,
                   phone, faces, answers, frozen, starts>>

-----------------------------------------------------------------------------
\* screen_thread_entry: take a message, sleep 50 ms
Screen ==
    /\ ~ frozen
    /\ \/ shown = "recv" /\ screen # <<>> /\ screen' = Tail(screen) /\ shown' = "delay"
       \/ shown = "delay" /\ shown' = "recv" /\ UNCHANGED screen
    /\ UNCHANGED <<pending, openmv, todo, light, face_flag, user_num_flag,
                   phone, faces, answers, frozen, starts>>

(* The command "face" in esp32_thread_entry: test, write "1", clear.  The  *)
(* openmv thread has the higher priority and may run in between.           *)

PhoneStep(from, to) == ~ frozen /\ phone = from /\ phone' = to

\* mutant: the clearing stands behind the test
AfterAskClears == IF face_flag THEN "tell" ELSE "clear"

AfterAsk == IF face_flag THEN "tell" ELSE "idle"

Ask ==
    /\ PhoneStep("idle", AfterAsk)
    /\ UNCHANGED <<pending, openmv, todo, light, face_flag, user_num_flag, screen, shown,
                   faces, answers, frozen, starts>>

Tell ==
    /\ PhoneStep("tell", "clear")
    /\ told' = told + 1
    /\ unanswered' = FALSE
    /\ UNCHANGED <<pending, openmv, todo, light, face_flag, user_num_flag, screen, shown,
                   faces, forgotten, frozen, starts>>

\* mutant: the flag is not cleared
FlagAfterTellKept == face_flag

FlagAfterTell == FALSE

Clear ==
    /\ PhoneStep("clear", "idle")
    /\ face_flag' = FlagAfterTell
    /\ unanswered' = FALSE
    /\ forgotten' = IF unanswered THEN forgotten + 1 ELSE forgotten
    /\ UNCHANGED <<pending, openmv, todo, light, user_num_flag, screen, shown,
                   faces, told, frozen, starts>>

-----------------------------------------------------------------------------
CameraInit == /\ pending = <<>>
              /\ openmv = "none"
              /\ todo = <<>>
              /\ light \in BOOLEAN      \* as the board left it
              /\ face_flag = FALSE
              /\ user_num_flag = 0
              /\ screen = <<>>
              /\ shown = "none"
              /\ phone = "idle"
              /\ faces = 0
              /\ told = 0 /\ unanswered = FALSE /\ forgotten = 0
              /\ frozen = FALSE
              /\ starts = 0

Camera == CameraTimeout \/ Silence \/ CameraRecv \/ See \/ Identify \/ LightOn \/ Registered \/ ParseEnd
Phone  == Ask \/ Tell \/ Clear

CameraNext == Start \/ (\E b \in Batch : Arrive(b)) \/ Camera \/ Screen \/ Phone

\* ready threads run and timeouts expire; for the phone only that a command
\* once begun is finished
CameraFairness == /\ WF_camera_vars(Camera) /\ WF_camera_vars(Screen)
                  /\ WF_camera_vars(Tell) /\ WF_camera_vars(Clear)

CameraSpec == CameraInit /\ [][CameraNext]_camera_vars /\ CameraFairness

-----------------------------------------------------------------------------
(* Properties.                                                             *)

\* The variables have their types.
CameraTypeOK == /\ pending \in Seq(Batch) /\ Len(pending) <= MaxPending
                /\ openmv \in {"none", "recv", "timeout", "parse", "light_on"}
                /\ todo \in Seq(Report)
                /\ light \in BOOLEAN /\ face_flag \in BOOLEAN /\ frozen \in BOOLEAN
                /\ user_num_flag \in 0 .. 2
                /\ screen \in Seq(User) /\ Len(screen) <= ScreenSize
                /\ shown \in {"none", "recv", "delay"}
                /\ phone \in {"idle", "tell", "clear"}
                /\ faces \in Nat /\ told \in Nat /\ unanswered \in BOOLEAN /\ forgotten \in Nat
                /\ starts \in 0 .. MaxStarts

\* The phone is never told of a face more often than one was seen, although
\* the test, the answer and the clearing of face_flag are separate steps that
\* the camera's thread may interrupt.
ToldOnlyOfFaces == told <= faces

\* The shared variables of the camera, the screen and the phone service keep to
\* their ranges, and the phone is told of no face that was not seen.
CameraInv == CameraTypeOK /\ ToldOnlyOfFaces

\* A face is kept until the phone is told of it: the flag stays set from the
\* report to the next answer, and a face is forgotten only between an answer
\* and the clearing of the flag, one face for an answer at most.
FaceIsKept == /\ unanswered /\ phone # "clear" => face_flag
              /\ forgotten <= told

\* Somebody seen or identified: the mirror is lit, from the notification
\* through the batch it belongs to and whatever else that batch holds, also
\* when a screen message had to be dropped, and when the receive timeout
\* darkens the mirror with the notification already in the queue.
ReportLights == (\E i \in DOMAIN pending : \E k \in DOMAIN pending[i] : pending[i][k].kind # "resuc")
                   ~> (light \/ frozen)
=============================================================================
