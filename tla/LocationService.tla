-------------------------- MODULE LocationService --------------------------
(***************************************************************************)
(* LocationService and the way MobileInfoViewController uses it: ask for   *)
(* access once, when the view loads, and start tracking when it is         *)
(* granted.                                                                *)
(*                                                                         *)
(* Core Location is external.  It keeps the app's authorization status     *)
(* over launches, shows the permission prompt, and calls the delegate      *)
(* methods on the main run loop, in order: didChangeAuthorization once     *)
(* when a manager is created and at every later change, and                *)
(* didUpdateLocations while tracking.                                      *)
(***************************************************************************)
EXTENDS Naturals, Sequences, TLAPS

CONSTANTS
    Wanted,      \* accessType.requestLocationType
    Coordinate,  \* positions of the device
    None,        \* no position yet
    MaxChanges,  \* bound on the status changes not yet delivered
    MaxBatch     \* bound on the locations of one didUpdateLocations

Undetermined == "notDetermined"
Authorized   == {"authorizedAlways", "authorizedWhenInUse"}
Status       == {Undetermined, "restricted", "denied"} \cup Authorized

ASSUME WantedAssumption == Wanted \in Authorized
ASSUME CoordinateAssumption == None \notin Coordinate
ASSUME BoundAssumption == MaxChanges \in Nat /\ MaxBatch \in Nat

VARIABLES
    status,      \* CLLocationManager.authorizationStatus()
    prompt,      \* the system's permission prompt is shown
    changes,     \* statuses to be delivered to didChangeAuthorization
    loaded,      \* the view is loaded, in this process
    completion,  \* requestAccessCompletion is not nil
    tracking,    \* startUpdatingLocation was called
    delegate,    \* LocationService.delegate is set
    coordinates, \* the service's last coordinates
    reported,    \* the last coordinates the delegate was given
    seen,        \* history: statuses this process has looked at
    answers      \* history: how often the completion was called

external == <<status, prompt, changes>>
vars == <<external, loaded, completion, tracking, delegate, coordinates, reported,
          seen, answers>>

(* The one type invariant of the module. *)
TypeOK ==
    /\ status \in Status
    /\ prompt \in BOOLEAN
    /\ changes \in Seq(Status)
    /\ loaded \in BOOLEAN
    /\ completion \in BOOLEAN
    /\ tracking \in BOOLEAN
    /\ delegate \in BOOLEAN
    /\ coordinates \in Coordinate \cup {None}
    /\ reported \in Coordinate \cup {None}
    /\ seen \in SUBSET Status
    /\ answers \in Nat

FreshProcess ==
    /\ changes = <<>> /\ prompt = FALSE
    /\ loaded = FALSE /\ completion = FALSE /\ tracking = FALSE
    /\ delegate = FALSE /\ coordinates = None /\ reported = None
    /\ seen = {} /\ answers = 0

Init == status \in Status /\ FreshProcess

-----------------------------------------------------------------------------
(* The block viewDidLoad passes to requestAccessToLocation. *)
callCompletion(granted) ==
    /\ answers' = answers + 1
    /\ tracking' = IF granted THEN TRUE ELSE tracking

(* Access that is there already completes the request at once, and the     *)
(* completion is not kept; otherwise it is kept and the system is asked.   *)
(* The system prompts when it never asked, and may prompt once more to     *)
(* raise "when in use" to "always".                                        *)
requestAccessToLocation ==
    IF status = Wanted
    THEN callCompletion(TRUE) /\ UNCHANGED <<completion, prompt>>
    ELSE /\ completion' = TRUE
         /\ \/ status = Undetermined /\ prompt' = TRUE
            \/ /\ status = "authorizedWhenInUse"
               /\ prompt' \in BOOLEAN
            \/ status \notin {Undetermined, "authorizedWhenInUse"} /\ prompt' = FALSE
         /\ UNCHANGED <<tracking, answers>>

(* viewDidLoad: the first use of LocationService.shared creates the        *)
(* manager, which reports its status; the controller becomes the delegate  *)
(* last.                                                                   *)
viewDidLoad ==
    /\ ~loaded
    /\ loaded' = TRUE
    /\ changes' = Append(changes, status)
    /\ requestAccessToLocation
    /\ seen' = IF status = Wanted THEN seen \cup {status} ELSE seen
    /\ delegate' = TRUE
    /\ UNCHANGED <<status, coordinates, reported>>

(* A deviation: every status is an answer. *)
anyStatus(s) == TRUE

isAnswer(s) == s # Undetermined

(* A deviation: whether there is a request is not looked at. *)
answerAlways(s) == callCompletion(s = Wanted) /\ completion' = FALSE

(* An answer completes the request, if there is one, and the request is    *)
(* forgotten.                                                              *)
answerRequest(s) ==
    /\ IF completion THEN callCompletion(s = Wanted)
       ELSE UNCHANGED <<tracking, answers>>
    /\ completion' = FALSE

(* didChangeAuthorization: "not determined" is no answer, anything else is. *)
didChangeAuthorization ==
    /\ changes # <<>>
    /\ changes' = Tail(changes)
    /\ seen' = seen \cup {Head(changes)}
    /\ \/ ~isAnswer(Head(changes)) /\ UNCHANGED <<completion, tracking, answers>>
       \/ isAnswer(Head(changes)) /\ answerRequest(Head(changes))
    /\ UNCHANGED <<status, prompt, loaded, delegate, coordinates, reported>>

(* locations.last *)
lastOf(batch) == batch[Len(batch)]

(* didUpdateLocations: the most recent location of the batch goes to the   *)
(* delegate; an empty batch is ignored.                                    *)
didUpdateLocations(batch) ==
    /\ tracking /\ status \in Authorized
    /\ IF batch = <<>> THEN UNCHANGED <<coordinates, reported>>
       ELSE /\ coordinates' = lastOf(batch)
            /\ reported' = IF delegate THEN coordinates' ELSE reported
    /\ UNCHANGED <<external, loaded, completion, tracking, delegate, seen, answers>>

-----------------------------------------------------------------------------
(* The system and the user (external). *)

StatusBecomes(s) ==
    /\ status' = s
    /\ changes' = IF loaded /\ s # status THEN Append(changes, s) ELSE changes
    /\ UNCHANGED <<loaded, completion, tracking, delegate, coordinates, reported,
                   seen, answers>>

UserAnswersPrompt ==
    /\ prompt /\ prompt' = FALSE
    /\ Len(changes) < MaxChanges
    /\ \E s \in Authorized \cup {"denied"} :
        /\ status = "authorizedWhenInUse" => s \in Authorized
        /\ StatusBecomes(s)

(* In Settings the user may change the status, or reset it. *)
UserChangesSettings ==
    /\ ~prompt /\ UNCHANGED prompt
    /\ Len(changes) < MaxChanges
    /\ \E s \in Status \ {status} : StatusBecomes(s)

ProcessEnds ==
    /\ loaded
    /\ changes' = <<>> /\ prompt' = FALSE
    /\ loaded' = FALSE /\ completion' = FALSE /\ tracking' = FALSE
    /\ delegate' = FALSE /\ coordinates' = None /\ reported' = None
    /\ seen' = {} /\ answers' = 0
    /\ UNCHANGED status

Batch == UNION {[1 .. n -> Coordinate] : n \in 0 .. MaxBatch}

Next ==
    \/ viewDidLoad \/ didChangeAuthorization
    \/ \E batch \in Batch : didUpdateLocations(batch)
    \/ UserAnswersPrompt \/ UserChangesSettings \/ ProcessEnds

(* The main run loop delivers the authorization callbacks. *)
Spec == Init /\ [][Next]_vars /\ WF_vars(didChangeAuthorization)

-----------------------------------------------------------------------------
(* Properties. *)

Refusals == Status \ {Wanted, Undetermined}
Refused  == seen \cap Refusals # {}

(* The block given to requestAccessToLocation is called at most once, and  *)
(* never again after a grant.                                              *)
AnsweredOnce ==
    /\ answers <= 1
    /\ completion => answers = 0
    /\ tracking => answers = 1

(* Tracking starts only when this process saw the status it asked for. *)
TrackingWasGranted == tracking => Wanted \in seen

(* A loaded view that neither tracks nor waits has been refused: the       *)
(* callback a new manager always makes does not use the request up while   *)
(* the user has not decided.                                               *)
IdleOnlyAfterRefusal == (loaded /\ ~tracking /\ ~completion) => Refused

(* The one request for access, through prompts, changes in Settings and    *)
(* callbacks in any order: its block is called at most once, tracking      *)
(* starts only when this process saw the status it asked for, and a loaded *)
(* view that neither tracks nor waits has been refused.                    *)
AccessIsAnswered == AnsweredOnce /\ TrackingWasGranted /\ IdleOnlyAfterRefusal

(* The first answer is final for the process: a grant that follows a       *)
(* refusal, in Settings or in the second prompt, starts nothing.           *)
FirstAnswerIsFinal ==
    [][(loaded /\ loaded' /\ ~completion /\ ~tracking) => ~tracking']_vars

Granted == loaded /\ status = Wanted
Served  == tracking \/ Refused

(* Access that stays granted leads to tracking, unless this process was    *)
(* refused before.                                                         *)
GrantLeadsToTracking == <>[]Granted => <>Served

-----------------------------------------------------------------------------
(***************************************************************************)
(* For every access type, every set of positions and every bound: the      *)
(* request for access is answered at most once, tracking starts only on a  *)
(* grant, and an idle view was refused.                                    *)
(***************************************************************************)

(* The conjunct the properties need and none of them states: before the    *)
(* view is loaded there is neither a request nor an answer.                *)
NothingAsked == ~loaded => (~completion /\ answers = 0)

(* The inductive invariant of the service. *)
IInv ==
    /\ TypeOK
    /\ NothingAsked
    /\ AnsweredOnce
    /\ TrackingWasGranted
    /\ IdleOnlyAfterRefusal

-----------------------------------------------------------------------------
(* The location didUpdateLocations keeps of a batch is a position. *)
LEMMA LastOfBatch ==
    ASSUME NEW batch \in Batch, batch # <<>>
    PROVE  lastOf(batch) \in Coordinate
<1>1. PICK n \in 0 .. MaxBatch : batch \in [1 .. n -> Coordinate]
  BY DEF Batch
<1>2. batch \in Seq(Coordinate)
  BY <1>1, BoundAssumption
<1>3. Len(batch) \in 1 .. Len(batch)
  BY <1>2
<1> QED
  BY <1>2, <1>3 DEF lastOf

(* Type correctness: every step keeps every variable in its type. *)
LEMMA TypeStep == TypeOK /\ [Next]_vars => TypeOK'
<1> SUFFICES ASSUME TypeOK, [Next]_vars PROVE TypeOK'
  OBVIOUS
<1> USE DEF TypeOK
<1>1. CASE viewDidLoad
  <2>1. changes' \in Seq(Status) /\ loaded' \in BOOLEAN /\ delegate' \in BOOLEAN
    BY <1>1 DEF viewDidLoad
  <2>2. seen' \in SUBSET Status
    BY <1>1 DEF viewDidLoad
  <2>3. /\ completion' \in BOOLEAN /\ prompt' \in BOOLEAN
        /\ tracking' \in BOOLEAN /\ answers' \in Nat
    <3>1. CASE status = Wanted
      BY <1>1, <3>1 DEF viewDidLoad, requestAccessToLocation, callCompletion
    <3>2. CASE status # Wanted
      BY <1>1, <3>2 DEF viewDidLoad, requestAccessToLocation
    <3> QED BY <3>1, <3>2
  <2> QED
    BY <1>1, <2>1, <2>2, <2>3 DEF viewDidLoad
<1>2. CASE didChangeAuthorization
  <2>1. Head(changes) \in Status /\ Tail(changes) \in Seq(Status)
    BY <1>2 DEF didChangeAuthorization
  <2>2. seen' \in SUBSET Status
    BY <1>2, <2>1 DEF didChangeAuthorization
  <2>3. completion' \in BOOLEAN /\ tracking' \in BOOLEAN /\ answers' \in Nat
    <3>1. CASE ~isAnswer(Head(changes))
      BY <1>2, <3>1 DEF didChangeAuthorization
    <3>2. CASE isAnswer(Head(changes)) /\ ~completion
      BY <1>2, <3>2 DEF didChangeAuthorization, answerRequest
    <3>3. CASE isAnswer(Head(changes)) /\ completion
      <4>1. answerRequest(Head(changes))
        BY <1>2, <3>3 DEF didChangeAuthorization
      <4>2. answers' \in Nat
        BY <3>3, <4>1 DEF answerRequest, callCompletion
      <4>3. tracking' = IF Head(changes) = Wanted THEN TRUE ELSE tracking
        BY <3>3, <4>1 DEF answerRequest, callCompletion
      <4> QED
        BY <4>1, <4>2, <4>3 DEF answerRequest
    <3> QED BY <3>1, <3>2, <3>3
  <2> QED
    BY <1>2, <2>1, <2>2, <2>3 DEF didChangeAuthorization
<1>3. ASSUME NEW batch \in Batch, didUpdateLocations(batch) PROVE TypeOK'
  <2>1. /\ coordinates' \in Coordinate \cup {None}
        /\ reported' \in Coordinate \cup {None}
    <3>1. CASE batch = <<>>
      BY <1>3, <3>1 DEF didUpdateLocations
    <3>2. CASE batch # <<>>
      BY <1>3, <3>2, LastOfBatch DEF didUpdateLocations
    <3> QED BY <3>1, <3>2
  <2> QED
    BY <1>3, <2>1 DEF didUpdateLocations, external
<1>4. ASSUME NEW s \in Status, StatusBecomes(s), prompt' \in BOOLEAN PROVE TypeOK'
  <2>1. changes' \in Seq(Status)
    BY <1>4 DEF StatusBecomes
  <2> QED
    BY <1>4, <2>1 DEF StatusBecomes
<1>5. CASE UserAnswersPrompt \/ UserChangesSettings
  BY <1>4, <1>5 DEF UserAnswersPrompt, UserChangesSettings, Authorized, Status
<1>6. CASE ProcessEnds
  <2>1. changes' \in Seq(Status) /\ seen' \in SUBSET Status
    BY <1>6 DEF ProcessEnds
  <2> QED
    BY <1>6, <2>1 DEF ProcessEnds
<1>7. CASE UNCHANGED vars
  BY <1>7 DEF vars, external
<1> QED
  BY <1>1, <1>2, <1>3, <1>5, <1>6, <1>7 DEF Next

(* The other conjuncts, one action after the other.  Only viewDidLoad and  *)
(* didChangeAuthorization can disturb them: the first creates the request, *)
(* the second answers it.                                                  *)
LEMMA InductiveStep == IInv /\ [Next]_vars => IInv'
<1> SUFFICES ASSUME IInv, [Next]_vars PROVE IInv'
  OBVIOUS
<1>0. TypeOK'
  BY TypeStep DEF IInv
<1> USE DEF IInv, NothingAsked, AnsweredOnce, TrackingWasGranted,
            IdleOnlyAfterRefusal, Refused, Refusals
<1>1. CASE viewDidLoad
  <2>1. CASE status = Wanted
    BY <1>0, <1>1, <2>1 DEF viewDidLoad, requestAccessToLocation, callCompletion,
                            TypeOK
  <2>2. CASE status # Wanted
    BY <1>0, <1>1, <2>2 DEF viewDidLoad, requestAccessToLocation, TypeOK
  <2> QED BY <2>1, <2>2
<1>2. CASE didChangeAuthorization
  <2> DEFINE s == Head(changes)
  <2>1. s \in Status /\ seen' = seen \cup {s} /\ loaded' = loaded
    BY <1>2 DEF didChangeAuthorization, TypeOK
  <2>2. CASE ~isAnswer(s)
    BY <1>0, <1>2, <2>1, <2>2 DEF didChangeAuthorization
  <2>3. CASE isAnswer(s) /\ ~completion
    BY <1>0, <1>2, <2>1, <2>3 DEF didChangeAuthorization, answerRequest
  <2>4. CASE isAnswer(s) /\ completion
    <3>0. answerRequest(s)
      BY <1>2, <2>4 DEF didChangeAuthorization
    <3>1. answers' = 1 /\ ~completion' /\ loaded
      BY <2>4, <3>0 DEF answerRequest, callCompletion
    <3>3. tracking' = IF s = Wanted THEN TRUE ELSE tracking
      BY <2>4, <3>0 DEF answerRequest, callCompletion
    <3>2. s # Wanted => s \in Refusals
      BY <2>1, <2>4 DEF isAnswer
    <3> QED
      BY <1>0, <2>1, <2>4, <3>1, <3>2, <3>3
  <2> QED BY <2>2, <2>3, <2>4
<1>3. ASSUME NEW batch \in Batch, didUpdateLocations(batch) PROVE IInv'
  BY <1>0, <1>3 DEF didUpdateLocations, external
<1>4. CASE UserAnswersPrompt
  BY <1>0, <1>4 DEF UserAnswersPrompt, StatusBecomes
<1>5. CASE UserChangesSettings
  BY <1>0, <1>5 DEF UserChangesSettings, StatusBecomes
<1>6. CASE ProcessEnds
  BY <1>0, <1>6 DEF ProcessEnds
<1>7. CASE UNCHANGED vars
  BY <1>0, <1>7 DEF vars, external
<1> QED
  BY <1>1, <1>2, <1>3, <1>4, <1>5, <1>6, <1>7 DEF Next

-----------------------------------------------------------------------------
(* The initial states have the inductive invariant. *)
LEMMA InductiveInit == Init => IInv
<1> SUFFICES ASSUME Init PROVE IInv
  OBVIOUS
<1>1. TypeOK
  <2>1. changes \in Seq(Status) /\ seen \in SUBSET Status
    BY DEF Init, FreshProcess
  <2> QED
    BY <2>1 DEF Init, FreshProcess, TypeOK
<1> QED
  BY <1>1 DEF Init, FreshProcess, IInv, NothingAsked, AnsweredOnce,
              TrackingWasGranted, IdleOnlyAfterRefusal

(* LocationService keeps its inductive invariant. *)
THEOREM Invariance == Spec => []IInv
  BY InductiveInit, InductiveStep, PTL DEF Spec

(* Type correctness of LocationService. *)
THEOREM TypeCorrect == Spec => []TypeOK
<1>1. IInv => TypeOK
  BY DEF IInv
<1> QED BY Invariance, <1>1, PTL

(* The completion requestAccessToLocation stores is called at most once,   *)
(* whatever the order of the prompt, of Settings changes and of callbacks. *)
THEOREM CompletionCalledOnce == Spec => []AnsweredOnce
<1>1. IInv => AnsweredOnce
  BY DEF IInv
<1> QED BY Invariance, <1>1, PTL

(* startLocationTracking is never called without a grant. *)
THEOREM NoTrackingWithoutGrant == Spec => []TrackingWasGranted
<1>1. IInv => TrackingWasGranted
  BY DEF IInv
<1> QED BY Invariance, <1>1, PTL

(* A view that neither tracks nor waits was refused: the callback of a new *)
(* manager never uses the request up.                                      *)
THEOREM IdleWasRefused == Spec => []IdleOnlyAfterRefusal
<1>1. IInv => IdleOnlyAfterRefusal
  BY DEF IInv
<1> QED BY Invariance, <1>1, PTL

(* The request for access is answered once, never without a grant, and     *)
(* left open as long as the user has not decided: the three facts          *)
(* together, for any status and any number of changes.                     *)
THEOREM RequestIsAnswered == Spec => []AccessIsAnswered
<1>1. IInv => AccessIsAnswered
  BY DEF IInv, AccessIsAnswered
<1> QED BY Invariance, <1>1, PTL

(* Once a process was refused, nothing but a new process starts tracking:  *)
(* didChangeAuthorization finds no completion to call.                     *)
THEOREM RefusalIsFinal == Spec => FirstAnswerIsFinal
<1> DEFINE Idle == loaded /\ loaded' /\ ~completion /\ ~tracking
<1>1. ASSUME TypeOK, [Next]_vars, Idle PROVE ~tracking'
  <2>1. CASE viewDidLoad
    BY <1>1, <2>1 DEF viewDidLoad
  <2>2. CASE didChangeAuthorization
    BY <1>1, <2>2 DEF didChangeAuthorization, answerRequest
  <2>3. ASSUME NEW batch \in Batch, didUpdateLocations(batch) PROVE ~tracking'
    BY <1>1, <2>3 DEF didUpdateLocations
  <2>4. CASE UserAnswersPrompt \/ UserChangesSettings
    BY <1>1, <2>4 DEF UserAnswersPrompt, UserChangesSettings, StatusBecomes
  <2>5. CASE ProcessEnds
    BY <1>1, <2>5 DEF ProcessEnds
  <2>6. CASE UNCHANGED vars
    BY <1>1, <2>6 DEF vars
  <2> QED
    BY <1>1, <2>1, <2>2, <2>3, <2>4, <2>5, <2>6 DEF Next
<1>2. TypeOK /\ [Next]_vars => [Idle => ~tracking']_vars
  BY <1>1
<1> QED BY TypeCorrect, <1>2, PTL DEF Spec, FirstAnswerIsFinal
=============================================================================
