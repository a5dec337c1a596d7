---------------------------- MODULE WebClientProofs ----------------------------
(***************************************************************************)
(* Theorems about WebClient, for any places and any number of requests and *)
(* reloads.                                                                *)
(***************************************************************************)
EXTENDS WebClient, TLAPS

\* Every variable keeps its type, and versions in use were handed out.
LEMMA TypeInit == Init => TypeOK
  <1> SUFFICES ASSUME Init PROVE TypeOK
    OBVIOUS
  <1>1. opened \in BOOLEAN /\ locating \in BOOLEAN /\ button \in BOOLEAN /\ shown \in BOOLEAN
    BY DEF Init
  <1>2. /\ ver \in 0..MaxCalls /\ drawnBy \in 0..ver
        /\ reloads \in 0..MaxReloads
    BY BoundsAssumption DEF Init
  <1>3. \A v \in Call : calls[v] = None /\ lookups[v] = None /\ v \notin timers
    BY DEF Init
  <1> QED
    BY <1>1, <1>2, <1>3 DEF Init, TypeOK

LEMMA TypeStep == TypeOK /\ [Next]_vars => TypeOK'
  <1> SUFFICES ASSUME TypeOK, [Next]_vars PROVE TypeOK'
    OBVIOUS
  <1> USE BoundsAssumption, NoneAssumption DEF TypeOK, Call
  <1>f. ASSUME NEW p \in Place, NEW f \in {"search", "current", "saved"},
               NEW b \in Place \cup {None}, FetchWeather(p, f, b)
        PROVE  /\ ver' \in 0..MaxCalls /\ ver < ver'
               /\ calls' \in [Call -> Request \cup {None}]
               /\ shown' \in BOOLEAN
               /\ \A v \in Call : calls'[v] # None => v <= ver'
    <2>1. [place |-> p, from |-> f, before |-> b] \in Request
      BY DEF Request
    <2>2. ver + 1 \in Call /\ ver' \in 0..MaxCalls /\ ver < ver'
      BY <1>f DEF FetchWeather
    <2>3. shown' \in BOOLEAN
      BY <1>f DEF FetchWeather
    <2>4. calls' \in [Call -> Request \cup {None}]
      BY <1>f, <2>1, <2>2 DEF FetchWeather
    <2>5. ASSUME NEW v \in Call, calls'[v] # None PROVE v <= ver'
      BY <1>f, <2>5 DEF FetchWeather
    <2> QED
      BY <2>2, <2>3, <2>4, <2>5
  <1>1. ASSUME Open PROVE TypeOK'
    <2>1. CASE saved # None
      BY <1>1, <2>1, <1>f DEF Open
    <2>2. CASE saved = None
      BY <1>1, <2>2 DEF Open, UseCurrentLocation
    <2> QED
      BY <2>1, <2>2
  <1>2. ASSUME AskCurrent PROVE TypeOK'
    BY <1>2 DEF AskCurrent, UseCurrentLocation
  <1>3. ASSUME NEW p \in Position, Located(p) PROVE TypeOK'
    <2>1. p \in Place /\ FetchWeather(p, "current", None)
      BY <1>3 DEF Located, Place
    <2>2. locating' \in BOOLEAN
      BY <1>3 DEF Located
    <2> QED
      BY <1>3, <1>f, <2>1, <2>2 DEF Located
  <1>4. ASSUME NotLocated PROVE TypeOK'
    BY <1>4 DEF NotLocated
  <1>5. ASSUME NEW c \in City, Pick(c) PROVE TypeOK'
    BY <1>5, <1>f DEF Pick, Place
  <1>6. ASSUME NEW v \in Call, ForecastReply(v) PROVE TypeOK'
    <2>1. calls[v] \in Request
      BY <1>6 DEF ForecastReply
    <2>2. calls[v].place \in Place
      BY <2>1 DEF Request
    <2>3. /\ calls' \in [Call -> Request \cup {None}]
          /\ \A w \in Call : calls'[w] # None => calls[w] # None
          /\ button' \in BOOLEAN
      BY <1>6 DEF ForecastReply, Done
    <2>4. CASE v = ver
      BY <1>6, <2>2, <2>3, <2>4 DEF ForecastReply, Draw
    <2>5. CASE v # ver
      BY <1>6, <2>3, <2>5 DEF ForecastReply
    <2> QED
      BY <2>4, <2>5
  <1>7. ASSUME NEW v \in Call, ForecastFail(v) PROVE TypeOK'
    <2>1. calls[v] \in Request
      BY <1>7 DEF ForecastFail
    <2>2. calls[v].before \in Place \cup {None}
      BY <2>1 DEF Request
    <2>3. /\ calls' \in [Call -> Request \cup {None}]
          /\ \A w \in Call : calls'[w] # None => calls[w] # None
          /\ button' \in BOOLEAN
      BY <1>7 DEF ForecastFail, Done
    <2> QED
      BY <1>7, <2>2, <2>3 DEF ForecastFail
  <1>8. ASSUME NEW v \in Call, TakeDown(v) \/ Lookup(v) PROVE TypeOK'
    BY <1>8 DEF TakeDown, Lookup, LookupReply, LookupFail
  <1>9. ASSUME Reload PROVE TypeOK'
    <2>1. /\ opened' \in BOOLEAN /\ locating' \in BOOLEAN
          /\ button' \in BOOLEAN /\ shown' \in BOOLEAN
      BY <1>9 DEF Reload
    <2>2. /\ ver' \in 0..MaxCalls /\ drawnBy' \in 0..ver'
          /\ reloads' \in 0..MaxReloads
      BY <1>9 DEF Reload
    <2>3. \A v \in Call : calls'[v] = None /\ lookups'[v] = None /\ v \notin timers'
      BY <1>9 DEF Reload
    <2> QED
      BY <1>9, <2>1, <2>2, <2>3 DEF Reload
  <1>10. CASE UNCHANGED vars
    BY <1>10 DEF vars, pageVars
  <1> QED
    BY <1>1, <1>2, <1>3, <1>4, <1>5, <1>6, <1>7, <1>8, <1>9, <1>10
    DEF Next, Locate, Forecast

THEOREM TypeCorrect == Spec => []TypeOK
  BY TypeInit, TypeStep, PTL DEF Spec

-----------------------------------------------------------------------------

\* A name is looked up only once its forecast is drawn, and while no later one
\* has been asked for that forecast is still the one drawn.
LookupsBelong ==
  \A v \in Call : lookups[v] # None =>
    /\ calls[v] = None
    /\ v = ver => drawn = lookups[v]

SavedInv == SavedIsDrawn /\ LookupsBelong

LEMMA SavedStep == TypeOK /\ SavedInv /\ [Next]_vars => SavedInv'
  <1> SUFFICES ASSUME TypeOK, SavedInv, [Next]_vars PROVE SavedInv'
    OBVIOUS
  <1> USE NoneAssumption DEF SavedInv, SavedIsDrawn, LookupsBelong
  <1>v. /\ ver \in Nat
        /\ calls \in [Call -> Request \cup {None}]
        /\ lookups \in [Call -> Place \cup {None}]
        /\ \A v \in Call : v \in Int /\ (lookups[v] # None => v <= ver)
    BY BoundsAssumption DEF TypeOK, Call
  <1>f. ASSUME NEW p, NEW f, NEW b, FetchWeather(p, f, b),
               UNCHANGED <<lookups, drawn, saved>>
        PROVE  SavedInv'
    BY <1>f, <1>v DEF FetchWeather
  <1>1. ASSUME Open PROVE SavedInv'
    BY <1>1, <1>f DEF Open, UseCurrentLocation
  <1>2. CASE AskCurrent \/ NotLocated
    BY <1>2 DEF AskCurrent, UseCurrentLocation, NotLocated
  <1>3. ASSUME NEW p \in Position, Located(p) PROVE SavedInv'
    BY <1>3, <1>f DEF Located
  <1>4. ASSUME NEW c \in City, Pick(c) PROVE SavedInv'
    BY <1>4, <1>f DEF Pick
  <1>5. ASSUME NEW v \in Call, ForecastReply(v) PROVE SavedInv'
    <2>1. lookups[v] = None
      BY <1>5 DEF ForecastReply
    <2>2. CASE v = ver
      BY <1>5, <1>v, <2>1, <2>2 DEF ForecastReply, Draw, Done
    <2>3. CASE v # ver
      BY <1>5, <1>v, <2>3 DEF ForecastReply, Done
    <2> QED
      BY <2>2, <2>3
  <1>6. ASSUME NEW v \in Call, ForecastFail(v) PROVE SavedInv'
    BY <1>6, <1>v DEF ForecastFail, Done
  <1>7. ASSUME NEW v \in Call, TakeDown(v) PROVE SavedInv'
    BY <1>7 DEF TakeDown
  <1>8. ASSUME NEW v \in Call, LookupReply(v) PROVE SavedInv'
    BY <1>8, <1>v DEF LookupReply
  <1>9. ASSUME NEW v \in Call, LookupFail(v) PROVE SavedInv'
    BY <1>9, <1>v DEF LookupFail
  <1>10. CASE Reload
    BY <1>10 DEF Reload
  <1>11. CASE UNCHANGED vars
    BY <1>11 DEF vars, pageVars
  <1> QED
    BY <1>1, <1>2, <1>3, <1>4, <1>5, <1>6, <1>7, <1>8, <1>9, <1>10, <1>11
    DEF Next, Locate, Forecast, Lookup

\* The place remembered for the next visit is the place drawn.
THEOREM SavedMatchesScreen == Spec => []SavedIsDrawn
  <1>1. Init => SavedInv
    BY DEF Init, SavedInv, SavedIsDrawn, LookupsBelong
  <1> QED
    BY <1>1, SavedStep, TypeCorrect, PTL DEF Spec, SavedInv

-----------------------------------------------------------------------------

\* The screen never goes back to an earlier request.
THEOREM ScreenMovesForward == Spec => DrawnNeverGoesBack
  <1>1. ASSUME TypeOK, [Next]_vars PROVE opened' => drawnBy <= drawnBy'
    <2>0. ver \in 0..MaxCalls /\ drawnBy \in 0..ver
      BY <1>1 DEF TypeOK
    <2>1. drawnBy \in Nat /\ drawnBy <= ver
      BY <2>0, BoundsAssumption
    <2>2. ASSUME NEW v \in Call, ForecastReply(v) PROVE drawnBy <= drawnBy'
      BY <2>1, <2>2 DEF ForecastReply, Draw
    <2>3. CASE Open \/ AskCurrent \/ Locate \/ \E c \in City : Pick(c)
      <3>1. UNCHANGED drawnBy
        BY <2>3 DEF Open, AskCurrent, Locate, Located, NotLocated, Pick
      <3> QED
        BY <2>1, <3>1
    <2>4. ASSUME NEW v \in Call, ForecastFail(v) \/ TakeDown(v) \/ Lookup(v)
          PROVE  drawnBy <= drawnBy'
      BY <2>1, <2>4 DEF ForecastFail, TakeDown, Lookup, LookupReply, LookupFail
    <2>5. CASE Reload
      BY <2>5 DEF Reload
    <2>6. CASE UNCHANGED vars
      BY <2>1, <2>6 DEF vars, pageVars
    <2> QED
      BY <1>1, <2>2, <2>3, <2>4, <2>5, <2>6 DEF Next, Forecast
  <1> QED
    BY <1>1, TypeCorrect, PTL DEF Spec, DrawnNeverGoesBack

-----------------------------------------------------------------------------

\* Version v is a request for the current location.
IsCurrent(v) == calls[v] # None /\ calls[v].from = "current"

\* There is one current-location request at most, and the button is on before
\* the script has run.
ButtonInv ==
  /\ ButtonOffWhileLocating
  /\ \A v, w \in Call : IsCurrent(v) /\ IsCurrent(w) => v = w
  /\ ~opened => button

LEMMA ButtonStep == TypeOK /\ ButtonInv /\ [Next]_vars => ButtonInv'
  <1> SUFFICES ASSUME TypeOK, ButtonInv, [Next]_vars PROVE ButtonInv'
    OBVIOUS
  <1> USE NoneAssumption DEF ButtonInv, ButtonOffWhileLocating, IsCurrent
  <1>v. /\ ver \in 0..MaxCalls /\ MaxCalls \in Nat
        /\ calls \in [Call -> Request \cup {None}]
        /\ button \in BOOLEAN /\ opened \in BOOLEAN /\ locating \in BOOLEAN
        /\ \A v \in Call : calls[v] # None => v <= ver
    BY BoundsAssumption DEF TypeOK
  <1>f. ASSUME NEW p \in Place, NEW f \in {"search", "current", "saved"},
               NEW b \in Place \cup {None}, FetchWeather(p, f, b)
        PROVE  /\ ver + 1 \in Call
               /\ \A v \in Call : IsCurrent(v)' <=>
                    IF v = ver + 1 THEN f = "current" ELSE IsCurrent(v)
               /\ ~IsCurrent(ver + 1)
    <2>1. ver + 1 \in Call /\ calls[ver + 1] = None
      BY <1>f, <1>v DEF FetchWeather, Call
    <2>2. [place |-> p, from |-> f, before |-> b] # None
      BY DEF Request
    <2> QED
      BY <1>f, <1>v, <2>1, <2>2 DEF FetchWeather
  <1>d. ASSUME NEW v \in Call, Done(v)
        PROVE  /\ \A w \in Call : IsCurrent(w)' <=> w # v /\ IsCurrent(w)
               /\ button' = IF calls[v].from = "current" THEN TRUE ELSE button
    BY <1>d, <1>v DEF Done
  <1>1. ASSUME Open PROVE ButtonInv'
    <2>1. CASE saved # None
      <3>1. saved \in Place
        BY <2>1 DEF TypeOK
      <3> QED
        BY <1>1, <2>1, <3>1, <1>f DEF Open
    <2>2. CASE saved = None
      BY <1>1, <2>2, <1>v DEF Open, UseCurrentLocation
    <2> QED
      BY <2>1, <2>2
  <1>2. ASSUME AskCurrent PROVE ButtonInv'
    <2>1. button /\ opened /\ UNCHANGED <<opened, calls>>
      BY <1>2 DEF AskCurrent, UseCurrentLocation
    <2>2. ~locating /\ \A v \in Call : ~IsCurrent(v)
      BY <2>1
    <2>3. CASE locating' = TRUE /\ button' = FALSE
      BY <2>1, <2>2, <2>3
    <2>4. CASE UNCHANGED <<locating, button>>
      BY <2>1, <2>2, <2>4
    <2> QED
      BY <1>2, <2>3, <2>4 DEF AskCurrent, UseCurrentLocation
  <1>3. ASSUME NEW p \in Position, Located(p) PROVE ButtonInv'
    BY <1>3, <1>f DEF Located, Place
  <1>4. ASSUME NotLocated PROVE ButtonInv'
    BY <1>4 DEF NotLocated
  <1>5. ASSUME NEW c \in City, Pick(c) PROVE ButtonInv'
    <2>1. label \in Place \cup {None}
      BY DEF TypeOK
    <2> QED
      BY <1>5, <2>1, <1>f DEF Pick, Place
  <1>6. ASSUME NEW v \in Call, Forecast(v) PROVE ButtonInv'
    <2>1. calls[v] # None /\ Done(v) /\ UNCHANGED <<opened, locating>>
      BY <1>6 DEF Forecast, ForecastReply, ForecastFail
    <2> QED
      BY <2>1, <1>d, <1>v
  <1>7. ASSUME NEW v \in Call, TakeDown(v) \/ Lookup(v) PROVE ButtonInv'
    BY <1>7 DEF TakeDown, Lookup, LookupReply, LookupFail
  <1>8. CASE Reload
    BY <1>8 DEF Reload
  <1>9. CASE UNCHANGED vars
    BY <1>9 DEF vars, pageVars
  <1> QED
    BY <1>1, <1>2, <1>3, <1>4, <1>5, <1>6, <1>7, <1>8, <1>9 DEF Next, Locate

\* The button is off exactly while a current-location request is under way.
THEOREM ButtonMatchesRequest == Spec => []ButtonOffWhileLocating
  <1>1. Init => ButtonInv
    BY DEF Init, ButtonInv, ButtonOffWhileLocating, IsCurrent
  <1> QED
    BY <1>1, ButtonStep, TypeCorrect, PTL DEF Spec, ButtonInv

-----------------------------------------------------------------------------
(* The spinner.  SpinnerHasCause is inductive by itself: whoever puts the    *)
(* spinner up leaves something behind, and what ends takes it down, starts a *)
(* timer, or was superseded by a later request, which is still there.        *)

Cause ==
  \/ locating
  \/ \E v \in Call : v = ver /\ calls[v] # None
  \/ timers # {}

LEMMA CauseStep == TypeOK /\ SpinnerHasCause /\ [Next]_vars => SpinnerHasCause'
  <1> SUFFICES ASSUME TypeOK, opened /\ ~shown => Cause, [Next]_vars, opened', ~shown'
               PROVE  Cause'
    BY DEF SpinnerHasCause, Cause
  <1>v. /\ ver \in 0..MaxCalls /\ MaxCalls \in Nat
        /\ calls \in [Call -> Request \cup {None}]
    BY BoundsAssumption DEF TypeOK
  <1>f. ASSUME NEW p \in Place, NEW f \in {"search", "current", "saved"},
               NEW b \in Place \cup {None}, FetchWeather(p, f, b)
        PROVE  Cause'
    <2>1. ver + 1 \in Call /\ ver' = ver + 1
      BY <1>f, <1>v DEF FetchWeather, Call
    <2>2. [place |-> p, from |-> f, before |-> b] # None
      BY NoneAssumption DEF Request
    <2> QED
      BY <1>f, <1>v, <2>1, <2>2 DEF FetchWeather, Cause
  <1>1. CASE Open
    <2>1. CASE saved # None
      <3>1. saved \in Place
        BY <2>1 DEF TypeOK
      <3> QED
        BY <1>1, <1>f, <2>1, <3>1 DEF Open
    <2>2. CASE saved = None
      BY <1>1, <2>2 DEF Open, UseCurrentLocation, Cause
    <2> QED
      BY <2>1, <2>2
  <1>2. CASE AskCurrent
    BY <1>2 DEF AskCurrent, UseCurrentLocation, Cause
  <1>3. ASSUME NEW p \in Position, Located(p) PROVE Cause'
    BY <1>3, <1>f DEF Located, Place
  <1>4. ASSUME NEW c \in City, Pick(c) PROVE Cause'
    <2>1. label \in Place \cup {None}
      BY DEF TypeOK
    <2> QED
      BY <1>4, <1>f, <2>1 DEF Pick, Place
  <1>5. ASSUME NEW v \in Call, Forecast(v) PROVE Cause'
    <2>1. /\ UNCHANGED <<opened, ver, locating>>
          /\ \A w \in Call \ {v} : calls'[w] = calls[w]
      BY <1>5, <1>v DEF Forecast, ForecastReply, ForecastFail, Done
    <2>2. CASE v = ver
      <3>1. ForecastFail(v)
        BY <1>5, <2>2 DEF Forecast, ForecastReply, Draw
      <3> QED
        BY <2>2, <3>1 DEF ForecastFail, Cause
    <2>3. CASE v # ver
      BY <1>5, <2>1, <2>3 DEF Forecast, ForecastReply, ForecastFail, Cause
    <2> QED
      BY <2>2, <2>3
  <1>6. ASSUME NEW v \in Call, Lookup(v) PROVE Cause'
    <2>1. UNCHANGED <<opened, ver, calls, locating, shown, timers>>
      BY <1>6 DEF Lookup, LookupReply, LookupFail
    <2> QED
      BY <2>1 DEF Cause
  <1>7. CASE UNCHANGED vars
    BY <1>7 DEF vars, pageVars, Cause
  \* The others take the spinner down or start over.
  <1>8. CASE NotLocated \/ Reload \/ \E v \in Call : TakeDown(v)
    BY <1>8 DEF NotLocated, Reload, TakeDown
  <1> QED
    BY <1>1, <1>2, <1>3, <1>4, <1>5, <1>6, <1>7, <1>8 DEF Next, Locate

\* The page is never left on its spinner with nothing under way; that what is
\* under way ends is fairness, and PageComesBack is left to TLC.
THEOREM SpinnerIsAccountedFor == Spec => []SpinnerHasCause
  <1>1. Init => SpinnerHasCause
    BY DEF Init, SpinnerHasCause
  <1> QED
    BY <1>1, CauseStep, TypeCorrect, PTL DEF Spec

=============================================================================
