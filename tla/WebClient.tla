------------------------------- MODULE WebClient -------------------------------
(***************************************************************************)
(* The place shown by the page, caddy/html/index.html: which forecast is   *)
(* drawn, which name stands above it, and which place is remembered for    *)
(* the next visit.  The browser runs one handler at a time; what races are *)
(* the replies to its requests, the geolocation callback, the timers that  *)
(* take down an error message, the viewer's clicks and a reload.           *)
(*                                                                         *)
(* A label is the place it names, as a name or as coordinates; "—", what   *)
(* the page starts with, names none.  The search overlay can be opened     *)
(* over anything (Ctrl-K), so a city can be picked at any time.  Storage   *)
(* works, and one tab uses it.                                             *)
(***************************************************************************)
EXTENDS Integers

CONSTANTS
  City,         \* places the search can offer
  Position,     \* places geolocation can report
  None,         \* no place, no request
  MaxCalls,     \* bound on the forecast requests of one page load
  MaxReloads    \* bound on the reloads

Place == City \cup Position
Call == 1..MaxCalls

\* A forecast request, by where it came from; before is the label a failed pick
\* goes back to.
Request == [place : Place, from : {"search", "current", "saved"}, before : Place \cup {None}]

ASSUME NoneAssumption == None \notin Place /\ None \notin Request
ASSUME BoundsAssumption == MaxCalls \in Nat /\ MaxReloads \in Nat

VARIABLES
  opened,     \* the script has run
  ver,        \* weatherVer, and the number of the latest forecast request
  calls,      \* forecast requests in flight, by their version
  lookups,    \* places being looked up by name, by the version they belong to
  timers,     \* failed requests whose message has not been taken down yet
  locating,   \* getCurrentPosition has not called back
  button,     \* the current-location button is enabled
  shown,      \* app is displayed, and loading is not
  drawn,      \* the place whose forecast is drawn
  drawnBy,    \* the version that drew it
  label,      \* locTxt
  saved,      \* skyn-location in localStorage
  reloads

pageVars == <<ver, calls, lookups, timers, locating, button, shown, drawn, drawnBy, label>>
vars == <<opened, pageVars, saved, reloads>>

Init ==
  /\ opened = FALSE
  /\ ver = 0
  /\ calls = [v \in Call |-> None]
  /\ lookups = [v \in Call |-> None]
  /\ timers = {}
  /\ locating = FALSE
  /\ button = TRUE
  /\ shown = FALSE
  /\ drawn = None
  /\ drawnBy = 0
  /\ label = None
  /\ saved \in Place \cup {None}
  /\ reloads = 0

-----------------------------------------------------------------------------

\* Mutant: the version is not raised.
FetchWeatherMutant(place, from, before) ==
  /\ ver < MaxCalls
  /\ ver' = ver
  /\ calls' = [calls EXCEPT ![ver + 1] = [place |-> place, from |-> from, before |-> before]]
  /\ shown' = FALSE
\* fetchWeather up to its fetch.
FetchWeather(place, from, before) ==
  /\ ver < MaxCalls
  /\ ver' = ver + 1
  /\ calls' = [calls EXCEPT ![ver + 1] = [place |-> place, from |-> from, before |-> before]]
  /\ shown' = FALSE

\* useCurrentLocation up to getCurrentPosition, and in a browser that has none.
UseCurrentLocation ==
  /\ \/ locating' = TRUE /\ button' = FALSE /\ UNCHANGED <<shown, label>>
     \/ shown' = TRUE /\ label' = None /\ UNCHANGED <<locating, button>>
  /\ UNCHANGED <<ver, calls>>

\* initLocation: the place of the last visit, else the current one.
Open ==
  /\ ~opened
  /\ opened' = TRUE
  /\ IF saved # None
     THEN FetchWeather(saved, "saved", None) /\ UNCHANGED <<locating, button, label>>
     ELSE UseCurrentLocation
  /\ UNCHANGED <<lookups, timers, drawn, drawnBy, saved, reloads>>

\* The viewer asks for the current location; the button is part of app.
AskCurrent ==
  /\ opened /\ shown /\ button
  /\ UseCurrentLocation
  /\ UNCHANGED <<opened, lookups, timers, drawn, drawnBy, saved, reloads>>

\* The viewer picks a city; its name is shown before its forecast is there.
Pick(c) ==
  /\ opened
  /\ FetchWeather(c, "search", label)
  /\ label' = c
  /\ UNCHANGED <<opened, lookups, timers, locating, button, drawn, drawnBy, saved, reloads>>

\* Geolocation reports a position, whatever the viewer has done meanwhile.
Located(p) ==
  /\ locating
  /\ locating' = FALSE
  /\ FetchWeather(p, "current", None)
  /\ UNCHANGED <<opened, lookups, timers, button, drawn, drawnBy, label, saved, reloads>>

\* Geolocation is denied, unavailable or late.
NotLocated ==
  /\ locating
  /\ locating' = FALSE
  /\ shown' = TRUE
  /\ label' = None
  /\ button' = TRUE
  /\ UNCHANGED <<opened, ver, calls, lookups, timers, drawn, drawnBy, saved, reloads>>

\* The request is over: onDone gives the button back to a request of its own.
Done(v) ==
  /\ calls' = [calls EXCEPT ![v] = None]
  /\ button' = IF calls[v].from = "current" THEN TRUE ELSE button

\* render and onSuccess.  A forecast of the current location is drawn without a
\* label, which is left to the lookup of its name.
Draw(v) ==
  LET r == calls[v] IN
  /\ shown' = TRUE
  /\ drawn' = r.place
  /\ drawnBy' = v
  /\ label' = IF r.from = "current" THEN label ELSE r.place
  /\ saved' = r.place
  /\ lookups' = IF r.from = "current" THEN [lookups EXCEPT ![v] = r.place] ELSE lookups

\* Mutant: every forecast that arrives is drawn.
ForecastReplyMutant(v) ==
  /\ calls[v] # None
  /\ Draw(v)
  /\ Done(v)
  /\ UNCHANGED <<opened, ver, timers, locating, reloads>>
\* A forecast arrives, and is drawn if no later one was asked for.
ForecastReply(v) ==
  /\ calls[v] # None
  /\ IF v = ver THEN Draw(v) ELSE UNCHANGED <<shown, drawn, drawnBy, label, saved, lookups>>
  /\ Done(v)
  /\ UNCHANGED <<opened, ver, timers, locating, reloads>>

\* Mutant: a request that was superseded ends without onDone.
ForecastFailDoneMutant(v) ==
  /\ calls[v] # None
  /\ IF v = ver
     THEN /\ timers' = timers \cup {v}
          /\ label' = IF calls[v].from = "search" THEN calls[v].before ELSE label
          /\ Done(v)
     ELSE /\ calls' = [calls EXCEPT ![v] = None]
          /\ UNCHANGED <<timers, label, button>>
  /\ UNCHANGED <<opened, ver, lookups, locating, shown, drawn, drawnBy, saved, reloads>>
\* Mutant: the message of a failure stays up.
ForecastFailTimerMutant(v) ==
  /\ calls[v] # None
  /\ label' = IF v = ver /\ calls[v].from = "search" THEN calls[v].before ELSE label
  /\ Done(v)
  /\ UNCHANGED <<opened, ver, lookups, timers, locating, shown, drawn, drawnBy, saved, reloads>>
\* No forecast, or one that cannot be drawn.
ForecastFail(v) ==
  /\ calls[v] # None
  /\ IF v = ver
     THEN /\ timers' = timers \cup {v}
          /\ label' = IF calls[v].from = "search" THEN calls[v].before ELSE label
     ELSE UNCHANGED <<timers, label>>
  /\ Done(v)
  /\ UNCHANGED <<opened, ver, lookups, locating, shown, drawn, drawnBy, saved, reloads>>

\* 2.5 s after a failure app is shown again, whatever is being loaded by then.
TakeDown(v) ==
  /\ v \in timers
  /\ timers' = timers \ {v}
  /\ shown' = TRUE
  /\ UNCHANGED <<opened, ver, calls, lookups, locating, button, drawn, drawnBy, label, saved, reloads>>

\* Mutant: a name is shown and saved whatever was asked for since.
LookupReplyMutant(v) ==
  /\ lookups[v] # None
  /\ label' = lookups[v] /\ saved' = lookups[v]
  /\ lookups' = [lookups EXCEPT ![v] = None]
  /\ UNCHANGED <<opened, ver, calls, timers, locating, button, shown, drawn, drawnBy, reloads>>
\* The name of the current location arrives.
LookupReply(v) ==
  /\ lookups[v] # None
  /\ IF v = ver THEN label' = lookups[v] /\ saved' = lookups[v] ELSE UNCHANGED <<label, saved>>
  /\ lookups' = [lookups EXCEPT ![v] = None]
  /\ UNCHANGED <<opened, ver, calls, timers, locating, button, shown, drawn, drawnBy, reloads>>

\* It does not, or is empty.
LookupFail(v) ==
  /\ lookups[v] # None
  /\ lookups' = [lookups EXCEPT ![v] = None]
  /\ UNCHANGED <<opened, ver, calls, timers, locating, button, shown, drawn, drawnBy, label, saved, reloads>>

\* Everything but localStorage starts over.
Reload ==
  /\ reloads < MaxReloads
  /\ reloads' = reloads + 1
  /\ opened' = FALSE
  /\ ver' = 0
  /\ calls' = [v \in Call |-> None]
  /\ lookups' = [v \in Call |-> None]
  /\ timers' = {}
  /\ locating' = FALSE
  /\ button' = TRUE
  /\ shown' = FALSE
  /\ drawn' = None
  /\ drawnBy' = 0
  /\ label' = None
  /\ UNCHANGED saved

Locate == (\E p \in Position : Located(p)) \/ NotLocated
Forecast(v) == ForecastReply(v) \/ ForecastFail(v)
Lookup(v) == LookupReply(v) \/ LookupFail(v)

Next ==
  \/ Open \/ AskCurrent \/ Locate \/ Reload
  \/ \E c \in City : Pick(c)
  \/ \E v \in Call : Forecast(v) \/ TakeDown(v) \/ Lookup(v)

Spec == Init /\ [][Next]_vars

\* The script runs; a forecast request is answered or fails (the server's write
\* timeout ends it); timers fire; geolocation calls back once the viewer has
\* answered the prompt.  Nobody has to click.
FairSpec ==
  /\ Spec
  /\ WF_vars(Open) /\ WF_vars(Locate)
  /\ \A v \in Call : WF_vars(Forecast(v)) /\ WF_vars(TakeDown(v))

-----------------------------------------------------------------------------
(* Properties *)

\* Every variable has its type; a version in use is one that was handed out.
TypeOK ==
  /\ opened \in BOOLEAN /\ locating \in BOOLEAN /\ button \in BOOLEAN /\ shown \in BOOLEAN
  /\ ver \in 0..MaxCalls /\ drawnBy \in 0..ver
  /\ calls \in [Call -> Request \cup {None}]
  /\ lookups \in [Call -> Place \cup {None}]
  /\ timers \subseteq Call
  /\ drawn \in Place \cup {None} /\ label \in Place \cup {None} /\ saved \in Place \cup {None}
  /\ reloads \in 0..MaxReloads
  /\ \A v \in Call : calls[v] # None \/ lookups[v] # None \/ v \in timers => v <= ver

\* What a reload will show is what is on the screen: the place remembered is
\* the place drawn, although two kinds of late reply write it.
SavedIsDrawn == drawn # None => saved = drawn

\* Replies come in any order, and a forecast never makes way for one that was
\* asked for earlier (index.html:1297, "only the latest call may update the UI").
DrawnNeverGoesBack == [][opened' => drawnBy <= drawnBy']_vars

\* The button is off exactly while a current-location request is under way, from
\* the click to the end of its forecast request, so there is never a second one.
ButtonOffWhileLocating ==
  /\ ~button <=> locating \/ \E v \in Call : calls[v] # None /\ calls[v].from = "current"
  /\ locating => \A v \in Call : calls[v] # None => calls[v].from # "current"

\* A spinner always has something under way that will take it away: geolocation,
\* the latest forecast request, which a superseded one cannot stand in for
\* (index.html:1316), or the timer of a failure.
SpinnerHasCause ==
  opened /\ ~shown =>
    \/ locating
    \/ \E v \in Call : v = ver /\ calls[v] # None
    \/ timers # {}

\* The page does not stay on its spinner.
PageComesBack == ~shown ~> shown

\* index.html:1055: "keep the coordinate label if reverse lookup fails".  The
\* coordinates never were the label: what is kept is the label of the place
\* drawn before, above the forecast of the current location.
CoordinateLabelKept ==
  [][\A v \in Call :
       v = ver /\ lookups[v] # None /\ lookups'[v] = None /\ opened'
         => label' \in {lookups[v], None}]_vars

=============================================================================
