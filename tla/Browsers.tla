------------------------------ MODULE Browsers ------------------------------
(***************************************************************************)
(* Browser sessions: the driver both doors go through (the SDK's gRPC      *)
(* server with an execution token, the HTTP API with an operator's         *)
(* credential), the supervisor that starts one browser service per host,   *)
(* the session records in the shared cache, and the browser profiles that  *)
(* sessions are seeded from and saved to.                                  *)
(*                                                                         *)
(* An action is one call to the cache, the database or the browser         *)
(* service; between two calls of one request everything else may happen.   *)
(* The browser service is another program: it is modelled from the calls   *)
(* the driver makes.  A cookie jar is the set of the organizations whose   *)
(* logins it holds, so that {} is the empty jar and a jar that names       *)
(* another organization is a leak.  Identities, names, addresses of pages  *)
(* and display frames are left out.                                        *)
(***************************************************************************)
EXTENDS Naturals, FiniteSets

CONSTANTS
    NULL,        \* no row, no record, no caller
    DELETED,     \* the row of a profile that is gone; its id is not used again
    Replicas,    \* hosts, each with one control plane
    Orgs,        \* organizations; an operator is named by the organization
    Runs,        \* executions whose handlers drive browsers
    RunOrg,      \* the organization of an execution's app
    RunHost,     \* the host that runs its handler
    Sessions,    \* ids the browser service mints
    Profiles,    \* ids of browser profiles
    Known,       \* the profile that may be there at the start
    KnownOrg,    \* and whose it is then; it remembers a login
    Desks,       \* the operators: pairs of an organization and a replica it is served by
    Clients,     \* requests that can be open at once
    MaxCalls,    \* bound on the requests that begin
    MaxEvents    \* bound on failing calls, crashes, exits and vanishing callers

ASSUME BrowsersAssumption ==
    /\ RunOrg \in [Runs -> Orgs] /\ RunHost \in [Runs -> Replicas]
    /\ Desks \subseteq Orgs \X Replicas
    /\ Known \in Profiles /\ KnownOrg \in Orgs
    /\ Runs \cap Orgs = {}
    /\ NULL \notin Replicas \cup Orgs \cup Runs \cup Sessions \cup Profiles \cup Clients
    /\ MaxCalls \in Nat /\ MaxEvents \in Nat

\* Rows of the cache and of the database, and a browser as the service keeps it.
Records == [org : Orgs, profile : Profiles \cup {NULL}, host : Replicas, leased : BOOLEAN]
ProfileRows == [org : Orgs, jar : SUBSET Orgs]
BrowserRows == [up : BOOLEAN, host : Replicas \cup {NULL}, org : Orgs \cup {NULL},
                profile : Profiles \cup {NULL}, jar : SUBSET Orgs, wanted : SUBSET Orgs,
                driven : BOOLEAN, lost : BOOLEAN]

ASSUME RowAssumption ==
    /\ NULL \notin Records /\ NULL \notin ProfileRows /\ NULL \notin BrowserRows
    /\ NULL \notin {"open", "drive", "watch", "close", "update"}

VARIABLES
    service,   \* per host, the supervisor's service: none, up, or dead unnoticed
    starting,  \* per host, the request that holds the supervisor's mutex in start
    children,  \* per host, the service processes the supervisor has running
    browser,   \* the browsers, by the session id the service minted; lost is history:
               \* the plane failed to stop it, or forgot it
    record,    \* the session records in the cache
    profile,   \* the rows of browser_profiles
    live,      \* the executions whose token is in the cache
    call,      \* what each open request knows and where it is
    left       \* what is left of the bounds

vars == <<service, starting, children, browser, record, profile, live, call, left>>
plane == <<service, starting, children>>
store == <<record, profile, live>>

---------------------------------------------------------------------------
(* Callers, records and rows. *)

\* The organization comes from the credential: what Mint stored under the token,
\* or the principal's.
OrgOf(who) == IF who \in Runs THEN RunOrg[who] ELSE who

\* identify accepts a token that is still in the cache, from a handler of the host.
identify(who, r) == who \in live /\ r = RunHost[who]

\* Whom the two doors let in.
Admitted(who, r) == who \in Orgs \/ identify(who, r)

Idle == [op |-> NULL, at |-> "idle", who |-> NULL, org |-> NULL, on |-> NULL, sid |-> NULL,
         profile |-> NULL, storage |-> FALSE, jar |-> {}, held |-> NULL, gone |-> FALSE]

\* browser.NewSession: the record Adopt stores, with a lease on it.
NewSession(o, p, r) == [org |-> o, profile |-> p, host |-> r, leased |-> TRUE]

SaveForever(s, session) == [record EXCEPT ![s] = [session EXCEPT !.leased = FALSE]]

\* BrowserSessionRepository.Save: the record and a fresh lease, whatever is there.
Save(s, session) == [record EXCEPT ![s] = [session EXCEPT !.leased = TRUE]]

GetAny(o, s) == record[s]

\* BrowserSessionRepository.Get: the key names the organization, so the session of
\* another one reads as absent.
Get(o, s) == IF record[s] # NULL /\ record[s].org = o THEN record[s] ELSE NULL

\* BrowserSessionRepository.List: what the dashboard of an organization shows.
List(o) == {s \in Sessions : Get(o, s) # NULL}

\* browser.New, with an empty jar.
NewProfile(o) == [org |-> o, jar |-> {}]

\* BrowserProfileRepository.GetByID, scoped by the organization.
GetByID(o, p) ==
    IF profile[p] \notin {NULL, DELETED} /\ profile[p].org = o THEN profile[p] ELSE NULL

\* BrowserProfileRepository.Update writes every column of a row that is still there.
Update(p, row) == [profile EXCEPT ![p] = row]

\* CaptureCookies and Capture replace the jar of the row that was read.
CaptureCookies(row, jar) == [row EXCEPT !.jar = jar]

---------------------------------------------------------------------------
(* The browser service. *)

Running(s) == browser[s] # NULL /\ browser[s].up

\* A browser as Open starts it: an empty jar, to be seeded with what was wanted.
Fresh(o, p, r, wanted) ==
    [up |-> TRUE, host |-> r, org |-> o, profile |-> p, jar |-> {}, wanted |-> wanted,
     driven |-> FALSE, lost |-> FALSE]

Stopped == [up |-> FALSE, host |-> NULL, org |-> NULL, profile |-> NULL, jar |-> {},
            wanted |-> {}, driven |-> FALSE, lost |-> FALSE]

StopOn(r) == [s \in Sessions |-> IF Running(s) /\ browser[s].host = r THEN Stopped ELSE browser[s]]

\* The service of the request's host answers a request that is still wanted.
Answers(c) == service[call[c].on] = "up" /\ ~call[c].gone

\* ... and knows the session.
Reaches(c) ==
    Answers(c) /\ Running(call[c].sid) /\ browser[call[c].sid].host = call[c].on

---------------------------------------------------------------------------
(* Steps of a request. *)

At(c, place) == call[c].at = place
Go(c, next) == call' = [call EXCEPT ![c] = next]
Move(c, place) == Go(c, [call[c] EXCEPT !.at = place])
Done(c) == Go(c, Idle)

Event == left.events > 0 /\ left' = [left EXCEPT !.events = @ - 1]

\* A call that fails: surely under the condition, otherwise as one of the bounded
\* events.
Fails(certain) == IF certain THEN UNCHANGED left ELSE Event

Begins(c, who, r) ==
    /\ At(c, "idle") /\ left.calls > 0 /\ Admitted(who, r)
    /\ left' = [left EXCEPT !.calls = @ - 1]

Request(op, at, who, r) ==
    [Idle EXCEPT !.op = op, !.at = at, !.who = who, !.org = OrgOf(who), !.on = r]

---------------------------------------------------------------------------
(* The supervisor. *)

\* Where a request makes its first call to the service, and asks for a client.
Asks == {"persona", "relay", "capture", "stop"}

\* ProcessState is set by Wait alone, and only Close waits: a service that has
\* started counts as alive until the plane exits.
alive(r) == service[r] # "none"

\* Spawning the executable; the request goes on where it was.
start(c) ==
    /\ starting' = [starting EXCEPT ![call[c].on] = c]
    /\ children' = [children EXCEPT ![call[c].on] = @ + 1]
    /\ Go(c, [call[c] EXCEPT !.at = "starting", !.held = call[c].at])

\* Client, with the mutex: the service that is alive is used at once (the guard of
\* the steps at Asks), otherwise one is started and whoever else asks waits.
Client(c) ==
    /\ call[c].at \in Asks /\ ~alive(call[c].on) /\ starting[call[c].on] = NULL
    /\ start(c)
    /\ UNCHANGED <<service, browser, store, left>>

\* waitForListener connected.
StartReady(c) ==
    /\ At(c, "starting")
    /\ service' = [service EXCEPT ![call[c].on] = "up"]
    /\ starting' = [starting EXCEPT ![call[c].on] = NULL]
    /\ Go(c, [call[c] EXCEPT !.at = call[c].held, !.held = NULL])
    /\ UNCHANGED <<children, browser, store, left>>

StartFailsLocked(c) ==
    /\ At(c, "starting") /\ Fails(call[c].gone) /\ Done(c)
    /\ children' = [children EXCEPT ![call[c].on] = @ - 1]
    /\ UNCHANGED <<service, starting, browser, store>>

StartFailsTwice(c) ==
    /\ At(c, "starting") /\ Fails(call[c].gone) /\ Done(c)
    /\ starting' = [starting EXCEPT ![call[c].on] = NULL]
    /\ children' = [children EXCEPT ![call[c].on] = @ - 2]
    /\ UNCHANGED <<service, browser, store>>

\* It timed out, or the caller left: the child is killed and waited for, and the
\* mutex released.
StartFails(c) ==
    /\ At(c, "starting") /\ Fails(call[c].gone) /\ Done(c)
    /\ starting' = [starting EXCEPT ![call[c].on] = NULL]
    /\ children' = [children EXCEPT ![call[c].on] = @ - 1]
    /\ UNCHANGED <<service, browser, store>>

---------------------------------------------------------------------------
(* Open. *)

Open(c, who, r, p, storage) ==
    /\ Begins(c, who, r) /\ (storage => p # NULL)
    /\ Go(c, [Request("open", "persona", who, r) EXCEPT !.profile = p, !.storage = storage])
    /\ UNCHANGED <<plane, browser, store>>

\* OpenSession, for the execution its token names.
OpenSession(c, x, p, storage) == Open(c, x, RunHost[x], p, storage)

\* openBrowserSession, for an operator, at any replica.
openBrowserSession(c, o, r, p, storage) == Open(c, o, r, p, storage)

\* The profile is read for what the browser wears and for its jar; without one the
\* browser wears an identity of its own and starts empty.
persona(c) ==
    LET row == GetByID(call[c].org, call[c].profile) IN
    /\ At(c, "persona") /\ alive(call[c].on)
    /\ \/ call[c].profile = NULL /\ Move(c, "spawn")
       \/ /\ call[c].profile # NULL
          /\ IF row = NULL \/ call[c].gone THEN Done(c)
             ELSE Go(c, [call[c] EXCEPT !.at = "spawn",
                                        !.jar = IF call[c].storage THEN row.jar ELSE {}])
    /\ UNCHANGED <<plane, browser, store, left>>

\* The service mints an id that no browser has had.
Spawned(c, s) ==
    [browser EXCEPT ![s] = Fresh(call[c].org, call[c].profile, call[c].on, call[c].jar)]

Spawn(c, s) ==
    /\ At(c, "spawn") /\ Answers(c) /\ browser[s] = NULL
    /\ browser' = Spawned(c, s)
    /\ Go(c, [call[c] EXCEPT !.at = IF call[c].jar = {} THEN "adopt" ELSE "seed", !.sid = s])
    /\ UNCHANGED <<plane, store, left>>

\* The service refuses: surely once the ids of the bound are used up.
SpawnFails(c) ==
    /\ At(c, "spawn") /\ Done(c)
    /\ Fails(~Answers(c) \/ \A s \in Sessions : browser[s] # NULL)
    /\ UNCHANGED <<plane, browser, store>>

\* The caller leaves while the service opens: the browser is there and its id is
\* not heard of.
SpawnUnheard(c, s) ==
    /\ At(c, "spawn") /\ call[c].gone /\ service[call[c].on] = "up" /\ browser[s] = NULL
    /\ browser' = [Spawned(c, s) EXCEPT ![s].lost = TRUE] /\ Done(c)
    /\ UNCHANGED <<plane, store, left>>

\* SetCookies with the profile's jar, when there is one to load.
Seed(c) ==
    /\ At(c, "seed") /\ Reaches(c)
    /\ browser' = [browser EXCEPT ![call[c].sid].jar = call[c].jar]
    /\ Move(c, "adopt")
    /\ UNCHANGED <<plane, store, left>>

SeedFails(c) ==
    /\ At(c, "seed") /\ Fails(~Reaches(c))
    /\ Move(c, "abandon")
    /\ UNCHANGED <<plane, browser, store>>

\* Adopt registers the session under the id the service minted.
Adopt(c) ==
    /\ At(c, "adopt") /\ ~call[c].gone
    /\ record' = Save(call[c].sid, NewSession(call[c].org, call[c].profile, call[c].on))
    /\ Done(c)
    /\ UNCHANGED <<plane, browser, profile, live, left>>

AdoptFailsQuietly(c) ==
    /\ At(c, "adopt") /\ Fails(call[c].gone)
    /\ Done(c)
    /\ UNCHANGED <<plane, browser, store>>

AdoptFails(c) ==
    /\ At(c, "adopt") /\ Fails(call[c].gone)
    /\ Move(c, "abandon")
    /\ UNCHANGED <<plane, browser, store>>

\* abandon stops the browser of an Open that failed ...
abandon(c) ==
    /\ At(c, "abandon") /\ Reaches(c)
    /\ browser' = [browser EXCEPT ![call[c].sid] = Stopped]
    /\ Done(c)
    /\ UNCHANGED <<plane, store, left>>

\* Nothing in the plane leads to the browser any more, if it runs.
Lose(s) == browser' = IF Running(s) THEN [browser EXCEPT ![s].lost = TRUE] ELSE browser

\* ... with the caller's context, and drops its own failure.
abandonFails(c) ==
    /\ At(c, "abandon") /\ Fails(~Reaches(c)) /\ Lose(call[c].sid) /\ Done(c)
    /\ UNCHANGED <<plane, store>>

---------------------------------------------------------------------------
(* Driving and watching. *)

\* Driving: Touch reads the record ...
Driving(c, who, r, s) ==
    /\ Begins(c, who, r) /\ Get(OrgOf(who), s) # NULL
    /\ Go(c, [Request("drive", "touch", who, r) EXCEPT !.sid = s, !.held = Get(OrgOf(who), s)])
    /\ UNCHANGED <<plane, browser, store>>

\* The two doors onto it: identify, or the principal, first.
SDKDriving(c, x, s) == Driving(c, x, RunHost[x], s)
HTTPDriving(c, o, r, s) == Driving(c, o, r, s)

\* The commands of both doors: to load and read a page, to act on it, and to read
\* and write the jar.  All of them authorize, touch, and relay.
SDKNavigates(c, x, s) == SDKDriving(c, x, s)
SDKActs(c, x, s) == SDKDriving(c, x, s)
SDKCookies(c, x, s) == SDKDriving(c, x, s)
OperatorNavigates(c, o, r, s) == HTTPDriving(c, o, r, s)
OperatorActs(c, o, r, s) == HTTPDriving(c, o, r, s)
OperatorCookies(c, o, r, s) == HTTPDriving(c, o, r, s)

\* ... and saves what it read, with a fresh lease ...
Touch(c) ==
    /\ At(c, "touch")
    /\ IF call[c].gone THEN Done(c) /\ UNCHANGED record
       ELSE /\ record' = Save(call[c].sid, call[c].held)
            /\ Go(c, [call[c] EXCEPT !.at = "relay", !.held = NULL])
    /\ UNCHANGED <<plane, browser, profile, live, left>>

TouchFails(c) ==
    /\ At(c, "touch") /\ Event /\ Done(c)
    /\ UNCHANGED <<plane, browser, store>>

\* ... before the command is relayed.
Relay(c, jar) ==
    /\ At(c, "relay") /\ Reaches(c)
    /\ browser' = [browser EXCEPT ![call[c].sid].jar = jar, ![call[c].sid].driven = TRUE]
    /\ Done(c)
    /\ UNCHANGED <<plane, store, left>>

\* What a jar may hold after a command to the page behind it, which signs the caller
\* in or out ...
AfterCommand(c) ==
    LET jar == browser[call[c].sid].jar IN {jar, jar \cup {call[c].org}, {}}

\* ... and after GetCookies and SetCookies.
AfterCookies(c) ==
    LET jar == browser[call[c].sid].jar IN {jar, jar \cup {call[c].org}}

Driven(c) == AfterCommand(c) \cup AfterCookies(c)

\* A command the browser refuses, or that does not reach one.
Refused(c) ==
    /\ At(c, "relay") /\ alive(call[c].on) /\ Done(c)
    /\ UNCHANGED <<plane, browser, store, left>>

relayed(c) == call[c].who \in Runs /\ Refused(c)
writeCommandError(c) == call[c].who \in Orgs /\ Refused(c)

\* OpenDisplay dials the address the record names, which is on the loopback
\* interface of the host that opened the session.
OpenDisplay(r, s, session) ==
    session.host = r /\ service[r] = "up" /\ Running(s) /\ browser[s].host = r

\* streamBrowserDisplay reads the record, and upgrades once the display answers.
streamBrowserDisplay(c, o, r, s) ==
    /\ Begins(c, o, r) /\ Get(o, s) # NULL /\ OpenDisplay(r, s, Get(o, s))
    /\ Go(c, [Request("watch", "watching", o, r) EXCEPT !.sid = s])
    /\ UNCHANGED <<plane, browser, store>>

\* pipeDisplay ends when either side does.
pipeDisplay(c) ==
    /\ At(c, "watching") /\ Done(c)
    /\ UNCHANGED <<plane, browser, store, left>>

---------------------------------------------------------------------------
(* Close. *)

Close(c, who, r, s, storage) ==
    /\ Begins(c, who, r)
    /\ LET session == Get(OrgOf(who), s) IN
       /\ session # NULL /\ (storage => session.profile # NULL)
       /\ Go(c, [Request("close", IF storage THEN "capture" ELSE "stop", who, r)
                 EXCEPT !.sid = s, !.profile = session.profile])
    /\ UNCHANGED <<plane, browser, store>>

CloseSession(c, x, s, storage) == Close(c, x, RunHost[x], s, storage)
closeBrowserSession(c, o, r, s, storage) == Close(c, o, r, s, storage)

saveCookiesAlways(c) ==
    /\ At(c, "capture") /\ Reaches(c)
    /\ Go(c, [call[c] EXCEPT !.at = "save", !.jar = browser[call[c].sid].jar])
    /\ UNCHANGED <<plane, browser, store, left>>

\* saveCookies: GetCookies; an empty capture is not written.
saveCookies(c) ==
    LET jar == browser[call[c].sid].jar IN
    /\ At(c, "capture") /\ Reaches(c)
    /\ IF jar = {} THEN Move(c, "stop") ELSE Go(c, [call[c] EXCEPT !.at = "save", !.jar = jar])
    /\ UNCHANGED <<plane, browser, store, left>>

\* No answer: Close gives up, and the browser and its record stay.
saveCookiesFails(c) ==
    /\ At(c, "capture") /\ alive(call[c].on) /\ Fails(~Reaches(c)) /\ Done(c)
    /\ UNCHANGED <<plane, browser, store>>

\* client.Close, then the record, whatever the service answered.
Stop(c) ==
    /\ At(c, "stop") /\ Reaches(c)
    /\ browser' = [browser EXCEPT ![call[c].sid] = Stopped]
    /\ Move(c, "forget")
    /\ UNCHANGED <<plane, store, left>>

StopFails(c) ==
    /\ At(c, "stop") /\ alive(call[c].on) /\ Fails(~Reaches(c))
    /\ Lose(call[c].sid) /\ Move(c, "forget")
    /\ UNCHANGED <<plane, store>>

\* sessions.Close reads the record and deletes its key.
Forget(c) ==
    /\ At(c, "forget") /\ Done(c)
    /\ record' = IF call[c].gone \/ Get(call[c].org, call[c].sid) = NULL THEN record
                 ELSE [record EXCEPT ![call[c].sid] = NULL]
    /\ UNCHANGED <<plane, browser, profile, live, left>>

ForgetFails(c) ==
    /\ At(c, "forget") /\ Event /\ Done(c)
    /\ UNCHANGED <<plane, browser, store>>

---------------------------------------------------------------------------
(* Profiles. *)

\* An id that no profile has had.
Create(o, p) == profile[p] = NULL /\ profile' = [profile EXCEPT ![p] = NewProfile(o)]

createBrowserProfile(c, o, p) ==
    /\ Begins(c, o, NULL) /\ Create(o, p)
    /\ UNCHANGED <<plane, browser, record, live, call>>

Delete(o, p) == GetByID(o, p) # NULL /\ profile' = [profile EXCEPT ![p] = DELETED]

deleteBrowserProfile(c, o, p) ==
    /\ Begins(c, o, NULL) /\ Delete(o, p)
    /\ UNCHANGED <<plane, browser, record, live, call>>

\* SaveCookies of a close reads the row its session was opened with ...
SaveCookies(c) ==
    LET row == GetByID(call[c].org, call[c].profile) IN
    /\ At(c, "save")
    /\ IF row = NULL \/ call[c].gone THEN Done(c)
       ELSE Go(c, [call[c] EXCEPT !.at = "write", !.held = CaptureCookies(row, call[c].jar)])
    /\ UNCHANGED <<plane, browser, store, left>>

Rewrites(c, o, p, row) ==
    /\ Begins(c, o, NULL) /\ GetByID(o, p) # NULL
    /\ Go(c, [Request("update", "write", o, NULL) EXCEPT !.profile = p, !.held = row])
    /\ UNCHANGED <<plane, browser, store>>

\* ... Rename and SetIdentity read theirs, and change in it what is left out here;
\* an update that brings a name and an identity does one after the other ...
Rename(c, o, p) == Rewrites(c, o, p, GetByID(o, p))
SetIdentity(c, o, p) == Rewrites(c, o, p, GetByID(o, p))

updateBrowserProfile(c, o, p) == Rename(c, o, p) \/ SetIdentity(c, o, p)

\* ... and SaveState replaces the jar by what the caller sends ...
SaveState(c, o, p, jar) ==
    GetByID(o, p) # NULL /\ Rewrites(c, o, p, CaptureCookies(GetByID(o, p), jar))

saveBrowserProfileState(c, o, p) == \E jar \in {{}, {o}} : SaveState(c, o, p, jar)

\* ... and write all of it; a close goes on to stop the browser.
WriteProfile(c) ==
    LET there == GetByID(call[c].org, call[c].profile) # NULL /\ ~call[c].gone IN
    /\ At(c, "write")
    /\ profile' = IF there THEN Update(call[c].profile, call[c].held) ELSE profile
    /\ IF there /\ call[c].op = "close"
       THEN Go(c, [call[c] EXCEPT !.at = "stop", !.jar = {}, !.held = NULL])
       ELSE Done(c)
    /\ UNCHANGED <<plane, browser, record, live, left>>

---------------------------------------------------------------------------
(* The world. *)

\* The caller of a request leaves: its context is cancelled.
Cancel(c) ==
    /\ ~At(c, "idle") /\ ~call[c].gone /\ Event
    /\ Go(c, [call[c] EXCEPT !.gone = TRUE])
    /\ UNCHANGED <<plane, browser, store>>

\* The lease of a record runs out: the session is no longer listed.
Expire(s) ==
    /\ record[s] # NULL /\ record[s].leased
    /\ record' = [record EXCEPT ![s] = NULL]
    /\ Lose(s)
    /\ UNCHANGED <<plane, profile, live, call, left>>

\* An execution ends: its token is revoked and its handler is gone.
Revoke(x) ==
    /\ x \in live /\ live' = live \ {x}
    /\ call' = [c \in Clients |-> IF call[c].who = x THEN [call[c] EXCEPT !.gone = TRUE]
                                  ELSE call[c]]
    /\ UNCHANGED <<plane, browser, record, profile, left>>

\* The service dies with its browsers, and the supervisor does not notice.
ServiceDies(r) ==
    /\ service[r] = "up" /\ Event
    /\ service' = [service EXCEPT ![r] = "dead"]
    /\ children' = [children EXCEPT ![r] = @ - 1]
    /\ browser' = StopOn(r)
    /\ UNCHANGED <<starting, store, call>>

Dropped(r) == [c \in Clients |-> IF call[c].on = r THEN Idle ELSE call[c]]

\* A control plane ends its requests, then Close kills its service.
SupervisorClose(r) ==
    /\ service[r] # "none" /\ starting[r] = NULL /\ Event
    /\ service' = [service EXCEPT ![r] = "none"]
    /\ children' = [children EXCEPT ![r] = 0]
    /\ browser' = StopOn(r)
    /\ call' = Dropped(r)
    /\ UNCHANGED <<starting, store>>

\* A control plane is killed: the service outlives it, out of reach of the next one.
PlaneDies(r) ==
    /\ (service[r] # "none" \/ \E c \in Clients : call[c].on = r) /\ Event
    /\ service' = [service EXCEPT ![r] = "none"]
    /\ starting' = [starting EXCEPT ![r] = NULL]
    /\ children' = [children EXCEPT ![r] = 0]
    /\ browser' = [s \in Sessions |->
                     IF Running(s) /\ browser[s].host = r
                     THEN [browser[s] EXCEPT !.host = NULL, !.lost = TRUE]
                     ELSE browser[s]]
    /\ call' = Dropped(r)
    /\ UNCHANGED store

---------------------------------------------------------------------------

Init ==
    /\ service = [r \in Replicas |-> "none"]
    /\ starting = [r \in Replicas |-> NULL]
    /\ children = [r \in Replicas |-> 0]
    /\ browser = [s \in Sessions |-> NULL]
    /\ record = [s \in Sessions |-> NULL]
    /\ \E row \in {NULL, [org |-> KnownOrg, jar |-> {KnownOrg}]} :
          profile = [p \in Profiles |-> IF p = Known THEN row ELSE NULL]
    /\ live = Runs
    /\ call = [c \in Clients |-> Idle]
    /\ left = [calls |-> MaxCalls, events |-> MaxEvents]

BeginHandler(c) ==
    \E x \in Runs :
        \/ \E p \in Profiles \cup {NULL}, storage \in BOOLEAN : OpenSession(c, x, p, storage)
        \/ \E s \in Sessions :
              \/ SDKNavigates(c, x, s) \/ SDKActs(c, x, s) \/ SDKCookies(c, x, s)
              \/ \E storage \in BOOLEAN : CloseSession(c, x, s, storage)

BeginOperator(c) ==
    \E desk \in Desks : LET o == desk[1] r == desk[2] IN
        \/ \E p \in Profiles \cup {NULL}, storage \in BOOLEAN :
              openBrowserSession(c, o, r, p, storage)
        \/ \E s \in Sessions :
              \/ OperatorNavigates(c, o, r, s) \/ OperatorActs(c, o, r, s)
              \/ OperatorCookies(c, o, r, s) \/ streamBrowserDisplay(c, o, r, s)
              \/ \E storage \in BOOLEAN : closeBrowserSession(c, o, r, s, storage)
        \/ \E p \in Profiles :
              \/ createBrowserProfile(c, o, p) \/ deleteBrowserProfile(c, o, p)
              \/ updateBrowserProfile(c, o, p) \/ saveBrowserProfileState(c, o, p)

\* The next step of a request that is open.
Step(c) ==
    \/ Client(c) \/ StartReady(c) \/ StartFails(c)
    \/ persona(c) \/ SpawnFails(c) \/ \E s \in Sessions : Spawn(c, s) \/ SpawnUnheard(c, s)
    \/ Seed(c) \/ SeedFails(c) \/ Adopt(c) \/ AdoptFails(c) \/ abandon(c) \/ abandonFails(c)
    \/ Touch(c) \/ TouchFails(c) \/ relayed(c) \/ writeCommandError(c)
    \/ At(c, "relay") /\ Reaches(c) /\ \E jar \in Driven(c) : Relay(c, jar)
    \/ pipeDisplay(c)
    \/ saveCookies(c) \/ saveCookiesFails(c) \/ Stop(c) \/ StopFails(c)
    \/ Forget(c) \/ ForgetFails(c)
    \/ SaveCookies(c) \/ WriteProfile(c)

Next ==
    \/ \E c \in Clients : BeginHandler(c) \/ BeginOperator(c) \/ Step(c) \/ Cancel(c)
    \/ \E s \in Sessions : Expire(s)
    \/ \E x \in Runs : Revoke(x)
    \/ \E r \in Replicas : ServiceDies(r) \/ SupervisorClose(r) \/ PlaneDies(r)

\* Every request runs in a goroutine of its own and every call it makes returns; the
\* cache keeps its clock.
Spec ==
    /\ Init /\ [][Next]_vars
    /\ \A c \in Clients : WF_vars(Step(c))
    /\ \A s \in Sessions : WF_vars(Expire(s))

---------------------------------------------------------------------------
(* Properties. *)

Places == {"idle", "persona", "starting", "spawn", "seed", "adopt", "abandon", "touch", "relay",
           "watching", "capture", "save", "write", "stop", "forget"}

\* What a request knows; what it holds for its next call (a place, a record or a row)
\* depends on where it is.
CallRows(held) ==
    [op : {NULL, "open", "drive", "watch", "close", "update"}, at : Places,
     who : Runs \cup Orgs \cup {NULL}, org : Orgs \cup {NULL}, on : Replicas \cup {NULL},
     sid : Sessions \cup {NULL}, profile : Profiles \cup {NULL}, storage : BOOLEAN,
     jar : SUBSET Orgs, held : {held}, gone : BOOLEAN]

\* Processes, records, rows and requests are well formed; among them that the
\* supervisor never counts fewer services than it started and stopped.
TypeOK ==
    /\ service \in [Replicas -> {"none", "up", "dead"}]
    /\ starting \in [Replicas -> Clients \cup {NULL}]
    /\ children \in [Replicas -> Nat]
    /\ record \in [Sessions -> Records \cup {NULL}]
    /\ profile \in [Profiles -> ProfileRows \cup {NULL, DELETED}]
    /\ live \subseteq Runs
    /\ browser \in [Sessions -> BrowserRows \cup {NULL}]
    /\ call = [c \in Clients |-> call[c]]
    /\ \A c \in Clients : call[c] \in CallRows(call[c].held)

\* "a session id from another organization reads as absent" and "a profile from
\* another organization reads as absent": through both doors, on every replica and
\* by way of loading, driving, saving and watching, the logins of one organization
\* reach no browser, profile or viewer of another.
TenantsApart ==
    /\ \A s \in Sessions : Running(s) => browser[s].jar \subseteq {browser[s].org}
    /\ \A p \in Profiles :
          profile[p] \notin {NULL, DELETED} => profile[p].jar \subseteq {profile[p].org}
    /\ \A c \in Clients : At(c, "watching") /\ Running(call[c].sid) =>
          browser[call[c].sid].org = call[c].org

\* "Every failure after the browser is up closes it again": a running browser has a
\* record, or the Open that started it still has its id, unless a call to its
\* service failed, its lease ran out or its plane was killed (lost).
EveryBrowserHeld ==
    \A s \in Sessions : Running(s) =>
        \/ browser[s].lost
        \/ record[s] # NULL /\ record[s].org = browser[s].org
                            /\ record[s].profile = browser[s].profile
        \/ \E c \in Clients : call[c].op = "open" /\ call[c].sid = s

\* "One service, many sessions": requests that find no service together start one,
\* and a failed start leaves none behind.
OneService == \A r \in Replicas : children[r] <= 1

\* "its first navigation is already carrying the profile's logins": a session that
\* is listed and has not been driven yet holds the jar it was opened to load.
SeededWhenListed ==
    \A s \in Sessions : Running(s) /\ s \in List(browser[s].org) /\ ~browser[s].driven =>
        browser[s].jar = browser[s].wanted

\* What Open leaves running is held, seeded, and of one service a host.
OpensWhole == EveryBrowserHeld /\ SeededWhenListed /\ OneService

Emptied(p) ==
    /\ profile[p] \notin {NULL, DELETED} /\ profile'[p] \notin {NULL, DELETED}
    /\ profile[p].jar # {} /\ profile'[p].jar = {}

\* "writing that would erase a profile's logins on a bad read": no close empties a
\* profile's jar, whatever the browser answers.  Only the row of an operator's
\* update does.
CloseNeverErases ==
    [][\A p \in Profiles :
          Emptied(p) => \E c \in Clients : call[c].at = "write" /\ call[c].op # "close"]_vars

\* "Without it the session expires, which is what makes a crashed worker disappear
\* from the list": every record goes, although Touch can bring one back after a
\* Close and a dead service is never noticed.
RecordsEnd == \A o \in Orgs : []<>(List(o) = {})

\* Every request returns, those that wait for a service to start included, and
\* those that meet a dead one.
CallsReturn == \A c \in Clients : []<>At(c, "idle")

=============================================================================
