------------------------------ MODULE Dialogue ------------------------------
(***************************************************************************)
(* The user's chat with the bot: telegram/handlers.rs, groups.rs and the   *)
(* limits of app.rs.  Updates of a chat are handled one after the other; a *)
(* request to Tzibbur is awaited in the handler, while time passes, the    *)
(* Mini App (miniapp.rs) answers and sessions end.  Every account has one  *)
(* group, whose conversation is named like the account.  What connect and  *)
(* disconnect do inside is Accounts; what a sent text does is Outbox.      *)
(***************************************************************************)
EXTENDS Naturals, Sequences, FiniteSets

CONSTANTS Accounts,      \* Tzibbur accounts of the user, and their topics
          Nobody,
          TTL,           \* DIALOGUE_TTL, and how long a split waits, in ticks
          Hour,          \* the window of allow_auth, in ticks
          Limit,         \* limit_per_hour of "start" and of "verify"
          MaxFailures,   \* SUGGEST_RESEND_AFTER_FAILURES
          Parts,         \* parts of a text over the limit
          Texts,         \* ids of such texts
          MaxTime,       \* bound: the clock
          MaxFlows       \* bound: flows begun

Steps == {"start", "verify"}

ASSUME BoundsAssumption ==
    /\ Nobody \notin Accounts /\ Texts \subseteq Nat \ {0}
    /\ TTL \in Nat \ {0} /\ Hour \in Nat \ {0} /\ Limit \in [Steps -> Nat \ {0}]
    /\ MaxFailures \in Nat \ {0} /\ Parts \in Nat \ {0}
    /\ MaxTime \in Nat /\ MaxFlows \in Nat

VARIABLES now,
          state,      \* the dialogue (InMemStorage)
          touched,    \* dialogue_activity: the time plus one, 0 if missing
          attempts,   \* auth_attempts: times, the oldest first
          pending,    \* pending_splits: when a text was kept, plus one
          status,     \* status[a]: the account's row; "none" if there is none
          active,     \* the account chosen with /accounts
          call,       \* the request a handler of the chat awaits
          asked,      \* the server: requests of the last hour, by step
          guessed,    \* the server: wrong codes for the chat's challenge
          sent,       \* sent[x]: parts of text x given to the outbox
          created,    \* the server: groups created
          flows, groupFlows

memory == <<state, touched, attempts, pending, call>>
remote == <<asked, guessed, sent, created>>
vars == <<now, state, touched, attempts, pending, status, active, call, asked, guessed, sent,
          created, flows, groupFlows>>

-----------------------------------------------------------------------------

\* `wanted` is what the sign-in was begun with; the code has only `add`.
Idle == [kind |-> "idle", add |-> FALSE, wanted |-> FALSE, failures |-> 0, conv |-> Nobody]
State == [kind : {"idle", "phone", "name", "code", "groupName", "groupCategory", "groupPhones",
                  "rename", "addPhones"},
          add : BOOLEAN, wanted : BOOLEAN, failures : 0..MaxFailures - 1, conv : Accounts \cup {Nobody}]

NoCall == [kind |-> "none", via |-> Nobody, conv |-> Nobody, text |-> 0]
Call == [kind : {"none", "start", "verify", "create", "rename", "add", "post", "split"},
         via : Accounts \cup {Nobody}, conv : Accounts \cup {Nobody}, text : Texts \cup {0}]

Waiting(kind) == call = NoCall /\ state.kind = kind

TypeOK ==
    /\ now \in 0..MaxTime
    /\ state \in State /\ touched \in 0..MaxTime + 1
    /\ DOMAIN attempts = Steps
    /\ \A s \in Steps : /\ Len(attempts[s]) <= Limit[s]
                        /\ \A i \in DOMAIN attempts[s] : attempts[s][i] \in 0..now
    /\ pending \in [Texts -> 0..MaxTime + 1]
    /\ status \in [Accounts -> {"none", "connected", "ended"}]
    /\ active \in Accounts \cup {Nobody}
    /\ call \in Call
    /\ state.kind = "code" \/ call.kind = "verify" \/ state.failures = 0
    /\ state.kind \in {"rename", "addPhones"} <=> state.conv # Nobody
    /\ groupFlows <= flows /\ flows <= MaxFlows

\* account_for: the active account, else another connected one, else any.
Connected == {a \in Accounts : status[a] = "connected"}
Chosen == IF active \in Connected THEN {active}
          ELSE IF Connected # {} THEN Connected
          ELSE {a \in Accounts : status[a] # "none"}

\* Mutant of ConvFor: whose group it is is not looked at.
ConvForAny(a, conv) == a \in Chosen

\* conv_for: the account that acts, and that the group is its own.  An account that expired
\* still has its runtime.
ConvFor(a, conv) == a \in Chosen /\ a = conv

-----------------------------------------------------------------------------
(* app.rs *)

\* Those of the times, the oldest first, that at time t lie less than span back: retain drops
\* the ones before them.
Within(times, span, t) ==
    LET old == CHOOSE k \in 0..Len(times) :
                   \A i \in DOMAIN times : i <= k <=> times[i] + span <= t
    IN  SubSeq(times, old + 1, Len(times))

\* Mutant of Recent: an attempt counts for a tick less.
RecentShort(times) == Within(times, Hour - 1, now)

\* The attempts that still count.
Recent(times) == Within(times, Hour, now)

Allowed(step) == Len(Recent(attempts[step])) < Limit[step]

\* allow_auth: chat and Mini App share the attempts.
Count(step) == attempts' = [attempts EXCEPT ![step] = Append(Recent(@), now)]
Refuse(step) == attempts' = [attempts EXCEPT ![step] = Recent(@)]

\* The request reaches the server.
Ask(step) == asked' = [asked EXCEPT ![step] = Append(@, now)]

\* touch_dialogue: a chat without an entry is fresh.
Fresh == touched = 0 \/ now - (touched - 1) < TTL
Touch == touched' = now + 1
Clear == touched' = 0
Exit == state' = Idle
Become(kind) == state' = [state EXCEPT !.kind = kind]

-----------------------------------------------------------------------------
(* Ways into a flow *)

\* Mutant of Enter: the chat's activity is not recorded.
EnterUntouched(to) ==
    /\ flows < MaxFlows
    /\ flows' = flows + 1
    /\ state' = to
    /\ UNCHANGED touched

Enter(to) ==
    /\ flows < MaxFlows
    /\ flows' = flows + 1
    /\ state' = to
    /\ Touch

\* begin_connect; for somebody who is connected it only shows three buttons.
Begin ==
    /\ call = NoCall
    /\ Chosen \cap Connected = {}
    /\ Enter([Idle EXCEPT !.kind = "phone"])
    /\ UNCHANGED <<now, attempts, pending, status, active, call, remote, groupFlows>>

\* The buttons connect, reconnect, conn:replace and conn:add.
BeginButton(add) ==
    /\ call = NoCall
    /\ Enter([Idle EXCEPT !.kind = "phone", !.add = add, !.wanted = add])
    /\ UNCHANGED <<now, attempts, pending, status, active, call, remote, groupFlows>>

NewGroup ==
    /\ call = NoCall
    /\ Chosen \cap Connected # {}
    /\ Enter([Idle EXCEPT !.kind = "groupName"])
    /\ groupFlows' = groupFlows + 1
    /\ UNCHANGED <<now, attempts, pending, status, active, call, remote>>

\* /rename without a name, and the buttons Rename and Add members of a group's card.
AskFor(kind, conv) ==
    /\ call = NoCall
    /\ \E a \in Chosen : ConvFor(a, conv)
    /\ Enter([Idle EXCEPT !.kind = kind, !.conv = conv])
    /\ UNCHANGED <<now, attempts, pending, status, active, call, remote, groupFlows>>

\* /cancel.
Cancel ==
    /\ call = NoCall
    /\ Exit /\ Clear
    /\ UNCHANGED <<now, attempts, pending, status, active, call, remote, flows, groupFlows>>

\* cat: the category's button, which does not touch the dialogue.
TapCategory ==
    /\ Waiting("groupCategory")
    /\ Become("groupPhones")
    /\ UNCHANGED <<now, touched, attempts, pending, status, active, call, remote, flows, groupFlows>>

-----------------------------------------------------------------------------
(* Messages of a flow *)

Awaits == {"phone", "name", "code", "groupName", "groupPhones", "rename", "addPhones"}
Unmoved == <<now, pending, status, active, remote, flows, groupFlows>>

\* The first lines of every handler, for a flow that is stale: the message is gone.
Expired ==
    /\ call = NoCall
    /\ state.kind \in Awaits
    /\ ~Fresh
    /\ Exit /\ Clear
    /\ UNCHANGED <<attempts, call, Unmoved>>

\* Input the handler refuses, nobody is connected, or the group is not the acting account's.
Rejected ==
    /\ call = NoCall
    /\ state.kind \in Awaits
    /\ Fresh /\ Touch
    /\ UNCHANGED <<state, attempts, call, Unmoved>>

OnPhone ==
    /\ Waiting("phone")
    /\ Fresh /\ Touch
    /\ Become("name")
    /\ UNCHANGED <<attempts, call, Unmoved>>

\* The name, then a request for a code, if the limit allows one.
OnName ==
    /\ Waiting("name")
    /\ Fresh
    /\ \/ /\ Allowed("start") /\ Count("start") /\ Ask("start")
          /\ Touch
          /\ call' = [NoCall EXCEPT !.kind = "start"]
          /\ UNCHANGED state
       \/ /\ ~Allowed("start") /\ Refuse("start")
          /\ Exit /\ Clear
          /\ UNCHANGED <<call, asked>>
    /\ UNCHANGED <<now, pending, status, active, guessed, sent, created, flows, groupFlows>>

Started ==
    /\ call.kind = "start"
    /\ call' = NoCall
    /\ \/ Become("code") /\ guessed' = 0
       \/ Exit /\ UNCHANGED guessed
    /\ UNCHANGED <<now, touched, attempts, pending, status, active, asked, sent, created, flows, groupFlows>>

OnCode ==
    /\ Waiting("code")
    /\ Fresh
    /\ \/ /\ Allowed("verify") /\ Count("verify") /\ Ask("verify")
          /\ Touch
          /\ call' = [NoCall EXCEPT !.kind = "verify"]
          /\ UNCHANGED state
       \/ /\ ~Allowed("verify") /\ Refuse("verify")
          /\ Exit /\ Clear
          /\ UNCHANGED <<call, asked>>
    /\ UNCHANGED <<now, pending, status, active, guessed, sent, created, flows, groupFlows>>

\* account_for_user: the account that connect looks at.
ForUser == IF Connected # {} THEN Connected ELSE {a \in Accounts : status[a] # "none"}

\* App::connect of account a: unless it is added, another account is replaced.  It becomes
\* the active one, if that can be stored.
Connect(a, add) ==
    /\ \E p \in IF ForUser = {} THEN {a} ELSE ForUser :
           status' = [q \in Accounts |-> IF q = a THEN "connected"
                                         ELSE IF q = p /\ ~add THEN "ended"
                                         ELSE status[q]]
    /\ active' \in {active, a}

\* Mutant of Retry: what the flow was begun with is forgotten.
RetryPlain == state' = [state EXCEPT !.failures = @ + 1, !.add = FALSE]

Retry == state' = [state EXCEPT !.failures = @ + 1]

WrongCode ==
    /\ call.kind = "verify"
    /\ call' = NoCall
    /\ guessed' = guessed + 1
    /\ IF state.failures + 1 >= MaxFailures THEN Exit ELSE Retry
    /\ UNCHANGED <<now, touched, attempts, pending, status, active, asked, sent, created, flows, groupFlows>>

\* The code is right, and connect succeeds or not; or the request fails.
Verified ==
    /\ call.kind = "verify"
    /\ call' = NoCall
    /\ Exit
    /\ (\E a \in Accounts : Connect(a, state.add)) \/ UNCHANGED <<status, active>>
    /\ UNCHANGED <<now, touched, attempts, pending, remote, flows, groupFlows>>

OnGroupName ==
    /\ Waiting("groupName")
    /\ Chosen \cap Connected # {}
    /\ Fresh /\ Touch
    /\ Become("groupCategory")
    /\ UNCHANGED <<attempts, call, Unmoved>>

\* Mutant of OnGroupPhones: the flow stays until the group exists.
OnGroupPhonesStays ==
    /\ Waiting("groupPhones")
    /\ Fresh /\ Touch
    /\ \E a \in Chosen \cap Connected : call' = [NoCall EXCEPT !.kind = "create", !.via = a]
    /\ UNCHANGED <<state, attempts, Unmoved>>

\* The flow ends, then the group is created.
OnGroupPhones ==
    /\ Waiting("groupPhones")
    /\ Fresh /\ Touch
    /\ \E a \in Chosen \cap Connected : call' = [NoCall EXCEPT !.kind = "create", !.via = a]
    /\ Exit
    /\ UNCHANGED <<attempts, Unmoved>>

\* The group exists, also when the answer is lost.
Created ==
    /\ call.kind = "create"
    /\ call' = NoCall
    /\ created' \in {created, created + 1}
    /\ UNCHANGED <<now, state, touched, attempts, pending, status, active, asked, guessed, sent, flows, groupFlows>>

\* on_rename and on_add_phones: the flow ends, then the request is made.
OnGroupInput ==
    /\ call = NoCall
    /\ state.kind \in {"rename", "addPhones"}
    /\ Fresh /\ Touch
    /\ \E a \in Chosen :
          /\ ConvFor(a, state.conv)
          /\ call' = [NoCall EXCEPT !.kind = IF state.kind = "rename" THEN "rename" ELSE "add",
                                   !.via = a, !.conv = state.conv]
    /\ Exit
    /\ UNCHANGED <<attempts, Unmoved>>

\* Tzibbur answers, or fails.
GroupAnswered ==
    /\ call.kind \in {"rename", "add", "post"}
    /\ call' = NoCall
    /\ UNCHANGED <<now, state, touched, attempts, pending, status, active, remote, flows, groupFlows>>

-----------------------------------------------------------------------------
(* Other messages *)

\* on_message: text that no flow waits for is posted from the topic of the acting account,
\* and ignored in the topic of another one.
OnMessage(conv) ==
    /\ call = NoCall
    /\ state.kind \notin Awaits
    /\ \E a \in Chosen \cap Connected :
          /\ a = conv
          /\ call' = [NoCall EXCEPT !.kind = "post", !.via = a, !.conv = conv]
    /\ UNCHANGED <<now, state, touched, attempts, pending, status, active, remote, flows, groupFlows>>

\* A text over the limit is kept; older ones that nobody confirmed are forgotten.
OnLongMessage(x) ==
    /\ call = NoCall
    /\ state.kind \notin Awaits
    /\ pending[x] = 0 /\ sent[x] = <<>>
    /\ \E a \in Chosen : status[a] = "connected"
    /\ pending' = [y \in Texts |->
          IF y = x THEN now + 1
          ELSE IF pending[y] # 0 /\ now - (pending[y] - 1) < TTL THEN pending[y] ELSE 0]
    /\ UNCHANGED <<now, state, touched, attempts, call, status, active, remote, flows, groupFlows>>

\* split: the text is taken first; a second tap finds nothing.
TapSplit(x) ==
    /\ call = NoCall
    /\ pending[x] # 0
    /\ pending' = [pending EXCEPT ![x] = 0]
    /\ call' = [NoCall EXCEPT !.kind = "split", !.text = x]
    /\ UNCHANGED <<now, state, touched, attempts, status, active, remote, flows, groupFlows>>

\* One part after the other.
SendPart ==
    /\ call.kind = "split"
    /\ sent' = [sent EXCEPT ![call.text] = Append(@, (Len(@) % Parts) + 1)]
    /\ call' = IF Len(sent'[call.text]) % Parts = 0 THEN NoCall ELSE call
    /\ UNCHANGED <<now, state, touched, attempts, pending, status, active, asked, guessed, created, flows, groupFlows>>

\* A part that fails ends the handler.
SendFails ==
    /\ call.kind = "split"
    /\ call' = NoCall
    /\ UNCHANGED <<now, state, touched, attempts, pending, status, active, remote, flows, groupFlows>>

-----------------------------------------------------------------------------
(* Around the chat *)

\* api_start and api_verify; the Mini App keeps its own challenge.
MiniStart ==
    /\ IF Allowed("start") THEN Count("start") /\ Ask("start")
       ELSE Refuse("start") /\ UNCHANGED asked
    /\ UNCHANGED <<now, state, touched, pending, call, status, active, guessed, sent, created, flows, groupFlows>>

MiniVerify ==
    /\ Allowed("verify") /\ Count("verify") /\ Ask("verify")
    /\ (\E a \in Accounts : Connect(a, FALSE)) \/ UNCHANGED <<status, active>>
    /\ UNCHANGED <<now, state, touched, pending, call, guessed, sent, created, flows, groupFlows>>

\* The acct: button.
Switch(a) ==
    /\ call = NoCall
    /\ a \in Connected
    /\ active' = a
    /\ UNCHANGED <<memory, now, status, remote, flows, groupFlows>>

\* The disc: buttons; the second one erases the account.
Disconnect ==
    /\ call = NoCall
    /\ \E a \in Chosen, left \in {"ended", "none"} : status' = [status EXCEPT ![a] = left]
    /\ UNCHANGED <<memory, now, active, remote, flows, groupFlows>>

Expire(a) ==
    /\ status[a] = "connected"
    /\ status' = [status EXCEPT ![a] = "ended"]
    /\ UNCHANGED <<memory, now, active, remote, flows, groupFlows>>

\* The server counts the requests of the last hour.
Tick ==
    /\ now < MaxTime
    /\ now' = now + 1
    /\ asked' = [s \in Steps |-> Within(asked[s], Hour, now')]
    /\ UNCHANGED <<memory, status, active, guessed, sent, created, flows, groupFlows>>

\* A restart forgets the flows, the attempts and the texts that wait.
Restart ==
    /\ Exit /\ Clear
    /\ attempts' = [s \in Steps |-> <<>>]
    /\ pending' = [x \in Texts |-> 0]
    /\ call' = NoCall
    /\ asked' = [s \in Steps |-> <<>>]
    /\ UNCHANGED <<now, status, active, guessed, sent, created, flows, groupFlows>>

-----------------------------------------------------------------------------

Init ==
    /\ now = 0
    /\ state = Idle /\ touched = 0
    /\ attempts = [s \in Steps |-> <<>>] /\ asked = [s \in Steps |-> <<>>]
    /\ pending = [x \in Texts |-> 0] /\ sent = [x \in Texts |-> <<>>]
    /\ status = [a \in Accounts |-> "none"] /\ active = Nobody
    /\ call = NoCall
    /\ guessed = 0 /\ created = 0
    /\ flows = 0 /\ groupFlows = 0

Enters == \/ Begin \/ NewGroup
          \/ \E add \in BOOLEAN : BeginButton(add)
          \/ \E kind \in {"rename", "addPhones"}, conv \in Accounts : AskFor(kind, conv)
SignIn == OnPhone \/ OnName \/ Started \/ OnCode \/ WrongCode \/ Verified
Groups == \/ TapCategory \/ OnGroupName \/ OnGroupPhones \/ Created
          \/ OnGroupInput \/ GroupAnswered
Sends == \/ SendPart \/ SendFails
         \/ \E conv \in Accounts : OnMessage(conv)
         \/ \E x \in Texts : OnLongMessage(x) \/ TapSplit(x)
Others == \/ MiniStart \/ MiniVerify \/ Disconnect \/ Tick \/ Restart
          \/ \E a \in Accounts : Switch(a) \/ Expire(a)

Next == Enters \/ Cancel \/ Expired \/ Rejected \/ SignIn \/ Groups \/ Sends \/ Others

Spec == Init /\ [][Next]_vars

-----------------------------------------------------------------------------
(* Properties *)

\* An abandoned flow is never taken up again: a message moves a flow only within the TTL of
\* the last one, although an entry that is missing counts as fresh.
StaleNeverResumes ==
    [][touched' = now + 1 /\ state.kind \in Awaits /\ flows' = flows /\ state' # state
          => touched # 0 /\ now < touched - 1 + TTL]_vars

\* However chat and Mini App alternate, and however often a flow is begun again, a user
\* causes no more requests in any hour than the limit, while the process lives; and a challenge
\* asked for in the chat is guessed at no more than MaxFailures times.
SignInIsLimited ==
    /\ TypeOK
    /\ \A s \in Steps : Len(asked[s]) <= Limit[s]
    /\ guessed <= MaxFailures

\* A sign-in takes another account away only if it was begun to replace it.
ReplaceIsAsked ==
    [][call.kind = "verify" /\ call' = NoCall /\ state.wanted
          => \A a \in Accounts : status[a] = "connected" => status'[a] = "connected"]_vars

\* What the user wished for once is done once: a /newgroup creates one group at most, also when
\* a request fails without one knowing how, and the parts of a long text are sent in order and
\* none twice, however often the button is tapped.
DoneOnce ==
    /\ created <= groupFlows
    /\ \A x \in Texts : \A i \in DOMAIN sent[x] : sent[x][i] = i

\* A text written in a group's topic, and the answer to a question about a group, act with the
\* account that owns the group, although the active account may have been switched between.
OwnGroupOnly == call.kind \in {"rename", "add", "post"} => call.via = call.conv
=============================================================================
