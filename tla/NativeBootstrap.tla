--------------------------- MODULE NativeBootstrap ---------------------------
(***************************************************************************)
(* How a native connection comes into being: NativeAdapter.fromUrl with    *)
(* native-adapter-bootstrap.ts, connect() of native-connection.ts, the     *)
(* capabilities of native-connection-capabilities.ts and the negotiation   *)
(* of native-negotiation.ts.                                               *)
(*                                                                         *)
(* A socket is dialled under a timer and an abort signal; STARTUP and, if  *)
(* need be, AUTH are sent; the first heartbeat is scheduled.  What a chunk *)
(* of data brings is handled in one callback: an answer, and behind it a   *)
(* GOAWAY or a frame that fails the connection, all before the bootstrap,  *)
(* which awaits the answer, goes on.                                       *)
(***************************************************************************)
EXTENDS Naturals, Sequences, FiniteSets

CONSTANTS Unauthenticated, \* UNAUTHENTICATED_MAX_FRAME_BYTES
          Required,        \* what the HELLO payload must offer for FLOW.QUERY
          Options,         \* [password, frameBytes]: of the user
          Hellos           \* [offers, authRequired, limits]: answers to STARTUP

VARIABLES option,
          socket,     \* none, connecting, open, destroyed
          dialTimer, dialListener,
          onAbort,    \* bootstrap's listener
          aborted,
          request,    \* none, STARTUP, AUTH: what is pending on the connection
          answer,     \* what the awaiting bootstrap finds
          adapterClosed, draining,
          heartbeat,
          requestFrameBytes, negotiatedFrameBytes,
          step,       \* dial, begin, startup, auth, finish; resolved, rejected
          hello,      \* history: the answer to STARTUP
          granted     \* history: the server takes requests of any size

connection == <<socket, request, adapterClosed, draining, heartbeat>>
dial == <<dialTimer, dialListener>>
frameLimits == <<requestFrameBytes, negotiatedFrameBytes>>
vars == <<option, connection, dial, onAbort, aborted, answer, frameLimits, step, hello, granted>>

Nothing == [offers |-> {}, authRequired |-> "absent", limits |-> <<>>]
LesserOf(a, b) == IF a <= b THEN a ELSE b

Init == /\ option \in Options
        /\ socket = "none"
        /\ dialTimer = FALSE /\ dialListener = FALSE /\ onAbort = FALSE
        /\ aborted \in BOOLEAN
        /\ request = "none" /\ answer = "none"
        /\ adapterClosed = FALSE /\ draining = FALSE /\ heartbeat = FALSE
        /\ negotiatedFrameBytes = option.frameBytes
        /\ requestFrameBytes = LesserOf(option.frameBytes, Unauthenticated)
        /\ step = "dial"
        /\ hello = Nothing /\ granted = FALSE

Ended == {"resolved", "rejected"}

---------------------------------------------------------------------------
(* connect                                                                 *)

Dial == /\ step = "dial" /\ socket = "none"
        /\ IF aborted
           THEN step' = "rejected" /\ UNCHANGED <<socket, dial>>
           ELSE /\ socket' = "connecting" /\ dialTimer' = TRUE /\ dialListener' = TRUE
                /\ UNCHANGED step
        /\ UNCHANGED <<option, onAbort, aborted, request, answer, adapterClosed, draining,
                       heartbeat, frameLimits, hello, granted>>

\* Slip: the abort listener outlives the dial.
CleanupKeepingListener == dialTimer' = FALSE /\ UNCHANGED dialListener

Cleanup == dialTimer' = FALSE /\ dialListener' = FALSE

Connected == /\ step = "dial" /\ socket = "connecting"
             /\ Cleanup
             /\ socket' = "open" /\ step' = "begin"
             /\ UNCHANGED <<option, onAbort, aborted, request, answer, adapterClosed, draining,
                            heartbeat, frameLimits, hello, granted>>

\* The socket reports an error, and destroys itself, or the timer fires.
DialFails == /\ step = "dial" /\ socket = "connecting"
             /\ Cleanup
             /\ socket' = "destroyed" /\ step' = "rejected"
             /\ UNCHANGED <<option, onAbort, aborted, request, answer, adapterClosed, draining,
                            heartbeat, frameLimits, hello, granted>>

---------------------------------------------------------------------------
(* The adapter below the bootstrap.                                        *)

\* failAll and the destruction of the socket: the pending request rejects.
FailAll == /\ adapterClosed' = TRUE
           /\ heartbeat' = IF adapterClosed THEN heartbeat ELSE FALSE
           /\ socket' = "destroyed"
           /\ IF request # "none" THEN request' = "none" /\ answer' = "failed"
                                  ELSE UNCHANGED <<request, answer>>
           /\ UNCHANGED draining

\* An answer arrives, followed in the same data by nothing, by a GOAWAY, which closes a
\* connection without pending requests, or by a frame that fails the connection.
Answer == /\ request # "none" /\ socket = "open"
          /\ request' = "none"
          /\ \/ answer' = "failed" /\ UNCHANGED <<hello, granted>>
             \/ /\ answer' = "answered"
                /\ IF request = "STARTUP"
                   THEN \E h \in Hellos : hello' = h /\ granted' = (h.authRequired = "no")
                   ELSE granted' = TRUE /\ UNCHANGED hello
          /\ \/ ~draining /\ UNCHANGED <<socket, adapterClosed, draining, heartbeat>>
             \/ /\ draining' \in {draining, TRUE}
                /\ adapterClosed' = TRUE /\ socket' = "destroyed" /\ heartbeat' = FALSE
          /\ UNCHANGED <<option, dial, onAbort, aborted, frameLimits, step>>

\* The connection is lost, or drained while a request is pending; the request times out.
Lost == /\ step \in {"startup", "auth"} \cup Ended
        /\ socket = "open" /\ answer = "none"
        /\ FailAll
        /\ UNCHANGED <<option, dial, onAbort, aborted, frameLimits, step, hello, granted>>

GoAway == /\ step \in {"startup", "auth"} /\ socket = "open" /\ request # "none"
          /\ draining' = TRUE
          /\ UNCHANGED <<option, socket, request, adapterClosed, heartbeat, dial, onAbort, aborted,
                         answer, frameLimits, step, hello, granted>>

TimesOut == /\ request # "none"
            /\ request' = "none" /\ answer' = "failed"
            /\ UNCHANGED <<option, socket, adapterClosed, draining, heartbeat, dial, onAbort,
                           aborted, frameLimits, step, hello, granted>>

\* A request on an adapter that takes none rejects at once.
Request(name) == IF adapterClosed \/ draining
                 THEN answer' = "failed" /\ request' = "none"
                 ELSE answer' = "none" /\ request' = name

---------------------------------------------------------------------------
(* NativeConnectionCapabilities and the negotiation.                       *)

Compatible(h) == Required \subseteq h.offers

\* startupLimits: the shallowest level of the answer that has the limit; 0 is no limit.
FrameBytesOf(h) ==
    LET levels == {k \in DOMAIN h.limits : h.limits[k] # 0}
    IN IF levels = {} THEN 0 ELSE h.limits[CHOOSE k \in levels : \A l \in levels : k <= l]

NegotiatedBy(h) == IF FrameBytesOf(h) = 0 THEN negotiatedFrameBytes
                   ELSE LesserOf(option.frameBytes, FrameBytesOf(h))

Apply(h) == /\ negotiatedFrameBytes' = NegotiatedBy(h)
            /\ requestFrameBytes' = IF h.authRequired = "no" THEN NegotiatedBy(h)
                                    ELSE LesserOf(requestFrameBytes, NegotiatedBy(h))

---------------------------------------------------------------------------
(* bootstrapNativeAdapter                                                  *)

\* handle.close(), the listener goes, the call rejects.
Fail == /\ FailAll
        /\ onAbort' = FALSE
        /\ step' = "rejected"
        /\ UNCHANGED <<option, dial, aborted, frameLimits, hello, granted>>

Begin == /\ step = "begin"
         /\ \/ aborted /\ Fail
            \/ /\ ~aborted
               /\ onAbort' = TRUE
               /\ Request("STARTUP")
               /\ step' = "startup"
               /\ UNCHANGED <<option, socket, adapterClosed, draining, heartbeat, dial, aborted,
                              frameLimits, hello, granted>>

StartupEnds ==
    /\ step = "startup" /\ answer # "none"
    /\ \/ /\ \/ answer = "failed" \/ ~Compatible(hello)
             \/ hello.authRequired = "yes" /\ ~option.password
          /\ Fail
       \/ /\ answer = "answered" /\ Compatible(hello)
          /\ hello.authRequired = "yes" => option.password
          /\ Apply(hello)
          /\ IF option.password THEN Request("AUTH") /\ step' = "auth"
             ELSE step' = "finish" /\ answer' = "none" /\ UNCHANGED request
          /\ UNCHANGED <<option, socket, adapterClosed, draining, heartbeat, dial, onAbort, aborted,
                         hello, granted>>

AuthEnds == /\ step = "auth" /\ answer # "none"
            /\ \/ answer = "failed" /\ Fail
               \/ /\ answer = "answered"
                  /\ requestFrameBytes' = negotiatedFrameBytes
                  /\ answer' = "none" /\ step' = "finish"
                  /\ UNCHANGED <<option, connection, dial, onAbort, aborted, negotiatedFrameBytes,
                                 hello, granted>>

Finish == /\ step = "finish"
          /\ \/ aborted /\ Fail
             \/ /\ ~aborted
                /\ heartbeat' = TRUE
                /\ onAbort' = FALSE
                /\ step' = "resolved"
                /\ UNCHANGED <<option, socket, request, adapterClosed, draining, dial, aborted,
                               answer, frameLimits, hello, granted>>

\* The signal aborts, at any moment: whoever listens acts at once.
Abort == /\ ~aborted
         /\ aborted' = TRUE
         /\ IF dialListener
            THEN /\ Cleanup /\ socket' = "destroyed"
                 /\ step' = IF step = "dial" THEN "rejected" ELSE step
                 /\ UNCHANGED <<request, answer, adapterClosed, draining, heartbeat>>
            ELSE UNCHANGED <<dial, step>> /\ IF onAbort THEN FailAll
                                             ELSE UNCHANGED <<connection, answer>>
         /\ UNCHANGED <<option, onAbort, frameLimits, hello, granted>>

Bootstrap == Dial \/ Begin \/ StartupEnds \/ AuthEnds \/ Finish
Connection == Connected \/ DialFails \/ Answer \/ TimesOut

Next == Bootstrap \/ Connection \/ Lost \/ GoAway \/ Abort

Spec == Init /\ [][Next]_vars

---------------------------------------------------------------------------
\* Whenever the signal aborts, a timer fires or the connection is lost: a bootstrap that
\* rejects leaves no socket, timer, listener or request behind; one that resolves has a
\* server that offers what is required and that has accepted the credentials it asked for,
\* and leaves no listener; nothing later undoes it.  No request above the limit of an
\* unauthenticated connection is allowed before the server lifts it, and none above what
\* was negotiated.
CleanBootstrap ==
    /\ step = "rejected" => /\ socket \in {"none", "destroyed"} /\ request = "none"
                            /\ ~dialTimer /\ ~dialListener /\ ~onAbort /\ ~heartbeat
    /\ step = "resolved" => /\ Compatible(hello) /\ ~dialTimer /\ ~dialListener /\ ~onAbort
                            /\ hello.authRequired = "yes" => granted
                            /\ socket = "destroyed" => adapterClosed
    /\ ~granted => requestFrameBytes <= Unauthenticated
    /\ requestFrameBytes <= negotiatedFrameBytes /\ negotiatedFrameBytes <= option.frameBytes
==============================================================================
