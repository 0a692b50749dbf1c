------------------------------ MODULE PeerFSM ------------------------------
(***************************************************************************)
(* One BGP peer of server/fsm.go: the FSM driver (FSMHandler.loop and the  *)
(* per-state handlers idle/active/opensent/openconfirm/established), the   *)
(* receive goroutine (recvMessage, recvMessageloop), the send goroutine    *)
(* (sendMessageloop), the connect loop (FSM.connectLoop), and the owner    *)
(* that consumes the state-change envelope, calls FSM.StateChange and      *)
(* starts the next FSMHandler.  The remote BGP speaker, the administrator  *)
(* and the route processor are the environment.                           *)
(*                                                                         *)
(* Go channels are modelled by their contents: connCh (capacity 1),        *)
(* adminStateCh (capacity 1), errorCh and holdTimerResetCh (capacity 2,    *)
(* counted, their values only name a reason), the peer's outgoing queue    *)
(* (capacity OutCap) and the unbuffered msgCh of OPENSENT/OPENCONFIRM (the *)
(* receiver's rpc = "deliver").  getActiveCh is unbuffered: the owner      *)
(* waits in opc = "activating" until the connect loop takes it.  Timers    *)
(* are untimed: an armed timer may expire at any step.                     *)
(***************************************************************************)
EXTENDS Naturals, Sequences, FiniteSets, Negotiation

CONSTANTS
    MaxConns,       \* TCP connections the connect loop may open in a run
    OutCap,         \* capacity of the peer's outgoing channel
    MyHoldTime,     \* pConf.Timers.Config.HoldTime (in Negotiation's unit)
    MyKeepalive,    \* pConf.Timers.Config.KeepaliveInterval (likewise)
    PeerHoldTimes,  \* hold times (seconds) a remote speaker may put in its OPEN
    AdminDownAtStart, \* pConf.State.AdminDown
    PassiveMode,    \* pConf.Transport.Config.PassiveMode
    Deletable       \* the server may deconfigure the peer during the run

IDLE == "IDLE"
ACTIVE == "ACTIVE"
OPENSENT == "OPENSENT"
OPENCONFIRM == "OPENCONFIRM"
ESTABLISHED == "ESTABLISHED"
FSMStates == {IDLE, ACTIVE, OPENSENT, OPENCONFIRM, ESTABLISHED}
\* The sentinel bgp.FSMState(-1) a handler returns on h.t.Dying().
DYING == "DYING"
UP == "UP"
DOWN == "DOWN"
Conns == 1..MaxConns

\* What one read from the socket may yield: a parsed message of a type, an
\* OPEN that ValidateOpenMsg rejects, or a header/body that fails to parse or
\* validate (a *bgp.MessageError in MsgData).
MsgTypes == {"OPEN", "OPEN_BAD", "KEEPALIVE", "UPDATE", "NOTIFICATION", "MALFORMED"}
RemoteMsgs == [type : {"OPEN"}, hold : PeerHoldTimes]
              \cup [type : MsgTypes \ {"OPEN"}, hold : {0}]
\* The handshake messages whose exchange on a connection is recorded.
Handshake == {"OPEN", "KEEPALIVE"}

VARIABLES
    state,       \* fsm.state, written by StateChange only
    adminState,  \* fsm.adminState
    adminCh,     \* fsm.adminStateCh
    dpc,         \* where the current FSMHandler is: init, run, putHold,
                 \* putCease (blocked on h.outgoing <-), wait (h.t.Wait),
                 \* report (stateCh <- e), gone, panic
    dnext,       \* the next state the handler returned
    opc,         \* owner: ready, or activating (blocked on getActiveCh)
    conn,        \* fsm.conn (0: none yet)
    connCh,      \* fsm.connCh
    nextConn,    \* the id the next dialled connection gets
    closed,      \* connections closed by this side (conn.Close())
    rclosed,     \* connections closed by the remote speaker
    idleTimer,   \* idleHoldTimer armed
    negHold,     \* pConf.Timers.State.NegotiatedHoldTime
    kaInterval,  \* pConf.Timers.State.KeepaliveInterval
    rpc,         \* receive goroutine: none, read, deliver (blocked on the
                 \* unbuffered msgCh), errloop/errexit (blocked on errorCh)
    rmsg,        \* the message the receive goroutine is delivering
    hconn,       \* h.conn: the connection the handler's goroutines use
    rloop,       \* the receiver runs recvMessageloop (msgCh = incoming)
    spc,         \* send goroutine: none, run, errexit (blocked on errorCh)
    errCh,       \* number of reasons queued in h.errorCh
    holdReset,   \* number of values queued in h.holdTimerResetCh
    killed,      \* h.t.Kill has been called
    outgoing,    \* the peer's outgoing channel
    cl,          \* connect loop: select, sleep, dial, push
    clAct,       \* the current connect() was triggered by getActiveCh
    tickerOn,    \* the connect loop's ticker runs
    rcvd,        \* handshake messages read from fsm.conn
    sent,        \* handshake messages written on fsm.conn
    stale,       \* a message read on a connection whose session end was
                 \* already reported reached the incoming channel
    ended,       \* connections whose session end was reported to the owner
    wfail,       \* a write failed on a connection open at both ends
    deleted      \* the server deconfigured the peer: fsm.t and h.t are killed

vars == <<state, adminState, adminCh, dpc, dnext, opc, conn, connCh, nextConn,
          closed, rclosed, idleTimer, negHold, kaInterval, rpc, rmsg, hconn, rloop, spc,
          errCh, holdReset, killed, outgoing, cl, clAct, tickerOn, rcvd, sent,
          stale, ended, wfail, deleted>>

NoMsg == [type |-> "NONE", hold |-> 0]
IsOpen(c) == c \notin closed \cup rclosed

-----------------------------------------------------------------------------
(* Helpers shared by the handlers.                                         *)

\* conn.Write(b) whose error the caller ignores; only a write on a
\* connection open at both ends reaches the remote.
Write(c, m) ==
    sent' = IF IsOpen(c) /\ m \in Handshake /\ c = conn
            THEN sent \cup {m} ELSE sent

\* sendNotificatonFromErrorMsg / sendNotification: write a NOTIFICATION,
\* then close the connection.
SendNotification(c) ==
    /\ closed' = closed \cup {c}
    /\ UNCHANGED sent

\* A handler returns (nextState, reason); FSMHandler.loop then waits.
Return(s) == dpc' = "wait" /\ dnext' = s

\* changeAdminState: an equal state is refused with an error.
AdminChanged(s) == s # adminState

-----------------------------------------------------------------------------
Init ==
    /\ state = IDLE
    /\ adminState = IF AdminDownAtStart THEN DOWN ELSE UP
    /\ adminCh = <<>>
    /\ dpc = "init"
    /\ dnext = IDLE
    /\ opc = "ready"
    /\ conn = 0
    /\ connCh = <<>>
    /\ nextConn = 1
    /\ closed = {}
    /\ rclosed = {}
    /\ idleTimer = FALSE
    /\ negHold = 0
    /\ kaInterval = 0
    /\ rpc = "none"
    /\ rmsg = NoMsg
    /\ hconn = 0
    /\ rloop = FALSE
    /\ spc = "none"
    /\ errCh = 0
    /\ holdReset = 0
    /\ killed = FALSE
    /\ outgoing = <<>>
    /\ cl = "select"
    /\ clAct = FALSE
    /\ tickerOn = FALSE
    /\ rcvd = {}
    /\ sent = {}
    /\ stale = FALSE
    /\ ended = {}
    /\ wfail = FALSE
    /\ deleted = FALSE

-----------------------------------------------------------------------------
(* The owner: FSMHandler.loop's state-change envelope is received, the     *)
(* owner calls FSM.StateChange(nextState) and starts a new FSMHandler.     *)
(* StateChange(ACTIVE) first hands a token to the connect loop on the      *)
(* unbuffered getActiveCh.  The owner also replaces the peer's outgoing    *)
(* channel when a session leaves ESTABLISHED.                              *)

OwnerStateChange ==
    /\ dpc = "report"
    /\ opc = "ready"
    /\ ~deleted
    /\ state' = dnext
    /\ ended' = IF dnext = IDLE /\ state \in {OPENSENT, OPENCONFIRM, ESTABLISHED}
                THEN ended \cup {conn} ELSE ended
    /\ outgoing' = IF state = ESTABLISHED THEN <<>> ELSE outgoing
    /\ errCh' = 0
    /\ holdReset' = 0
    /\ killed' = FALSE
    /\ IF dnext = ACTIVE /\ ~PassiveMode
       THEN opc' = "activating" /\ dpc' = "gone"
       ELSE opc' = "ready" /\ dpc' = "init"
    /\ UNCHANGED <<adminState, adminCh, dnext, conn, connCh, nextConn, closed,
                   rclosed, idleTimer, negHold, kaInterval, rpc, rmsg, hconn, rloop, spc, cl,
                   clAct, tickerOn, rcvd, sent, stale, wfail, deleted>>

\* The envelope of a deleted peer finds no neighbor: the owner drops it and
\* starts no handler.
OwnerDropsEnvelope ==
    /\ dpc = "report"
    /\ deleted
    /\ dpc' = "gone"
    /\ UNCHANGED <<state, adminState, adminCh, dnext, opc, conn, connCh, nextConn,
                   closed, rclosed, idleTimer, negHold, kaInterval, rpc, rmsg, hconn, rloop,
                   spc, errCh, holdReset, killed, outgoing, cl, clAct, tickerOn, rcvd,
                   sent, stale, ended, wfail, deleted>>

\* The connect loop takes the getActiveCh token; StateChange returns and the
\* owner starts the handler of ACTIVE.
OwnerActivated ==
    /\ opc = "activating"
    /\ cl = "select"
    /\ opc' = "ready"
    /\ dpc' = "init"
    /\ cl' = "sleep"
    /\ clAct' = TRUE
    /\ UNCHANGED <<state, adminState, adminCh, dnext, conn, connCh, nextConn,
                   closed, rclosed, idleTimer, negHold, kaInterval, rpc, rmsg, hconn, rloop,
                   spc, errCh, holdReset, killed, outgoing, tickerOn, rcvd,
                   sent, stale, ended, wfail, deleted>>

-----------------------------------------------------------------------------
(* What each handler does before its select loop.                          *)

HandlerVars == <<state, adminState, adminCh, dnext, opc, conn, connCh,
                 nextConn, closed, rclosed, negHold, kaInterval, rmsg, errCh,
                 holdReset, killed, outgoing, cl, clAct, tickerOn, rcvd,
                 stale, ended, wfail, deleted>>

\* idle: idleHoldTimer := time.NewTimer(idleHoldTime).
StartIdle ==
    /\ dpc = "init" /\ state = IDLE
    /\ dpc' = "run"
    /\ idleTimer' = TRUE
    /\ UNCHANGED <<rpc, hconn, rloop, spc, sent>>
    /\ UNCHANGED HandlerVars

StartActive ==
    /\ dpc = "init" /\ state = ACTIVE
    /\ dpc' = "run"
    /\ UNCHANGED <<idleTimer, rpc, hconn, rloop, spc, sent>>
    /\ UNCHANGED HandlerVars

\* opensent: write our OPEN, start recvMessage on a new unbuffered msgCh,
\* arm the OpenSent hold timer.
StartOpenSent ==
    /\ dpc = "init" /\ state = OPENSENT
    /\ dpc' = "run"
    /\ Write(conn, "OPEN")
    /\ rpc' = "read" /\ hconn' = conn /\ rloop' = FALSE
    /\ UNCHANGED <<idleTimer, spc>>
    /\ UNCHANGED HandlerVars

\* openconfirm: keepalive ticker and hold timer from the negotiated values,
\* recvMessage on a new unbuffered msgCh.
StartOpenConfirm ==
    /\ dpc = "init" /\ state = OPENCONFIRM
    /\ dpc' = "run"
    /\ rpc' = "read" /\ hconn' = conn /\ rloop' = FALSE
    /\ UNCHANGED <<idleTimer, spc, sent>>
    /\ UNCHANGED HandlerVars

\* established: sendMessageloop, msgCh := incoming, recvMessageloop, hold
\* timer from the negotiated value.
StartEstablished ==
    /\ dpc = "init" /\ state = ESTABLISHED
    /\ dpc' = "run"
    /\ rpc' = "read" /\ hconn' = conn /\ rloop' = TRUE
    /\ spc' = "run"
    /\ UNCHANGED <<idleTimer, sent>>
    /\ UNCHANGED HandlerVars

-----------------------------------------------------------------------------
(* The select loops.  Every handler but active closes a connection that   *)
(* arrives on connCh.                                                      *)

CloseAcceptedConn ==
    /\ dpc = "run" /\ state # ACTIVE
    /\ connCh # <<>>
    /\ closed' = closed \cup {Head(connCh)}
    /\ connCh' = Tail(connCh)
    /\ UNCHANGED <<state, adminState, adminCh, dpc, dnext, opc, conn, nextConn,
                   rclosed, idleTimer, negHold, kaInterval, rpc, rmsg, hconn, rloop, spc,
                   errCh, holdReset, killed, outgoing, cl, clAct, tickerOn,
                   rcvd, sent, stale, ended, wfail, deleted>>

\* Mutant: the timer moves to ACTIVE whatever the administrative state.
IdleHoldTimerExpiredIgnoringAdmin ==
    /\ dpc = "run" /\ state = IDLE
    /\ idleTimer
    /\ idleTimer' = FALSE
    /\ Return(ACTIVE)
    /\ UNCHANGED <<state, adminState, adminCh, opc, conn, connCh, nextConn,
                   closed, rclosed, negHold, kaInterval, rpc, rmsg, hconn, rloop,
                   spc, errCh, holdReset, killed, outgoing, cl, clAct, tickerOn,
                   rcvd, sent, stale, ended, wfail, deleted>>

\* idle: the idle hold timer fires; with the administrator's consent the
\* FSM moves to ACTIVE, otherwise it stays and the timer is spent.
IdleHoldTimerExpired ==
    /\ dpc = "run" /\ state = IDLE
    /\ idleTimer
    /\ idleTimer' = FALSE
    /\ \/ adminState = UP /\ Return(ACTIVE)
       \/ adminState = DOWN /\ UNCHANGED <<dpc, dnext>>
    /\ UNCHANGED <<state, adminState, adminCh, opc, conn, connCh, nextConn,
                   closed, rclosed, negHold, kaInterval, rpc, rmsg, hconn, rloop, spc, errCh,
                   holdReset, killed, outgoing, cl, clAct, tickerOn, rcvd,
                   sent, stale, ended, wfail, deleted>>

\* Mutant: ADMIN_STATE_DOWN stops the idle hold timer, ADMIN_STATE_UP does
\* not restart it.
IdleAdminChangeNoRestart ==
    /\ dpc = "run" /\ state = IDLE
    /\ adminCh # <<>>
    /\ adminCh' = Tail(adminCh)
    /\ LET s == Head(adminCh) IN
         IF AdminChanged(s)
         THEN adminState' = s /\ idleTimer' = (idleTimer /\ s = UP)
         ELSE UNCHANGED <<adminState, idleTimer>>
    /\ UNCHANGED <<state, dpc, dnext, opc, conn, connCh, nextConn, closed,
                   rclosed, negHold, kaInterval, rpc, rmsg, hconn, rloop, spc, errCh,
                   holdReset, killed, outgoing, cl, clAct, tickerOn, rcvd,
                   sent, stale, ended, wfail, deleted>>

\* idle: an administrative change stops or restarts the idle hold timer.
IdleAdminChange ==
    /\ dpc = "run" /\ state = IDLE
    /\ adminCh # <<>>
    /\ adminCh' = Tail(adminCh)
    /\ LET s == Head(adminCh) IN
         IF AdminChanged(s)
         THEN adminState' = s /\ idleTimer' = (s = UP)
         ELSE UNCHANGED <<adminState, idleTimer>>
    /\ UNCHANGED <<state, dpc, dnext, opc, conn, connCh, nextConn, closed,
                   rclosed, negHold, kaInterval, rpc, rmsg, hconn, rloop, spc, errCh,
                   holdReset, killed, outgoing, cl, clAct, tickerOn, rcvd,
                   sent, stale, ended, wfail, deleted>>

\* active: a dialled connection becomes fsm.conn and the FSM moves to
\* OPENSENT at once (no delayed open).
ActiveConnected ==
    /\ dpc = "run" /\ state = ACTIVE
    /\ connCh # <<>>
    /\ conn' = Head(connCh)
    /\ connCh' = Tail(connCh)
    /\ Return(OPENSENT)
    /\ rcvd' = {} /\ sent' = {}
    /\ UNCHANGED <<state, adminState, adminCh, opc, nextConn, closed, rclosed,
                   idleTimer, negHold, kaInterval, rpc, rmsg, hconn, rloop, spc, errCh,
                   holdReset, killed, outgoing, cl, clAct, tickerOn,
                   stale, ended, wfail, deleted>>

\* active, opensent, openconfirm: ADMIN_STATE_DOWN ends the attempt (the
\* latter two close the connection); an accepted ADMIN_STATE_UP is taken
\* for a "code logic bug" and panics.
HandshakeAdminChange ==
    /\ dpc = "run" /\ state \in {ACTIVE, OPENSENT, OPENCONFIRM}
    /\ adminCh # <<>>
    /\ adminCh' = Tail(adminCh)
    /\ LET s == Head(adminCh) IN
         \/ ~AdminChanged(s) /\ UNCHANGED <<adminState, dpc, dnext, closed>>
         \/ /\ AdminChanged(s) /\ s = DOWN
            /\ adminState' = s
            /\ closed' = IF state = ACTIVE THEN closed ELSE closed \cup {conn}
            /\ Return(IDLE)
         \/ /\ AdminChanged(s) /\ s = UP
            /\ adminState' = s
            /\ dpc' = "panic"
            /\ UNCHANGED <<dnext, closed>>
    /\ UNCHANGED <<state, opc, conn, connCh, nextConn, rclosed, idleTimer,
                   negHold, kaInterval, rpc, rmsg, hconn, rloop, spc, errCh, holdReset,
                   killed, outgoing, cl, clAct, tickerOn, rcvd, sent, stale,
                   ended, wfail, deleted>>

\* opensent: the peer's OPEN passes ValidateOpenMsg.  The hold time and the
\* keepalive interval are negotiated, a KEEPALIVE is written, and the FSM
\* moves to OPENCONFIRM.
OpenSentAcceptOpen ==
    /\ dpc = "run" /\ state = OPENSENT
    /\ rpc = "deliver" /\ rmsg.type = "OPEN"
    /\ rpc' = "none" /\ rmsg' = NoMsg
    /\ negHold' = NegotiatedHoldTime(MyHoldTime, FromSeconds(rmsg.hold))
    /\ kaInterval' = KeepaliveInterval(NegotiatedHoldTime(MyHoldTime, FromSeconds(rmsg.hold)),
                                       MyHoldTime, MyKeepalive)
    /\ Write(conn, "KEEPALIVE")
    /\ Return(OPENCONFIRM)
    /\ UNCHANGED <<state, adminState, adminCh, opc, conn, connCh, nextConn,
                   closed, rclosed, idleTimer, hconn, rloop, spc, errCh,
                   holdReset, killed, outgoing, cl, clAct, tickerOn, rcvd,
                   stale, ended, wfail, deleted>>

\* opensent: an invalid OPEN or a parse error is answered with a
\* NOTIFICATION (which closes the connection); any other message closes
\* the connection without one.  Either way the FSM goes to IDLE.
OpenSentReject ==
    /\ dpc = "run" /\ state = OPENSENT
    /\ rpc = "deliver" /\ rmsg.type # "OPEN"
    /\ rpc' = "none" /\ rmsg' = NoMsg
    /\ SendNotification(conn)
    /\ Return(IDLE)
    /\ UNCHANGED <<state, adminState, adminCh, opc, conn, connCh, nextConn,
                   rclosed, idleTimer, negHold, kaInterval, hconn, rloop, spc,
                   errCh, holdReset, killed, outgoing, cl, clAct, tickerOn,
                   rcvd, stale, ended, wfail, deleted>>

\* openconfirm: the keepalive ticker (absent when the negotiated hold time
\* is 0) writes a KEEPALIVE.
OpenConfirmKeepalive ==
    /\ dpc = "run" /\ state = OPENCONFIRM
    /\ negHold # 0
    /\ Write(conn, "KEEPALIVE")
    /\ UNCHANGED <<state, adminState, adminCh, dpc, dnext, opc, conn, connCh,
                   nextConn, closed, rclosed, idleTimer, negHold, kaInterval,
                   rpc, rmsg, hconn, rloop, spc, errCh, holdReset, killed, outgoing, cl,
                   clAct, tickerOn, rcvd, stale, ended, wfail, deleted>>

\* Mutant: any parsed message, not only a KEEPALIVE, completes the handshake.
OpenConfirmMsgAnyType ==
    /\ dpc = "run" /\ state = OPENCONFIRM
    /\ rpc = "deliver"
    /\ rpc' = "none" /\ rmsg' = NoMsg
    /\ \/ rmsg.type \notin {"MALFORMED", "OPEN_BAD"} /\ Return(ESTABLISHED)
          /\ UNCHANGED closed
       \/ rmsg.type \in {"MALFORMED", "OPEN_BAD"} /\ SendNotification(conn)
          /\ Return(IDLE)
    /\ UNCHANGED <<state, adminState, adminCh, opc, conn, connCh, nextConn,
                   rclosed, idleTimer, negHold, kaInterval, hconn, rloop, spc,
                   errCh, holdReset, killed, outgoing, cl, clAct, tickerOn,
                   rcvd, sent, stale, ended, wfail, deleted>>

\* openconfirm: a KEEPALIVE completes the handshake; any other message
\* closes the connection (a parse error after a NOTIFICATION) and the FSM
\* goes to IDLE.
OpenConfirmMsg ==
    /\ dpc = "run" /\ state = OPENCONFIRM
    /\ rpc = "deliver"
    /\ rpc' = "none" /\ rmsg' = NoMsg
    /\ \/ rmsg.type = "KEEPALIVE" /\ Return(ESTABLISHED) /\ UNCHANGED closed
       \/ rmsg.type # "KEEPALIVE" /\ SendNotification(conn) /\ Return(IDLE)
    /\ UNCHANGED <<state, adminState, adminCh, opc, conn, connCh, nextConn,
                   rclosed, idleTimer, negHold, kaInterval, hconn, rloop, spc,
                   errCh, holdReset, killed, outgoing, cl, clAct, tickerOn,
                   rcvd, sent, stale, ended, wfail, deleted>>

\* opensent, openconfirm: the receiver reported a failure on errorCh.
HandshakeError ==
    /\ dpc = "run" /\ state \in {OPENSENT, OPENCONFIRM}
    /\ errCh > 0
    /\ errCh' = errCh - 1
    /\ closed' = closed \cup {conn}
    /\ Return(IDLE)
    /\ UNCHANGED <<state, adminState, adminCh, opc, conn, connCh, nextConn,
                   rclosed, idleTimer, negHold, kaInterval, rpc, rmsg, hconn, rloop, spc,
                   holdReset, killed, outgoing, cl, clAct, tickerOn, rcvd, sent,
                   stale, ended, wfail, deleted>>

\* opensent (240 s), openconfirm (negotiated, never when 0): the hold timer
\* fires; a NOTIFICATION is sent, the connection closed, the tomb killed.
HandshakeHoldTimerExpired ==
    /\ dpc = "run"
    /\ state = OPENSENT \/ (state = OPENCONFIRM /\ negHold # 0)
    /\ SendNotification(conn)
    /\ killed' = TRUE
    /\ Return(IDLE)
    /\ UNCHANGED <<state, adminState, adminCh, opc, conn, connCh, nextConn,
                   rclosed, idleTimer, negHold, kaInterval, rpc, rmsg, hconn, rloop, spc,
                   errCh, holdReset, outgoing, cl, clAct, tickerOn, rcvd,
                   stale, ended, wfail, deleted>>

\* established: the first failure on errorCh closes the connection, kills
\* the tomb (the sender then tries its dying NOTIFICATION) and ends the
\* session.
EstablishedError ==
    /\ dpc = "run" /\ state = ESTABLISHED
    /\ errCh > 0
    /\ errCh' = errCh - 1
    /\ closed' = closed \cup {conn}
    /\ killed' = TRUE
    /\ Return(IDLE)
    /\ UNCHANGED <<state, adminState, adminCh, opc, conn, connCh, nextConn,
                   rclosed, idleTimer, negHold, kaInterval, rpc, rmsg, hconn, rloop, spc,
                   holdReset, outgoing, cl, clAct, tickerOn, rcvd, sent,
                   stale, ended, wfail, deleted>>

\* established: the hold timer fires; the handler blocks until its
\* hold-timer-expired NOTIFICATION is in the outgoing channel, then
\* returns IDLE.  It neither closes the connection nor kills the tomb.
EstablishedHoldTimerExpired ==
    /\ dpc = "run" /\ state = ESTABLISHED
    /\ negHold # 0
    /\ dpc' = "putHold"
    /\ UNCHANGED <<state, adminState, adminCh, dnext, opc, conn, connCh,
                   nextConn, closed, rclosed, idleTimer, negHold, kaInterval,
                   rpc, rmsg, hconn, rloop, spc, errCh, holdReset, killed, outgoing, cl,
                   clAct, tickerOn, rcvd, sent, stale, ended, wfail, deleted>>

EstablishedPutHold ==
    /\ dpc = "putHold"
    /\ Len(outgoing) < OutCap
    /\ outgoing' = Append(outgoing, "NOTIFICATION")
    /\ Return(IDLE)
    /\ UNCHANGED <<state, adminState, adminCh, opc, conn, connCh, nextConn,
                   closed, rclosed, idleTimer, negHold, kaInterval, rpc, rmsg, hconn, rloop,
                   spc, errCh, holdReset, killed, cl, clAct, tickerOn, rcvd,
                   sent, stale, ended, wfail, deleted>>

\* established: a queued hold-timer reset re-arms the timer (untimed here).
EstablishedHoldTimerReset ==
    /\ dpc = "run" /\ state = ESTABLISHED
    /\ holdReset > 0
    /\ holdReset' = holdReset - 1
    /\ UNCHANGED <<state, adminState, adminCh, dpc, dnext, opc, conn, connCh,
                   nextConn, closed, rclosed, idleTimer, negHold, kaInterval,
                   rpc, rmsg, hconn, rloop, spc, errCh, killed, outgoing, cl, clAct,
                   tickerOn, rcvd, sent, stale, ended, wfail, deleted>>

\* established: ADMIN_STATE_DOWN queues a Cease/administrative-shutdown
\* NOTIFICATION (blocking on a full channel); ADMIN_STATE_UP only records.
EstablishedAdminChange ==
    /\ dpc = "run" /\ state = ESTABLISHED
    /\ adminCh # <<>>
    /\ adminCh' = Tail(adminCh)
    /\ LET s == Head(adminCh) IN
         /\ adminState' = IF AdminChanged(s) THEN s ELSE adminState
         /\ dpc' = IF AdminChanged(s) /\ s = DOWN THEN "putCease" ELSE dpc
    /\ UNCHANGED <<state, dnext, opc, conn, connCh, nextConn, closed, rclosed,
                   idleTimer, negHold, kaInterval, rpc, rmsg, hconn, rloop, spc, errCh,
                   holdReset, killed, outgoing, cl, clAct, tickerOn, rcvd,
                   sent, stale, ended, wfail, deleted>>

EstablishedPutCease ==
    /\ dpc = "putCease"
    /\ Len(outgoing) < OutCap
    /\ outgoing' = Append(outgoing, "NOTIFICATION")
    /\ dpc' = "run"
    /\ UNCHANGED <<state, adminState, adminCh, dnext, opc, conn, connCh,
                   nextConn, closed, rclosed, idleTimer, negHold, kaInterval,
                   rpc, rmsg, hconn, rloop, spc, errCh, holdReset, killed, cl, clAct,
                   tickerOn, rcvd, sent, stale, ended, wfail, deleted>>

\* Every handler: h.t.Dying() (the peer is being deleted) returns the
\* sentinel -1; opensent and openconfirm close h.conn first, established
\* leaves it to the send goroutine's Cease.
HandlerDying ==
    /\ dpc = "run" /\ killed
    /\ closed' = IF state \in {OPENSENT, OPENCONFIRM} THEN closed \cup {hconn} ELSE closed
    /\ Return(DYING)
    /\ UNCHANGED <<state, adminState, adminCh, opc, conn, connCh, nextConn,
                   rclosed, idleTimer, negHold, kaInterval, rpc, rmsg, hconn, rloop, spc,
                   errCh, holdReset, killed, outgoing, cl, clAct, tickerOn, rcvd, sent,
                   stale, ended, wfail, deleted>>

\* Mutant: the state change is reported without waiting for the receiver.
HandlerJoinIgnoringReceiver ==
    /\ dpc = "wait"
    /\ spc = "none"
    /\ dpc' = IF dnext = DYING THEN "gone" ELSE "report"
    /\ UNCHANGED <<state, adminState, adminCh, dnext, opc, conn, connCh,
                   nextConn, closed, rclosed, idleTimer, negHold, kaInterval,
                   rpc, rmsg, hconn, rloop, spc, errCh, holdReset, killed,
                   outgoing, cl, clAct, tickerOn, rcvd, sent, stale, ended,
                   wfail, deleted>>

\* Mutant: the envelope is sent whatever the handler returned.
HandlerJoinReportingDying ==
    /\ dpc = "wait"
    /\ rpc = "none" /\ spc = "none"
    /\ dpc' = "report"
    /\ UNCHANGED <<state, adminState, adminCh, dnext, opc, conn, connCh,
                   nextConn, closed, rclosed, idleTimer, negHold, kaInterval,
                   rpc, rmsg, hconn, rloop, spc, errCh, holdReset, killed, outgoing, cl,
                   clAct, tickerOn, rcvd, sent, stale, ended, wfail, deleted>>

\* FSMHandler.loop: after the handler returned, h.t.Wait() waits for the
\* receive and send goroutines; then the state-change envelope is sent,
\* unless the handler returned the sentinel -1.
HandlerJoin ==
    /\ dpc = "wait"
    /\ rpc = "none" /\ spc = "none"
    /\ dpc' = IF dnext = DYING THEN "gone" ELSE "report"
    /\ UNCHANGED <<state, adminState, adminCh, dnext, opc, conn, connCh,
                   nextConn, closed, rclosed, idleTimer, negHold, kaInterval,
                   rpc, rmsg, hconn, rloop, spc, errCh, holdReset, killed, outgoing, cl,
                   clAct, tickerOn, rcvd, sent, stale, ended, wfail, deleted>>

-----------------------------------------------------------------------------
(* The receive goroutine (recvMessageWithError).  OPENSENT and OPENCONFIRM *)
(* run it once (recvMessage) and it hands the message to the handler on    *)
(* the unbuffered msgCh; ESTABLISHED runs it in recvMessageloop, which     *)
(* stops at the first call that returns an error.                          *)

RecvVars == <<state, adminState, adminCh, dpc, dnext, opc, conn, connCh,
              nextConn, closed, rclosed, idleTimer, negHold, kaInterval, hconn,
              rloop, spc, killed, outgoing, cl, clAct, tickerOn, sent, ended,
              wfail, deleted>>

\* readAll fails on a closed connection: READ_FAILED goes to errorCh.
RecvReadFailed ==
    /\ rpc = "read"
    /\ ~IsOpen(hconn)
    /\ rpc' = "errexit"
    /\ UNCHANGED <<rmsg, errCh, holdReset, rcvd, stale>>
    /\ UNCHANGED RecvVars

\* In ESTABLISHED a KEEPALIVE or a NOTIFICATION is handled by the receiver
\* itself; everything else is sent on to the incoming channel.
Consumed(est, m) == est /\ m.type \in {"KEEPALIVE", "NOTIFICATION"}

RecordRead(m) ==
    rcvd' = IF m.type \in Handshake /\ hconn = conn
            THEN rcvd \cup {m.type} ELSE rcvd

\* recvMessage (opensent, openconfirm): every read, parse errors included,
\* is handed over on the unbuffered msgCh; the goroutine ends once the
\* handler takes it.
RecvHandshakeMsg ==
    /\ rpc = "read" /\ ~rloop
    /\ IsOpen(hconn)
    /\ \E m \in RemoteMsgs :
         /\ rpc' = "deliver"
         /\ rmsg' = m
         /\ RecordRead(m)
    /\ UNCHANGED <<errCh, holdReset, stale>>
    /\ UNCHANGED RecvVars

\* recvMessageloop (msgCh = incoming).  While fsm.state is ESTABLISHED an
\* UPDATE or KEEPALIVE queues a hold-timer reset unless one is pending, a
\* KEEPALIVE stops there and a NOTIFICATION puts NOTIFICATION_RECV on
\* errorCh.  Everything else goes to incoming: an UPDATE that fails
\* ValidateUpdateMsg as well (the err of that check is a new variable, so
\* the call still returns nil), and a header or body that fails to parse,
\* whose error return then ends recvMessageloop.
RecvEstablishedMsg ==
    /\ rpc = "read" /\ rloop
    /\ IsOpen(hconn)
    /\ \E m \in RemoteMsgs :
         LET est == state = ESTABLISHED IN
         /\ RecordRead(m)
         /\ holdReset' = IF est /\ m.type \in {"UPDATE", "KEEPALIVE"} /\ holdReset = 0
                         THEN 1 ELSE holdReset
         /\ stale' = (stale \/ (hconn \in ended /\ ~Consumed(est, m)))
         /\ rpc' = CASE m.type = "MALFORMED"           -> "none"
                     [] est /\ m.type = "NOTIFICATION" -> "errloop"
                     [] OTHER                          -> "read"
    /\ UNCHANGED <<rmsg, errCh>>
    /\ UNCHANGED RecvVars

\* Mutant: the put never blocks, as if errorCh were unbounded.
RecvErrorPutUnbounded ==
    /\ rpc \in {"errloop", "errexit"}
    /\ errCh' = errCh + 1
    /\ rpc' = IF rpc = "errloop" THEN "read" ELSE "none"
    /\ UNCHANGED <<rmsg, holdReset, rcvd, stale>>
    /\ UNCHANGED RecvVars

\* h.errorCh <- reason blocks while the channel holds two reasons.
RecvErrorPut ==
    /\ rpc \in {"errloop", "errexit"}
    /\ errCh < 2
    /\ errCh' = errCh + 1
    /\ rpc' = IF rpc = "errloop" THEN "read" ELSE "none"
    /\ UNCHANGED <<rmsg, hconn, rloop, holdReset, rcvd, stale>>
    /\ UNCHANGED RecvVars

-----------------------------------------------------------------------------
(* The send goroutine of ESTABLISHED (sendMessageloop and its send).       *)
(* send sets a write deadline of NegotiatedHoldTime seconds from now: on a *)
(* connection this side closed, or with a deadline of 0 seconds, the write *)
(* fails; on one the remote closed it may fail or still be buffered.  A    *)
(* failure puts WRITE_FAILED on errorCh, a NOTIFICATION written puts       *)
(* NOTIFICATION_SENT there, and both end the goroutine.                    *)

SendVars == <<state, adminState, adminCh, dpc, dnext, opc, conn, connCh,
              nextConn, closed, rclosed, idleTimer, negHold, kaInterval, rpc,
              rmsg, hconn, rloop, holdReset, killed, cl, clAct, tickerOn, rcvd, stale,
              ended, deleted>>

WriteMustFail == hconn \in closed \/ negHold = 0
WriteMayFail == WriteMustFail \/ hconn \in rclosed

Send(m) ==
    \/ /\ WriteMayFail
       /\ spc' = "errexit"
       /\ wfail' = (wfail \/ IsOpen(hconn))
       /\ UNCHANGED sent
    \/ /\ ~WriteMustFail
       /\ spc' = IF m = "NOTIFICATION" THEN "errexit" ELSE "run"
       /\ Write(hconn, m)
       /\ UNCHANGED wfail

SendOutgoing ==
    /\ spc = "run"
    /\ outgoing # <<>>
    /\ outgoing' = Tail(outgoing)
    /\ Send(Head(outgoing))
    /\ UNCHANGED errCh
    /\ UNCHANGED SendVars

\* The keepalive ticker; keepaliveTicker gives none when the negotiated
\* hold time is 0.
SendKeepalive ==
    /\ spc = "run"
    /\ negHold # 0
    /\ Send("KEEPALIVE")
    /\ UNCHANGED <<outgoing, errCh>>
    /\ UNCHANGED SendVars

\* h.t.Dying(): fsm.state is still ESTABLISHED (the owner has not yet seen
\* the state change), so a Cease/peer-deconfigured NOTIFICATION is tried;
\* the goroutine ends whatever send returns.
SendOnDying ==
    /\ spc = "run"
    /\ killed
    /\ state = ESTABLISHED
    /\ Send("NOTIFICATION")
    /\ UNCHANGED <<outgoing, errCh>>
    /\ UNCHANGED SendVars

SendErrorPut ==
    /\ spc = "errexit"
    /\ errCh < 2
    /\ errCh' = errCh + 1
    /\ spc' = "none"
    /\ UNCHANGED <<outgoing, sent, wfail, deleted>>
    /\ UNCHANGED SendVars

-----------------------------------------------------------------------------
(* The connect loop.  connect() dials only while fsm.state is ACTIVE; the  *)
(* state is read before the dial and the connection is pushed on connCh    *)
(* after it, with a blocking send.  The ticker is created (and runs for    *)
(* the rest of the FSM's life) after the first connect() that follows a    *)
(* getActiveCh token and its random 5-10 s sleep.                          *)

ConnVars == <<state, adminState, adminCh, dpc, dnext, opc, conn, closed,
              rclosed, idleTimer, negHold, kaInterval, rpc, rmsg, hconn, rloop, spc, errCh,
              holdReset, killed, outgoing, rcvd, sent, stale, ended, wfail, deleted>>

\* connect() ends; a connect() after getActiveCh then starts the ticker.
ConnectDone ==
    /\ cl' = "select"
    /\ clAct' = FALSE
    /\ tickerOn' = (tickerOn \/ clAct)

\* fsm.t.Dying(): the loop stops its ticker and returns.
ConnectStop ==
    /\ cl = "select" /\ deleted
    /\ cl' = "stopped"
    /\ tickerOn' = FALSE
    /\ UNCHANGED <<clAct, connCh, nextConn>>
    /\ UNCHANGED ConnVars

ConnectTick ==
    /\ cl = "select" /\ tickerOn
    /\ state = ACTIVE
    /\ cl' = "dial"
    /\ UNCHANGED <<clAct, tickerOn, connCh, nextConn>>
    /\ UNCHANGED ConnVars

ConnectWake ==
    /\ cl = "sleep"
    /\ \/ state = ACTIVE /\ cl' = "dial" /\ UNCHANGED <<clAct, tickerOn>>
       \/ state # ACTIVE /\ ConnectDone
    /\ UNCHANGED <<connCh, nextConn>>
    /\ UNCHANGED ConnVars

ConnectDial ==
    /\ cl = "dial"
    /\ \/ /\ nextConn <= MaxConns
          /\ nextConn' = nextConn + 1
          /\ cl' = "push"
          /\ UNCHANGED <<clAct, tickerOn>>
       \/ ConnectDone /\ UNCHANGED nextConn
    /\ UNCHANGED connCh
    /\ UNCHANGED ConnVars

ConnectPush ==
    /\ cl = "push"
    /\ connCh = <<>>
    /\ connCh' = <<nextConn - 1>>
    /\ ConnectDone
    /\ UNCHANGED nextConn
    /\ UNCHANGED ConnVars

-----------------------------------------------------------------------------
(* The environment.                                                        *)

EnvVars == <<state, adminState, dpc, dnext, opc, conn, connCh, nextConn,
             closed, idleTimer, negHold, kaInterval, rpc, rmsg, hconn, rloop, spc, errCh,
             holdReset, killed, cl, clAct, tickerOn, rcvd, sent, stale,
             ended, wfail, deleted>>

\* The administrator's request lands in adminStateCh when it has room.
AdminRequest ==
    /\ ~deleted
    /\ adminCh = <<>>
    /\ \E s \in {UP, DOWN} : adminCh' = <<s>>
    /\ UNCHANGED <<rclosed, outgoing>>
    /\ UNCHANGED EnvVars

\* The server deconfigures the peer: it kills the FSM's tomb (ending the
\* connect loop) and the current handler's.  The server's main loop does
\* this between two StateChange calls, never inside one.
Deconfigure ==
    /\ Deletable /\ ~deleted
    /\ opc = "ready"
    /\ deleted' = TRUE
    /\ killed' = TRUE
    /\ UNCHANGED <<state, adminState, adminCh, dpc, dnext, opc, conn, connCh, nextConn,
                   closed, rclosed, idleTimer, negHold, kaInterval, rpc, rmsg, hconn, rloop,
                   spc, errCh, holdReset, outgoing, cl, clAct, tickerOn, rcvd, sent,
                   stale, ended, wfail>>

\* The remote speaker closes (or loses) a connection.
RemoteClose ==
    /\ \E c \in 1..(nextConn - 1) \ rclosed : rclosed' = rclosed \cup {c}
    /\ UNCHANGED <<adminCh, outgoing>>
    /\ UNCHANGED EnvVars

\* The route processor queues an UPDATE for an established peer.
RouteProcessorSend ==
    /\ ~deleted
    /\ state = ESTABLISHED
    /\ Len(outgoing) < OutCap
    /\ outgoing' = Append(outgoing, "UPDATE")
    /\ UNCHANGED <<adminCh, rclosed>>
    /\ UNCHANGED EnvVars

-----------------------------------------------------------------------------
Next ==
    \/ OwnerStateChange \/ OwnerDropsEnvelope \/ OwnerActivated
    \/ StartIdle \/ StartActive \/ StartOpenSent \/ StartOpenConfirm
    \/ StartEstablished
    \/ CloseAcceptedConn \/ IdleHoldTimerExpired \/ IdleAdminChange
    \/ ActiveConnected \/ HandshakeAdminChange
    \/ OpenSentAcceptOpen \/ OpenSentReject
    \/ OpenConfirmKeepalive \/ OpenConfirmMsg
    \/ HandshakeError \/ HandshakeHoldTimerExpired
    \/ EstablishedError \/ EstablishedHoldTimerExpired \/ EstablishedPutHold
    \/ EstablishedHoldTimerReset \/ EstablishedAdminChange
    \/ EstablishedPutCease
    \/ HandlerDying \/ HandlerJoin
    \/ RecvReadFailed \/ RecvHandshakeMsg \/ RecvEstablishedMsg \/ RecvErrorPut
    \/ SendOutgoing \/ SendKeepalive \/ SendOnDying \/ SendErrorPut
    \/ ConnectStop \/ ConnectTick \/ ConnectWake \/ ConnectDial \/ ConnectPush
    \/ AdminRequest \/ Deconfigure \/ RemoteClose \/ RouteProcessorSend

(* Every goroutine of this process that is able to step eventually does:  *)
(* the Go scheduler runs runnable goroutines, a read of a closed socket    *)
(* returns, and the idle, OpenSent and OpenConfirm timers are never reset *)
(* so they fire.  The remote speaker, the administrator, the route         *)
(* processor, the ESTABLISHED hold timer (reset by every KEEPALIVE) and    *)
(* the keepalive tickers get no fairness.  The connect loop's select      *)
(* picks uniformly among its ready cases, so a getActiveCh token that is  *)
(* offered again and again is eventually taken (strong fairness).         *)
Fairness ==
    /\ WF_vars(OwnerStateChange) /\ WF_vars(OwnerDropsEnvelope)
    /\ SF_vars(OwnerActivated)
    /\ WF_vars(StartIdle) /\ WF_vars(StartActive) /\ WF_vars(StartOpenSent)
    /\ WF_vars(StartOpenConfirm) /\ WF_vars(StartEstablished)
    /\ WF_vars(CloseAcceptedConn) /\ WF_vars(IdleHoldTimerExpired)
    /\ WF_vars(IdleAdminChange) /\ WF_vars(ActiveConnected)
    /\ WF_vars(HandshakeAdminChange) /\ WF_vars(OpenSentAcceptOpen)
    /\ WF_vars(OpenSentReject) /\ WF_vars(OpenConfirmMsg)
    /\ WF_vars(HandshakeError) /\ WF_vars(HandshakeHoldTimerExpired)
    /\ WF_vars(EstablishedError) /\ WF_vars(EstablishedPutHold)
    /\ WF_vars(EstablishedHoldTimerReset) /\ WF_vars(EstablishedAdminChange)
    /\ WF_vars(EstablishedPutCease) /\ WF_vars(HandlerDying)
    /\ WF_vars(HandlerJoin)
    /\ WF_vars(RecvReadFailed) /\ WF_vars(RecvErrorPut)
    /\ WF_vars(SendOutgoing) /\ WF_vars(SendOnDying) /\ WF_vars(SendErrorPut)
    /\ WF_vars(ConnectStop) /\ WF_vars(ConnectTick) /\ WF_vars(ConnectWake) /\ WF_vars(ConnectDial)
    /\ WF_vars(ConnectPush)

Spec == Init /\ [][Next]_vars /\ Fairness

(* EnabledPeerLeavesIdle needs only four of the conditions of Fairness:   *)
(* the idle handler starts, its timer fires, FSMHandler.loop joins and    *)
(* the owner applies the state change.  IdleSpec assumes no more than     *)
(* Spec does, so what IdleSpec satisfies Spec satisfies too; checking it   *)
(* with four conditions instead of forty keeps the run short.             *)
IdleFairness ==
    /\ WF_vars(StartIdle) /\ WF_vars(IdleHoldTimerExpired)
    /\ WF_vars(HandlerJoin) /\ WF_vars(OwnerStateChange)

IdleSpec == Init /\ [][Next]_vars /\ IdleFairness

-----------------------------------------------------------------------------
(* Properties.                                                             *)

TypeOK ==
    /\ state \in FSMStates
    /\ adminState \in {UP, DOWN}
    /\ adminCh \in Seq({UP, DOWN}) /\ Len(adminCh) <= 1
    /\ dpc \in {"init", "run", "putHold", "putCease", "wait", "report",
                "gone", "panic"}
    /\ dnext \in FSMStates \cup {DYING}
    /\ opc \in {"ready", "activating"}
    /\ conn \in 0..MaxConns
    /\ connCh \in Seq(Conns) /\ Len(connCh) <= 1
    /\ nextConn \in 1..(MaxConns + 1)
    /\ closed \subseteq Conns /\ rclosed \subseteq Conns
    /\ idleTimer \in BOOLEAN
    /\ negHold \in Nat /\ kaInterval \in Nat
    /\ rpc \in {"none", "read", "deliver", "errloop", "errexit"}
    /\ rmsg \in RemoteMsgs \cup {NoMsg}
    /\ hconn \in 0..MaxConns /\ rloop \in BOOLEAN
    /\ spc \in {"none", "run", "errexit"}
    /\ errCh \in 0..2 /\ holdReset \in 0..2
    /\ killed \in BOOLEAN
    /\ outgoing \in Seq({"UPDATE", "NOTIFICATION"}) /\ Len(outgoing) <= OutCap
    /\ cl \in {"select", "sleep", "dial", "push", "stopped"}
    /\ clAct \in BOOLEAN /\ tickerOn \in BOOLEAN
    /\ rcvd \subseteq Handshake
    /\ sent \subseteq Handshake
    /\ stale \in BOOLEAN
    /\ ended \subseteq Conns
    /\ wfail \in BOOLEAN
    /\ deleted \in BOOLEAN

\* The "code logic bug" panic of active/opensent/openconfirm (an accepted
\* ADMIN_STATE_UP while the FSM is between IDLE and ESTABLISHED) is never
\* reached: those states are only entered with the administrator's consent
\* and left as soon as it is withdrawn.
NoAdminLogicPanic == dpc # "panic"

\* ESTABLISHED is only reached on a connection on which this side has
\* written its OPEN and a KEEPALIVE and read a valid OPEN and a KEEPALIVE
\* from the peer (opensent then openconfirm, on fsm.conn).
EstablishedAfterHandshake ==
    state = ESTABLISHED =>
        /\ conn # 0
        /\ Handshake \subseteq rcvd
        /\ Handshake \subseteq sent

\* Once the end of a session has been reported to the owner, no BGP message
\* read on that session's connection reaches the incoming channel: the
\* state-change envelope is sent only after h.t.Wait(), so the receiver of
\* the session has ended by then.
NoStaleDelivery == ~stale

\* While ESTABLISHED, the session keeps reading from its connection: a
\* malformed UPDATE is surfaced as a ParseError and the session continues
\* (spec 7).
ReceiverRunsWhileEstablished ==
    (state = ESTABLISHED /\ dpc = "run") => rpc # "none"

\* A write in ESTABLISHED only fails when the connection is gone; a
\* negotiated hold time of 0 means "no keepalives, no hold expiry" (spec 4.1).
NoWriteFailureOnOpenConn == ~wfail

\* Every handler that has returned eventually gets past h.t.Wait() (and
\* reports its next state, unless it returned on Dying): the receive and
\* send goroutines it waits for always end (the 120 s log.Fatal of
\* FSMHandler.loop never fires).
HandlerTerminates == (dpc = "wait") ~> (dpc \in {"report", "gone"})

\* StateChange(ACTIVE) always returns: the connect loop eventually takes the
\* getActiveCh token, so the owner can start the ACTIVE handler.
ActivationCompletes == (opc = "activating") ~> (opc = "ready")

\* The transitions spec 4.1 enumerates.
Transitions41 ==
    {<<IDLE, ACTIVE>>, <<ACTIVE, OPENSENT>>, <<OPENSENT, OPENCONFIRM>>,
     <<OPENCONFIRM, ESTABLISHED>>}
    \cup {<<s, IDLE>> : s \in {ACTIVE, OPENSENT, OPENCONFIRM, ESTABLISHED}}

\* P7: every state change FSMHandler.loop reports on the state event
\* channel is one of the transitions of spec 4.1: IDLE to ACTIVE, ACTIVE
\* to OPENSENT, OPENSENT to OPENCONFIRM, OPENCONFIRM to ESTABLISHED, and
\* from any of the last four back to IDLE.  The handler a state runs never
\* returns its own state or skips one, and the sentinel -1 of a handler
\* that saw h.t.Dying() is never reported (spec 6).
StateTransitionsEnumerated ==
    [][dpc = "report" /\ dpc' # "report" => <<state, dnext>> \in Transitions41]_vars

\* An administratively enabled peer does not stay in IDLE: while the
\* administrative state is UP and the peer is configured, the idle hold
\* timer (started by idle(), restarted by ADMIN_STATE_UP after an
\* ADMIN_STATE_DOWN stopped it, or spent while DOWN) eventually moves the
\* FSM to ACTIVE through the handler's return, h.t.Wait(), the envelope and
\* StateChange.
EnabledPeerLeavesIdle ==
    (state = IDLE /\ adminState = UP) ~> (state = ACTIVE \/ adminState = DOWN \/ deleted)

=============================================================================
