---------------------------- MODULE ServerHandler ----------------------------
(***************************************************************************)
(* The RPC server front end of src/mtchain/rpc/impl/ServerHandlerImp.cpp.  *)
(* At startup setup_ServerHandler turns the [server] configuration into    *)
(* ports.  The HTTP server (not in the repository) then hands every        *)
(* connection to the handler: onAccept counts it against its port's limit, *)
(* onHandoff routes each request (websocket upgrade, peer protocol, status *)
(* page, or plain RPC), onRequest checks the protocol and the Basic        *)
(* credentials and posts a coroutine on the job queue, processRequest      *)
(* answers it and charges the client's resource consumer, and onClose      *)
(* uncounts the session when it ends.  A websocket session gets its        *)
(* messages one at a time through onWSMessage and processSession.          *)
(*                                                                         *)
(* Requests are abstracted to the properties the handler tests (upgrade,   *)
(* status page, credentials, JSON shape, method, params); the role of a    *)
(* request (Role.cpp), the resource manager's balances, and the commands   *)
(* run by RPC::doCommand are the environment.                              *)
(***************************************************************************)
EXTENDS Integers, Sequences, SequencesExt, FiniteSets

CONSTANTS
    Configs,       \* possible [server] configurations
    Sessions,      \* connection slots of the HTTP server
    Endpoints,     \* remote addresses
    Headers,       \* classes of Authorization header a request may carry
    FeeInvalid,    \* Resource::feeInvalidRPC
    CommandFees,   \* loadType after a command: feeReferenceRPC or what it raised it to
    Drop,          \* consumer balance at which disconnect() is true
    Missing,       \* a [server] name without its section
    None

Protocols == {"http", "https", "ws", "ws2", "wss", "wss2", "peer"}
Roles == {"FORBID", "GUEST", "USER", "IDENTIFIED", "ADMIN"}

VARIABLES
    phase,         \* "config", "running" or "failed" (setup threw)
    standalone,    \* config.standalone()
    ports,         \* setup_.ports: <<[protocol, limit, creds]>>
    client,        \* setup.client: [secure, port] or None
    overlay,       \* setup.overlay.port: index of the peer port or 0
    count,         \* count_: sessions counted per port index
    sess,          \* sess[s]: [st, port, ssl, ip, unl] of connection slot s
    balance,       \* balance[ip]: the resource manager's charge balance
    last           \* last[s]: [reply, charges] of the last answered request

vars == <<phase, standalone, ports, client, overlay, count, sess, balance, last>>

FreeSession == [st |-> "free", port |-> 0, ssl |-> FALSE, ip |-> None, unl |-> FALSE]
NoReply == [reply |-> "none", charges |-> 0]

-----------------------------------------------------------------------------
(* Setup.                                                                  *)

(* to_Port: the ip, a non-zero port and some protocol are required; the   *)
(* other fields are copied.                                               *)
to_PortOk(pp) == pp.ip /\ pp.pnum = "ok" /\ pp.protocol # {}
to_Port(pp) == [protocol |-> pp.protocol, limit |-> pp.limit, creds |-> pp.creds]

(* Mutant of StripPeer: the loop steps past the entry after an erase. *)
RECURSIVE StripPeerSkip(_, _)
StripPeerSkip(ps, i) ==
    IF i > Len(ps) THEN ps
    ELSE IF ps[i].protocol = {"peer"}
    THEN StripPeerSkip(RemoveAt(ps, i), i + 1)
    ELSE StripPeerSkip([ps EXCEPT ![i].protocol = @ \ {"peer"}], i + 1)

(* The standalone loop of parse_Ports: erase "peer" from every port, and  *)
(* erase a port left with no protocol; erase() returns the next port.     *)
RECURSIVE StripPeer(_, _)
StripPeer(ps, i) ==
    IF i > Len(ps) THEN ps
    ELSE IF ps[i].protocol = {"peer"}
    THEN StripPeer(RemoveAt(ps, i), i)
    ELSE StripPeer([ps EXCEPT ![i].protocol = @ \ {"peer"}], i + 1)

PeerPorts(ps) == {i \in 1..Len(ps) : "peer" \in ps[i].protocol}

(* parse_Ports: [server] must exist, every name must have a section that  *)
(* to_Port accepts; standalone strips the peer protocol, otherwise more   *)
(* than one peer port throws.                                             *)
parse_Ports(config, alone) ==
    LET secs == config.sections
        ok == /\ config.server
              /\ \A i \in 1..Len(secs) : secs[i] # Missing /\ to_PortOk(secs[i])
        ps == [i \in 1..Len(secs) |-> to_Port(secs[i])]
    IN  IF ~ok THEN [ok |-> FALSE, ports |-> <<>>]
        ELSE IF alone THEN [ok |-> TRUE, ports |-> StripPeer(ps, 1)]
        ELSE IF Cardinality(PeerPorts(ps)) > 1 THEN [ok |-> FALSE, ports |-> <<>>]
        ELSE [ok |-> TRUE, ports |-> ps]

(* setup_Client: the first port serving http or https. *)
setup_Client(ps) ==
    LET i == SelectInSeq(ps, LAMBDA p : p.protocol \cap {"http", "https"} # {})
    IN IF i = 0 THEN None ELSE [secure |-> "https" \in ps[i].protocol, port |-> i]

(* setup_Overlay: the first peer port, or port 0. *)
setup_Overlay(ps) == SelectInSeq(ps, LAMBDA p : "peer" \in p.protocol)

(* setup_ServerHandler, then ServerHandlerImp::setup hands the ports to   *)
(* the server; a throw stops the application.                             *)
Setup(config, alone) ==
    /\ phase = "config"
    /\ LET r == parse_Ports(config, alone) IN
       /\ phase' = IF r.ok THEN "running" ELSE "failed"
       /\ ports' = r.ports
       /\ client' = setup_Client(r.ports)
       /\ overlay' = setup_Overlay(r.ports)
       /\ count' = [i \in 1..Len(r.ports) |-> 0]
    /\ standalone' = alone
    /\ UNCHANGED <<sess, balance, last>>

-----------------------------------------------------------------------------
(* Connections.                                                            *)

(* The server's TLS detection: a secure connection needs a port with a    *)
(* secure protocol, a plain one a port with a plain protocol.             *)
Secure(i) == ports[i].protocol \cap {"https", "wss", "wss2", "peer"} # {}
Plain(i) == ports[i].protocol \cap {"http", "ws", "ws2"} # {}

(* Mutant of onAccept: the limit is tested before the session is counted. *)
onAcceptCheckFirst(cnt, i) ==
    IF ports[i].limit # 0 /\ cnt[i] + 1 >= ports[i].limit
    THEN [count |-> cnt, ok |-> FALSE]
    ELSE [count |-> [cnt EXCEPT ![i] = @ + 1], ok |-> TRUE]

(* Mutant of onAccept: a session is refused only past the limit. *)
onAcceptPastLimit(cnt, i) ==
    LET c == cnt[i] + 1
    IN [count |-> [cnt EXCEPT ![i] = c], ok |-> ~(ports[i].limit # 0 /\ c > ports[i].limit)]

(* onAccept, under countlock_: count the session, then refuse it if the   *)
(* count reached the port's limit (a limit of 0 is no limit).  A refused  *)
(* session stays counted until its onClose.                               *)
onAccept(cnt, i) ==
    LET c == cnt[i] + 1
    IN [count |-> [cnt EXCEPT ![i] = c], ok |-> ~(ports[i].limit # 0 /\ c >= ports[i].limit)]

Accept(s, i, ip, ssl) ==
    /\ phase = "running"
    /\ sess[s].st = "free"
    /\ IF ssl THEN Secure(i) ELSE Plain(i)
    /\ LET r == onAccept(count, i) IN
       /\ count' = r.count
       /\ sess' = [sess EXCEPT ![s] = [st |-> IF r.ok THEN "open" ELSE "rejected",
                                       port |-> i, ssl |-> ssl, ip |-> ip, unl |-> FALSE]]
    /\ UNCHANGED <<phase, standalone, ports, client, overlay, balance, last>>

(* onClose, under countlock_, when the server destroys the session: a     *)
(* refused or closed one, or one idle between requests whose client left. *)
(* A session a coroutine still holds is not destroyed.                    *)
End(s) ==
    /\ sess[s].st \in {"rejected", "closing", "open", "wsread"}
    /\ count' = [count EXCEPT ![sess[s].port] = @ - 1]
    /\ sess' = [sess EXCEPT ![s] = FreeSession]
    /\ last' = [last EXCEPT ![s] = NoReply]
    /\ UNCHANGED <<phase, standalone, ports, client, overlay, balance>>

(* The two onHandoff overloads, for a TLS and a plain connection: a       *)
(* websocket upgrade becomes a websocket session on a websocket port and  *)
(* a 401 elsewhere; on TLS the peer protocol goes to the overlay, which   *)
(* takes the connection or passes it back; a status request on a          *)
(* websocket port gets statusResponse, which closes; anything else goes   *)
(* to onRequest.                                                          *)
onHandoff(i, ssl, upgrade, status, toOverlay) ==
    LET is_ws == ports[i].protocol \cap (IF ssl THEN {"wss", "wss2"} ELSE {"ws", "ws2"}) # {}
    IN  IF upgrade THEN (IF is_ws THEN "wsread" ELSE "closing")
        ELSE IF ssl /\ "peer" \in ports[i].protocol
             THEN (IF toOverlay THEN "closing" ELSE "request")
        ELSE IF is_ws /\ status THEN "closing"
        ELSE "request"

(* requestInboundEndpoint gives the websocket session its consumer, which *)
(* may be unlimited (the resource manager decides).                       *)
Handoff(s, upgrade, status, toOverlay, unl) ==
    /\ sess[s].st = "open"
    /\ LET next == onHandoff(sess[s].port, sess[s].ssl, upgrade, status, toOverlay)
       IN sess' = [sess EXCEPT ![s].st = next, ![s].unl = (next = "wsread" /\ unl)]
    /\ UNCHANGED <<phase, standalone, ports, client, overlay, count, balance, last>>

(* authorized: a port without user and password admits everyone; else the *)
(* request needs a "Basic " header whose decoded "user:password" matches. *)
authorized(i, h) == ~ports[i].creds \/ h = "valid"

(* Mutant of onRequest: a refused request is answered 403 but the session *)
(* is not closed.                                                         *)
OnRequestNoClose(s, h) ==
    /\ sess[s].st = "request"
    /\ LET i == sess[s].port
           ok == ports[i].protocol \cap {"http", "https"} # {} /\ authorized(i, h)
       IN sess' = [sess EXCEPT ![s].st = IF ok THEN "queued" ELSE "request"]
    /\ UNCHANGED <<phase, standalone, ports, client, overlay, count, balance, last>>

(* onRequest: a 403 and close unless the port serves http or https and    *)
(* the credentials pass; else processSession is posted as a coroutine.    *)
OnRequest(s, h) ==
    /\ sess[s].st = "request"
    /\ LET i == sess[s].port
           ok == ports[i].protocol \cap {"http", "https"} # {} /\ authorized(i, h)
       IN sess' = [sess EXCEPT ![s].st = IF ok THEN "queued" ELSE "closing"]
    /\ UNCHANGED <<phase, standalone, ports, client, overlay, count, balance, last>>

-----------------------------------------------------------------------------
(* Requests.                                                               *)

(* isUnlimited(role) of Role.cpp: administrators and identified gateway   *)
(* clients get an unlimited consumer.                                     *)
isUnlimited(role) == role \in {"ADMIN", "IDENTIFIED"}

(* Consumer::charge: a limited consumer's balance grows by each fee. *)
Charge(ip, unl, fees) ==
    IF unl THEN balance
    ELSE [balance EXCEPT ![ip] = @ + FoldSeq(LAMBDA f, acc : f + acc, 0, fees)]

Answer(reply, fees) == [next |-> "answered", reply |-> reply, fees |-> fees]

(* Mutant of processRequestCheck: a bad method is refused uncharged. *)
processRequestCheckUncharged(ip, parsed, role, method, params) ==
    IF ~parsed THEN Answer("badJson", <<>>)
    ELSE IF ~isUnlimited(role) /\ balance[ip] >= Drop THEN Answer("overloaded", <<>>)
    ELSE IF role = "FORBID" THEN Answer("forbidden", <<FeeInvalid>>)
    ELSE IF method # "string" THEN Answer("badMethod", <<>>)
    ELSE IF params \notin {"absent", "object"} THEN Answer("badParams", <<FeeInvalid>>)
    ELSE [next |-> "command", reply |-> "none", fees |-> <<>>]

(* Mutant of processRequestCheck: disconnect() taken as past the drop. *)
processRequestCheckLateDrop(ip, parsed, role, method, params) ==
    IF ~parsed THEN Answer("badJson", <<>>)
    ELSE IF ~isUnlimited(role) /\ balance[ip] > Drop THEN Answer("overloaded", <<>>)
    ELSE IF role = "FORBID" THEN Answer("forbidden", <<FeeInvalid>>)
    ELSE IF method # "string" THEN Answer("badMethod", <<FeeInvalid>>)
    ELSE IF params \notin {"absent", "object"} THEN Answer("badParams", <<FeeInvalid>>)
    ELSE [next |-> "command", reply |-> "none", fees |-> <<>>]

(* processRequest up to RPC::doCommand: a request too large or not a JSON *)
(* object is a 400 and is not charged; a limited consumer that should     *)
(* disconnect gets a 503; then FORBID, a null, non-string or empty        *)
(* method, and params that are not absent or one object are each charged  *)
(* feeInvalidRPC and refused.                                             *)
processRequestCheck(ip, parsed, role, method, params) ==
    IF ~parsed THEN Answer("badJson", <<>>)
    ELSE IF ~isUnlimited(role) /\ balance[ip] >= Drop THEN Answer("overloaded", <<>>)
    ELSE IF role = "FORBID" THEN Answer("forbidden", <<FeeInvalid>>)
    ELSE IF method # "string" THEN Answer("badMethod", <<FeeInvalid>>)
    ELSE IF params \notin {"absent", "object"} THEN Answer("badParams", <<FeeInvalid>>)
    ELSE [next |-> "command", reply |-> "none", fees |-> <<>>]

(* processSession after processRequest: keep the connection for the next *)
(* request only if the request did not ask to close and is keep-alive.    *)
processSession(closeSess, keepAlive) == IF ~closeSess /\ keepAlive THEN "open" ELSE "closing"

Finish(s, reply, fees, unl, next) ==
    /\ balance' = Charge(sess[s].ip, unl, fees)
    /\ last' = [last EXCEPT ![s] = [reply |-> reply, charges |-> Len(fees)]]
    /\ sess' = [sess EXCEPT ![s].st = next, ![s].unl = unl]

(* The coroutine runs processSession and processRequest to doCommand. *)
Check(s, parsed, role, method, params, keepAlive) ==
    /\ sess[s].st = "queued"
    /\ LET r == processRequestCheck(sess[s].ip, parsed, role, method, params) IN
       IF r.next = "answered"
       THEN Finish(s, r.reply, r.fees, isUnlimited(role), processSession(FALSE, keepAlive))
       ELSE /\ sess' = [sess EXCEPT ![s].st = "command", ![s].unl = isUnlimited(role)]
            /\ UNCHANGED <<balance, last>>
    /\ UNCHANGED <<phase, standalone, ports, client, overlay, count>>

(* doCommand runs (other coroutines run meanwhile); a command that needs  *)
(* no reply returns its closeSess uncharged, any other is charged the     *)
(* loadType it left and answered 200.                                     *)
Command(s, fee, noReply, closeSess, keepAlive) ==
    /\ sess[s].st = "command"
    /\ IF noReply
       THEN Finish(s, "noReply", <<>>, sess[s].unl, processSession(closeSess, keepAlive))
       ELSE Finish(s, "ok", <<fee>>, sess[s].unl, processSession(FALSE, keepAlive))
    /\ UNCHANGED <<phase, standalone, ports, client, overlay, count>>

(* onWSMessage: an oversized or malformed message is answered jsonInvalid *)
(* and the session completes (reads on); else the coroutine is posted.    *)
WSMessage(s, valid) ==
    /\ sess[s].st = "wsread"
    /\ IF valid
       THEN /\ sess' = [sess EXCEPT ![s].st = "wsjob"]
            /\ UNCHANGED <<balance, last>>
       ELSE Finish(s, "jsonInvalid", <<>>, sess[s].unl, "wsread")
    /\ UNCHANGED <<phase, standalone, ports, client, overlay, count>>

(* processSession for a websocket message, up to doCommand: a consumer    *)
(* that should disconnect closes the session (its slowDown error is never *)
(* delivered); a message without command or method, or with both and     *)
(* different, is charged feeInvalidRPC; a FORBID role is charged         *)
(* feeInvalidRPC and answered forbidden.                                  *)
WSCheck(s, hasCommand, role) ==
    /\ sess[s].st = "wsjob"
    /\ LET unl == sess[s].unl IN
       IF ~unl /\ balance[sess[s].ip] >= Drop THEN Finish(s, "slowDown", <<>>, unl, "closing")
       ELSE IF ~hasCommand THEN Finish(s, "missingCommand", <<FeeInvalid>>, unl, "wsread")
       ELSE IF role = "FORBID" THEN Finish(s, "forbidden", <<FeeInvalid>>, unl, "wsread")
       ELSE /\ sess' = [sess EXCEPT ![s].st = "wscommand"]
            /\ UNCHANGED <<balance, last>>
    /\ UNCHANGED <<phase, standalone, ports, client, overlay, count>>

(* doCommand, then the charge of its loadType, the reply and complete(). *)
WSCommand(s, fee) ==
    /\ sess[s].st = "wscommand"
    /\ Finish(s, "ok", <<fee>>, sess[s].unl, "wsread")
    /\ UNCHANGED <<phase, standalone, ports, client, overlay, count>>

(* The resource manager's balances decay with time. *)
Decay(ip) ==
    /\ balance[ip] > 0
    /\ balance' = [balance EXCEPT ![ip] = @ - 1]
    /\ UNCHANGED <<phase, standalone, ports, client, overlay, count, sess, last>>

Init ==
    /\ phase = "config" /\ standalone = FALSE
    /\ ports = <<>> /\ client = None /\ overlay = 0 /\ count = <<>>
    /\ sess = [s \in Sessions |-> FreeSession]
    /\ balance = [ip \in Endpoints |-> 0]
    /\ last = [s \in Sessions |-> NoReply]

Next ==
    \/ \E config \in Configs, alone \in BOOLEAN : Setup(config, alone)
    \/ \E s \in Sessions :
          \/ \E i \in 1..Len(ports), ip \in Endpoints, ssl \in BOOLEAN : Accept(s, i, ip, ssl)
          \/ End(s)
          \/ \E up, st, ov, unl \in BOOLEAN : Handoff(s, up, st, ov, unl)
          \/ \E h \in Headers : OnRequest(s, h)
          \/ \E parsed, keepAlive \in BOOLEAN, role \in Roles,
                method \in {"null", "number", "empty", "string"},
                params \in {"absent", "object", "array2", "scalar"} :
                Check(s, parsed, role, method, params, keepAlive)
          \/ \E fee \in CommandFees, noReply, closeSess, keepAlive \in BOOLEAN :
                Command(s, fee, noReply, closeSess, keepAlive)
          \/ \E valid \in BOOLEAN : WSMessage(s, valid)
          \/ \E cmd \in BOOLEAN, role \in Roles : WSCheck(s, cmd, role)
          \/ \E fee \in CommandFees : WSCommand(s, fee)
    \/ \E ip \in Endpoints : Decay(ip)

Spec == Init /\ [][Next]_vars

(* The server calls onRequest as soon as onHandoff returns, and the job   *)
(* queue eventually runs every coroutine posted on it: each step of a     *)
(* request that is waiting for the handler or the queue is weakly fair,   *)
(* per connection slot.                                                   *)
FairSpec ==
    /\ Spec
    /\ \A s \in Sessions :
          /\ WF_vars(\E h \in Headers : OnRequest(s, h))
          /\ WF_vars(\E parsed, keepAlive \in BOOLEAN, role \in Roles,
                       method \in {"null", "number", "empty", "string"},
                       params \in {"absent", "object", "array2", "scalar"} :
                       Check(s, parsed, role, method, params, keepAlive))
          /\ WF_vars(\E fee \in CommandFees, noReply, closeSess, keepAlive \in BOOLEAN :
                       Command(s, fee, noReply, closeSess, keepAlive))
          /\ WF_vars(\E cmd \in BOOLEAN, role \in Roles : WSCheck(s, cmd, role))
          /\ WF_vars(\E fee \in CommandFees : WSCommand(s, fee))

-----------------------------------------------------------------------------
States == {"free", "rejected", "open", "request", "queued", "command",
           "wsread", "wsjob", "wscommand", "closing"}
Replies == {"none", "badJson", "overloaded", "forbidden", "badMethod", "badParams",
            "noReply", "ok", "jsonInvalid", "slowDown", "missingCommand"}

TypeOK ==
    /\ phase \in {"config", "running", "failed"}
    /\ count \in [1..Len(ports) -> Nat]
    /\ \A s \in Sessions :
          /\ sess[s].st \in States
          /\ sess[s].st # "free" => sess[s].port \in 1..Len(ports) /\ sess[s].ip \in Endpoints
    /\ balance \in [Endpoints -> Nat]
    /\ last \in [Sessions -> [reply : Replies, charges : 0..2]]

(* However sessions of a port are accepted, refused and closed in between *)
(* (onAccept and onClose under countlock_), fewer sessions than the       *)
(* port's limit are ever served at once: refused sessions stay counted    *)
(* until they end, and a refused one never becomes served.                *)
ServedWithinLimit ==
    \A i \in 1..Len(ports) :
        ports[i].limit # 0 =>
            Cardinality({s \in Sessions : sess[s].port = i /\ sess[s].st \notin {"free", "rejected"}})
                < ports[i].limit

(* Every answer is charged to the client's consumer exactly once, except  *)
(* the free ones: a request that does not parse, a 503 to an overloaded   *)
(* client, a command that sends no reply, a malformed websocket message,  *)
(* and the undelivered slowDown of a closed websocket session.            *)
ChargedOnce ==
    \A s \in Sessions :
        last[s].charges = IF last[s].reply \in {"none", "badJson", "overloaded", "noReply",
                                                 "jsonInvalid", "slowDown"}
                          THEN 0 ELSE 1

(* A limited address is refused once its balance reaches the drop level, *)
(* but each session checks disconnect() before doCommand and charges      *)
(* after it, so concurrent sessions from one address may all pass the     *)
(* check: the balance overshoots the drop level by at most one largest    *)
(* charge per connection slot, never more.                                *)
MaxFee == Max(CommandFees \cup {FeeInvalid})
OverdraftBounded ==
    \A ip \in Endpoints : balance[ip] <= Drop - 1 + Cardinality(Sessions) * MaxFee

(* A standalone server listens on no peer port and on no port without a   *)
(* protocol: the erase loop of parse_Ports visits every port, also the    *)
(* one after a port it erased.                                            *)
StandaloneWithoutPeer ==
    phase = "running" /\ standalone =>
        \A i \in 1..Len(ports) : ports[i].protocol # {} /\ "peer" \notin ports[i].protocol

(* Every request handed to the handler is answered: an HTTP request is    *)
(* refused and closed by onRequest or runs through processRequest to a    *)
(* reply, and a websocket message posted by onWSMessage is answered and   *)
(* the session completed (or closed); no path of onRequest or             *)
(* processSession leaves the client waiting.                             *)
Busy(s) == sess[s].st \in {"request", "queued", "command", "wsjob", "wscommand"}
RequestsAnswered == \A s \in Sessions : Busy(s) ~> ~Busy(s)

=============================================================================
