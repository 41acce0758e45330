---------------------------- MODULE WebvpnLogin ----------------------------
(***************************************************************************)
(* The login exchange of exv-vpn-cstp (webvpn.rs): the aggregate-auth XML  *)
(* channel first, the HTML form channel when the gateway refuses it.  The  *)
(* gateway is outside the program: every request may be lost, may be       *)
(* received and never answered, or is answered by any response of          *)
(* Responses.  A response is abstracted to what the classification tells   *)
(* apart.  A credential value is the number of the response that issued it *)
(* (Blank is an empty value, Absent none at all).                          *)
(***************************************************************************)
EXTENDS Integers, FiniteSets

CONSTANTS BlankTokens   \* whether the gateway may send an empty session token

ASSUME LoginAssumption == BlankTokens \in BOOLEAN

VARIABLES login,     \* where perform_login is, and its result
          exchanges, \* responses the gateway has sent
          submitted, \* times the password reached the gateway
          answered   \* a submission was answered completely

loginVars == <<login, exchanges, submitted, answered>>

Absent == -1
Blank == 0
Fields == {"username", "password", "group_list"}

\* What a config-auth document says (AggregateAuthResponse).
Docs == [token : {Absent, 1} \cup (IF BlankTokens THEN {Blank} ELSE {}),
         scan : BOOLEAN, error : BOOLEAN, challenge : BOOLEAN,
         fields : SUBSET Fields, complete : BOOLEAN]

Statuses == {"2xx", "3xx_saml", "404", "other"}
Cookies == {Absent, Blank, 1}

\* classify: the order of the tests decides.
Classify(d) ==
    CASE d.token # Absent -> "success"
      [] d.token = Absent /\ d.scan -> "host_scan"
      [] d.token = Absent /\ ~d.scan /\ d.error -> "error"
      [] d.token = Absent /\ ~d.scan /\ ~d.error /\ d.challenge -> "challenge"
      [] OTHER -> IF d.fields = {"group_list"} THEN "request"
                  ELSE IF d.complete THEN "success" ELSE "request"

\* The value a credential of the n-th response has.
Issued(c, n) == IF c \in {Absent, Blank} THEN c ELSE n

\* session_from_aggregate: the document's token, else a webvpn cookie with a
\* value, else a rejection.
SessionFromAggregate(d, cookie, n) ==
    IF d.token # Absent THEN [pc |-> "ok", cookie |-> Issued(d.token, n)]
    ELSE IF cookie \notin {Absent, Blank} THEN [pc |-> "ok", cookie |-> Issued(cookie, n)]
    ELSE [pc |-> "rejected", cookie |-> Absent]

Ended(how) == [pc |-> how, cookie |-> Absent]
At(where) == Ended(where)

LoginOver == login.pc \in {"ok", "rejected", "saml", "two_factor", "protocol", "http", "tls"}

\* What the classified document of a probe or of a reply leads to; a document
\* that asks again ends at the given place.
OfDocument(d, cookie, n, asked) ==
    CASE Classify(d) = "success" -> SessionFromAggregate(d, cookie, n)
      [] Classify(d) \in {"error", "host_scan"} -> Ended("rejected")
      [] Classify(d) = "challenge" -> Ended("two_factor")
      [] OTHER -> asked

----------------------------------------------------------------------------
(* The XML channel *)

LoginInit ==
    /\ login = At("connect_xml")
    /\ exchanges = 0
    /\ submitted = 0
    /\ answered = FALSE

\* connect_bootstrap (and the form channel's two connections): the handshake
\* succeeds, fails, or its deadline passes.
Connect(from, to) ==
    /\ login.pc = from
    /\ login' \in {At(to), Ended("tls")}
    /\ UNCHANGED <<exchanges, submitted, answered>>

ConnectXml == Connect("connect_xml", "probe")

\* The init POST fails before a complete response.
ProbeFails ==
    /\ login.pc = "probe"
    /\ login' = Ended("http")
    /\ UNCHANGED <<exchanges, submitted, answered>>

\* The init POST is answered.  Only a refused or unsuitable XML channel goes
\* on to the form channel.
OfProbe(status, d, steer, cookie, n) ==
    CASE status = "3xx_saml" -> Ended("saml")
      [] status = "404" -> At("connect_get")
      [] status = "other" -> Ended("rejected")
      [] OTHER ->
           IF d = {} THEN IF steer THEN Ended("saml") ELSE At("connect_get")
           ELSE LET doc == CHOOSE x \in d : TRUE
                IN OfDocument(doc, cookie, n,
                     IF {"username", "password"} \subseteq doc.fields
                     THEN At("reply") ELSE At("connect_get"))

\* A body that is a config-auth document, or is not one.
Bodies == {{}} \cup {{d} : d \in Docs}

Probe ==
    /\ login.pc = "probe"
    /\ \E status \in Statuses, d \in Bodies, steer \in BOOLEAN, cookie \in Cookies :
          login' = OfProbe(status, d, steer, cookie, exchanges + 1)
    /\ exchanges' = exchanges + 1
    /\ UNCHANGED <<submitted, answered>>

\* The reply fails on the first connection, whatever the reason and whether
\* or not the gateway has read the password: it is sent once more.
ReplyLost ==
    /\ login.pc = "reply"
    /\ login' = At("reconnect")
    /\ submitted' \in {submitted, submitted + 1}
    /\ UNCHANGED <<exchanges, answered>>

Reconnect == Connect("reconnect", "reply_again")

\* Mutant: a second failure is retried as the first one is.
ReplyLostRetries ==
    /\ login.pc = "reply_again"
    /\ submitted < 3
    /\ login' = At("reconnect")
    /\ submitted' \in {submitted, submitted + 1}
    /\ UNCHANGED <<exchanges, answered>>

ReplyLostAgain ==
    /\ login.pc = "reply_again"
    /\ login' = Ended("http")
    /\ submitted' \in {submitted, submitted + 1}
    /\ UNCHANGED <<exchanges, answered>>

OfReply(status, d, steer, cookie, n) ==
    CASE status = "3xx_saml" -> Ended("saml")
      [] status \in {"404", "other"} -> Ended("rejected")
      [] OTHER -> IF steer THEN Ended("saml")
                  ELSE IF d = {} THEN Ended("rejected")
                  ELSE OfDocument(CHOOSE x \in d : TRUE, cookie, n, Ended("rejected"))

Reply ==
    /\ login.pc \in {"reply", "reply_again"}
    /\ \E status \in Statuses, d \in Bodies, steer \in BOOLEAN, cookie \in Cookies :
          login' = OfReply(status, d, steer, cookie, exchanges + 1)
    /\ exchanges' = exchanges + 1
    /\ submitted' = submitted + 1
    /\ answered' = TRUE

----------------------------------------------------------------------------
(* The form channel *)

ConnectGet == Connect("connect_get", "get")

\* GET logon.html: a page without a csrf token or an action is no login form.
Get ==
    /\ login.pc = "get"
    /\ \E status \in Statuses, csrf \in BOOLEAN, action \in BOOLEAN :
          login' = IF status # "2xx" THEN Ended("rejected")
                   ELSE IF ~csrf \/ ~action THEN Ended("protocol")
                   ELSE At("connect_post")
    /\ exchanges' = exchanges + 1
    /\ UNCHANGED <<submitted, answered>>

GetFails ==
    /\ login.pc = "get"
    /\ login' = Ended("http")
    /\ UNCHANGED <<exchanges, submitted, answered>>

ConnectPost == Connect("connect_post", "post")

\* The credential POST is not retried.
PostLost ==
    /\ login.pc = "post"
    /\ login' = Ended("http")
    /\ submitted' \in {submitted, submitted + 1}
    /\ UNCHANGED <<exchanges, answered>>

OfPost(status, error, steer, second, cookie, n) ==
    CASE status = "3xx_saml" -> Ended("saml")
      [] status \in {"404", "other"} -> Ended("rejected")
      [] OTHER -> IF error THEN Ended("rejected")
                  ELSE IF steer THEN Ended("saml")
                  ELSE IF second THEN Ended("two_factor")
                  ELSE IF cookie \in {Absent, Blank} THEN Ended("rejected")
                  ELSE [pc |-> "ok", cookie |-> Issued(cookie, n)]

Post ==
    /\ login.pc = "post"
    /\ \E status \in Statuses, error, steer, second \in BOOLEAN, cookie \in Cookies :
          login' = OfPost(status, error, steer, second, cookie, exchanges + 1)
    /\ exchanges' = exchanges + 1
    /\ submitted' = submitted + 1
    /\ answered' = TRUE

LoginNext ==
    \/ ConnectXml \/ Probe \/ ProbeFails
    \/ Reply \/ ReplyLost \/ Reconnect \/ ReplyLostAgain
    \/ ConnectGet \/ Get \/ GetFails
    \/ ConnectPost \/ Post \/ PostLost

----------------------------------------------------------------------------
\* The password reaches the gateway at most twice, the second time only
\* because no complete answer to the first came back (aggregate_auth_login's
\* single retry), and never on both channels: two refused submissions of one
\* attempt count towards the gateway's account lockout.
PasswordBudget ==
    /\ submitted <= 2
    /\ login.pc \in {"reply", "connect_get", "get", "connect_post", "post"} => submitted = 0
    /\ login.pc \in {"reconnect", "reply_again"} => ~answered /\ submitted <= 1

\* A successful login holds the credential of the gateway's last response,
\* and it is not empty: a cleared cookie or an accepting document without a
\* token is a rejection.
SessionIsReal == login.pc = "ok" => login.cookie = exchanges /\ login.cookie > Blank
=============================================================================
