---------------------------- MODULE ClientProofs ----------------------------
(***************************************************************************)
(* Theorems about the two clients of an HTTP server, the MediaMTX client   *)
(* (MediaMtx) and the WHEP client with its source (WhepSession), for every *)
(* value of their constants.  One module holds both because they rest on   *)
(* the same lemmas: both drop elements of a list, and what is left of it   *)
(* is defined by recursion.                                                *)
(*                                                                         *)
(* The library's induction theorems take a predicate as a parameter, which *)
(* the provers do not instantiate.  Here induction is over a set of        *)
(* numbers (SetInduction), which follows from the library's theorem that   *)
(* every non-empty subset of a well-founded set has a minimal element.     *)
(***************************************************************************)
EXTENDS MediaMtx, WhepSession, SequenceTheorems, WellFoundedInduction, TLAPS

-----------------------------------------------------------------------------
(* Induction, and what Without leaves *)

\* A non-empty set of natural numbers has a least element.
LEMMA LeastElement ==
    ASSUME NEW S, S \subseteq Nat, S # {}
    PROVE  \E x \in S : \A y \in S : x <= y
<1> DEFINE Less == {ss \in Nat \X Nat : ss[1] < ss[2]}
<1>1. \A x, y \in Nat : <<y, x>> \in Less <=> y < x
  OBVIOUS
<1>2. PICK x \in S : \A y \in S : <<y, x>> \notin Less
  BY NatLessThanWellFounded, WFMin DEF OpToRel
<1>3. \A y \in S : x <= y
  <2> TAKE y \in S
  <2>1. x \in Nat /\ y \in Nat
    OBVIOUS
  <2>2. ~ (y < x)
    BY <1>1, <1>2, <2>1
  <2> QED
    BY <2>1, <2>2
<1> QED
  BY <1>3

\* A set of natural numbers with 0 and every successor holds them all.
LEMMA SetInduction ==
    ASSUME NEW S, S \subseteq Nat, 0 \in S, \A n \in S : n + 1 \in S
    PROVE  S = Nat
<1> SUFFICES ASSUME Nat \ S # {} PROVE FALSE
  OBVIOUS
<1>1. PICK x \in Nat \ S : \A y \in Nat \ S : x <= y
  BY LeastElement
<1>2. x - 1 \in Nat /\ x - 1 \notin Nat \ S
  BY <1>1
<1> QED
  BY <1>1, <1>2

\* One step of the recursion of Without.
Step(s, D, f, n) ==
    IF n = 0 THEN <<>> ELSE IF s[n] \in D THEN f[n - 1] ELSE Append(f[n - 1], s[n])

\* The recursive function that Without chooses exists.
LEMMA RecursionExists ==
    ASSUME NEW s, NEW D, NEW m \in Nat
    PROVE  \E f : f = [n \in 0 .. m |-> Step(s, D, f, n)]
<1> DEFINE Good == {k \in Nat : \E f : f = [n \in 0 .. k |-> Step(s, D, f, n)]}
<1>1. 0 \in Good
  <2>1. [n \in 0 .. 0 |-> <<>>] = [n \in 0 .. 0 |-> Step(s, D, [i \in 0 .. 0 |-> <<>>], n)]
    BY DEF Step
  <2> QED
    BY <2>1
<1>2. ASSUME NEW k \in Good PROVE k + 1 \in Good
  <2>1. PICK f : f = [n \in 0 .. k |-> Step(s, D, f, n)]
    OBVIOUS
  <2> DEFINE g == [n \in 0 .. k + 1 |-> IF n \in 0 .. k THEN f[n] ELSE Step(s, D, f, n)]
  <2>2. \A n \in 0 .. k + 1 : g[n] = Step(s, D, g, n)
    <3> TAKE n \in 0 .. k + 1
    <3>1. n # 0 => n - 1 \in 0 .. k
      OBVIOUS
    <3>2. n # 0 => g[n - 1] = f[n - 1]
      BY <3>1
    <3>3. Step(s, D, f, n) = Step(s, D, g, n)
      BY <3>2 DEF Step
    <3>4. n \in 0 .. k => f[n] = Step(s, D, f, n)
      BY <2>1
    <3> QED
      BY <3>3, <3>4
  <2>3. g = [n \in 0 .. k + 1 |-> Step(s, D, g, n)]
    BY <2>2
  <2> HIDE DEF g
  <2> QED
    BY <2>3
<1>3. Good = Nat
  BY <1>1, <1>2, SetInduction
<1> QED
  BY <1>3

LEMMA WithoutRecursion ==
    ASSUME NEW s, NEW D, Len(s) \in Nat
    PROVE  \E f : /\ f = [n \in 0 .. Len(s) |-> Step(s, D, f, n)]
                  /\ Without(s, D) = f[Len(s)]
<1> DEFINE f == CHOOSE f : f = [n \in 0 .. Len(s) |-> Step(s, D, f, n)]
<1>1. Without(s, D) = f[Len(s)]
  BY DEF Without, Step
<1>2. f = [n \in 0 .. Len(s) |-> Step(s, D, f, n)]
  BY RecursionExists
<1> QED
  BY <1>1, <1>2

\* at says where the elements of t come from: they are those of the first n elements of s
\* that are not in D, in the same order.
Traces(at, t, s, n, D) ==
    /\ at \in [1 .. Len(t) -> 1 .. n]
    /\ \A i \in 1 .. Len(t) : t[i] = s[at[i]] /\ s[at[i]] \notin D
    /\ \A i, j \in 1 .. Len(t) : i < j => at[i] < at[j]
    /\ \A k \in 1 .. n : s[k] \notin D => \E i \in 1 .. Len(t) : at[i] = k

LeftOf(t, s, n, D, E) ==
    /\ t \in Seq(E) /\ Len(t) <= n
    /\ \E at : Traces(at, t, s, n, D)

LEMMA LeftOfNothing ==
    ASSUME NEW s, NEW D, NEW E
    PROVE  LeftOf(<<>>, s, 0, D, E)
<1>1. Traces([i \in 1 .. 0 |-> i], <<>>, s, 0, D)
  BY DEF Traces
<1> QED
  BY <1>1 DEF LeftOf

LEMMA LeftOfDropped ==
    ASSUME NEW E, NEW s \in Seq(E), NEW D, NEW n \in Nat, n + 1 <= Len(s), s[n + 1] \in D,
           NEW t, LeftOf(t, s, n, D, E)
    PROVE  LeftOf(t, s, n + 1, D, E)
<1>1. PICK at : Traces(at, t, s, n, D)
  BY DEF LeftOf
<1>2. at \in [1 .. Len(t) -> 1 .. n + 1]
  BY <1>1 DEF Traces
<1>3. ASSUME NEW k \in 1 .. n + 1, s[k] \notin D PROVE \E i \in 1 .. Len(t) : at[i] = k
  <2>1. k \in 1 .. n
    BY <1>3
  <2> QED
    BY <1>1, <1>3, <2>1 DEF Traces
<1>4. Traces(at, t, s, n + 1, D)
  BY <1>1, <1>2, <1>3 DEF Traces
<1> QED
  BY <1>4 DEF LeftOf

LEMMA LeftOfTaken ==
    ASSUME NEW E, NEW s \in Seq(E), NEW D, NEW n \in Nat, n + 1 <= Len(s), s[n + 1] \notin D,
           NEW t, LeftOf(t, s, n, D, E)
    PROVE  LeftOf(Append(t, s[n + 1]), s, n + 1, D, E)
<1> DEFINE u == Append(t, s[n + 1])
<1>1. s[n + 1] \in E
  OBVIOUS
<1>2. /\ u \in Seq(E) /\ Len(u) = Len(t) + 1
      /\ \A i \in 1 .. Len(t) : u[i] = t[i]
      /\ u[Len(t) + 1] = s[n + 1]
      /\ t \in Seq(E) /\ Len(t) \in Nat /\ Len(t) <= n
  BY <1>1 DEF LeftOf
<1>3. PICK at : Traces(at, t, s, n, D)
  BY DEF LeftOf
<1> HIDE DEF u
<1> DEFINE new == [i \in 1 .. Len(u) |-> IF i = Len(u) THEN n + 1 ELSE at[i]]
<1>4. new \in [1 .. Len(u) -> 1 .. n + 1]
  BY <1>2, <1>3 DEF Traces
<1>5. \A i \in 1 .. Len(u) : u[i] = s[new[i]] /\ s[new[i]] \notin D
  BY <1>2, <1>3 DEF Traces
<1>6. \A i, j \in 1 .. Len(u) : i < j => new[i] < new[j]
  <2> TAKE i, j \in 1 .. Len(u)
  <2> SUFFICES ASSUME i < j PROVE new[i] < new[j]
    OBVIOUS
  <2>1. i \in 1 .. Len(t) /\ new[i] = at[i] /\ at[i] \in 1 .. n
    BY <1>2, <1>3 DEF Traces
  <2>2. CASE j = Len(u)
    BY <1>2, <2>1, <2>2
  <2>3. CASE j # Len(u)
    <3>1. j \in 1 .. Len(t) /\ new[j] = at[j]
      BY <1>2, <2>3
    <3> QED
      BY <1>3, <2>1, <3>1 DEF Traces
  <2> QED
    BY <2>2, <2>3
<1>7. \A k \in 1 .. n + 1 : s[k] \notin D => \E i \in 1 .. Len(u) : new[i] = k
  BY <1>2, <1>3 DEF Traces
<1> HIDE DEF new
<1>8. Traces(new, u, s, n + 1, D)
  BY <1>4, <1>5, <1>6, <1>7 DEF Traces
<1> QED
  BY <1>2, <1>8 DEF LeftOf, u

\* Without(s, D) holds the elements of s that are not in D, in their order and as often as
\* they are there, and nothing else (Filtering).
THEOREM WithoutKeepsTheRest ==
    ASSUME NEW E, NEW s \in Seq(E), NEW D
    PROVE  LeftOf(Without(s, D), s, Len(s), D, E)
<1>1. Len(s) \in Nat
  OBVIOUS
<1>2. PICK f : f = [n \in 0 .. Len(s) |-> Step(s, D, f, n)] /\ Without(s, D) = f[Len(s)]
  BY <1>1, WithoutRecursion
<1> DEFINE Good == {n \in Nat : n <= Len(s) => LeftOf(f[n], s, n, D, E)}
<1>3. 0 \in Good
  <2>1. f[0] = <<>>
    BY <1>2 DEF Step
  <2> QED
    BY <2>1, LeftOfNothing
<1>4. ASSUME NEW n \in Good PROVE n + 1 \in Good
  <2> SUFFICES ASSUME n + 1 <= Len(s) PROVE LeftOf(f[n + 1], s, n + 1, D, E)
    OBVIOUS
  <2>1. n \in Nat /\ n + 1 \in 0 .. Len(s) /\ LeftOf(f[n], s, n, D, E)
    BY <1>1
  <2>2. f[n + 1] = Step(s, D, f, n + 1)
    BY <1>2, <2>1
  <2>3. f[n + 1] = IF s[n + 1] \in D THEN f[n] ELSE Append(f[n], s[n + 1])
    BY <2>1, <2>2 DEF Step
  <2> QED
    BY <2>1, <2>3, LeftOfDropped, LeftOfTaken
<1>5. Good = Nat
  BY <1>3, <1>4, SetInduction
<1> QED
  BY <1>1, <1>2, <1>5

-----------------------------------------------------------------------------
(* MediaMtx: the list of servers *)

LEMMA GreatestElement ==
    ASSUME NEW n \in Nat, NEW S, S \subseteq 1 .. n, S # {}
    PROVE  \E x \in S : \A y \in S : y <= x
<1> DEFINE Mirrored == {k \in 0 .. n : n - k \in S}
<1>1. Mirrored # {}
  <2>1. PICK y \in S : TRUE
    OBVIOUS
  <2>2. n - (n - y) = y /\ n - y \in 0 .. n
    BY <2>1
  <2> QED
    BY <2>1, <2>2
<1>2. PICK k \in Mirrored : \A j \in Mirrored : k <= j
  <2> Mirrored \subseteq Nat
    OBVIOUS
  <2> HIDE DEF Mirrored
  <2> QED
    BY <1>1, LeastElement
<1>3. ASSUME NEW y \in S PROVE y <= n - k
  <2>1. n - y \in 0 .. n /\ n - (n - y) = y
    BY <1>3
  <2>2. n - y \in Mirrored
    BY <1>3, <2>1
  <2>3. k <= n - y
    BY <1>2, <2>2
  <2> QED
    BY <1>2, <2>1, <2>3
<1> QED
  BY <1>2, <1>3

\* The password that is kept under a name is one that was entered, or none.
LEMMA PasswordOfIsPassword ==
    ASSUME NEW list \in Seq(Server), NEW name
    PROVE  PasswordOf(list, name) \in Passwords \cup {NoPassword}
<1> DEFINE known == {i \in DOMAIN list : list[i].name = name /\ list[i].password # NoPassword}
<1>1. CASE known = {}
  BY <1>1 DEF PasswordOf
<1>2. CASE known # {}
  <2>1. Len(list) \in Nat /\ known \subseteq 1 .. Len(list)
    OBVIOUS
  <2>2. \E i \in known : \A j \in known : j <= i
    <3> HIDE DEF known
    <3> QED
      BY <1>2, <2>1, GreatestElement
  <2> DEFINE last == CHOOSE i \in known : \A j \in known : j <= i
  <2>3. last \in known
    BY <2>2
  <2>4. list[last] \in Server
    BY <2>3
  <2>5. PasswordOf(list, name) = list[last].password
    BY <1>2 DEF PasswordOf
  <2> QED
    BY <2>4, <2>5 DEF Server
<1> QED
  BY <1>1, <1>2

\* A list that is read again holds servers, and no more of them than the file.
LEMMA ReloadedIsList ==
    ASSUME NEW list \in Seq(Server), NEW stored \in Seq(Stored)
    PROVE  Reloaded(list, stored) \in Seq(Server) /\ Len(Reloaded(list, stored)) <= Len(stored)
<1> DEFINE kept == Without(stored, {s \in Stored : ~Complete(s)})
           read == [i \in DOMAIN kept |-> ToServer(kept[i], PasswordOf(list, kept[i].name))]
<1>1. kept \in Seq(Stored) /\ Len(kept) <= Len(stored)
  BY WithoutKeepsTheRest DEF LeftOf
<1>2. Reloaded(list, stored) = read
  BY DEF Reloaded
<1> HIDE DEF kept
<1>3. Len(kept) \in Nat /\ DOMAIN kept = 1 .. Len(kept)
  BY <1>1
<1>4. ASSUME NEW i \in 1 .. Len(kept) PROVE read[i] \in Server
  <2>1. kept[i] \in Stored
    BY <1>1, <1>4
  <2>2. PasswordOf(list, kept[i].name) \in Passwords \cup {NoPassword}
    BY PasswordOfIsPassword
  <2>3. read[i] = ToServer(kept[i], PasswordOf(list, kept[i].name))
    BY <1>3
  <2> HIDE DEF read
  <2> QED
    BY <2>1, <2>2, <2>3 DEF ToServer, Stored, Server
<1>5. read \in Seq(Server) /\ Len(read) = Len(kept)
  BY <1>3, <1>4
<1> QED
  BY <1>1, <1>2, <1>5

\* What is written to the file has the length of the list.
LEMMA SavedIsFile ==
    ASSUME NEW list \in Seq(Server)
    PROVE  Saved(list) \in Seq(Stored) /\ Len(Saved(list)) = Len(list)
<1>1. Len(list) \in Nat /\ DOMAIN list = 1 .. Len(list)
  OBVIOUS
<1>2. \A i \in 1 .. Len(list) : ToStored(list[i]) \in Stored
  <2> TAKE i \in 1 .. Len(list)
  <2>1. list[i] \in Server
    OBVIOUS
  <2> QED
    BY <2>1 DEF ToStored, Server, Stored
<1> QED
  BY <1>1, <1>2 DEF Saved

\* The ports of an answer go into the server at one position, and change nothing else.
LEMMA DetectedIsList ==
    ASSUME NEW list \in Seq(Server), NEW i, NEW a \in Answer, a.host \in Hosts
    PROVE  /\ Detected(list, i, a) \in Seq(Server)
           /\ Len(Detected(list, i, a)) = Len(list)
           /\ i \in DOMAIN list =>
                 /\ Detected(list, i, a)[i] \in Server
                 /\ Detected(list, i, a)[i].host = list[i].host
                 /\ a.detected =>
                       /\ Detected(list, i, a)[i].srt = ListenPort[a.host]
                       /\ Detected(list, i, a)[i].auto =>
                             Detected(list, i, a)[i].web = ListenPort[a.host]
<1>1. CASE ~(a.detected /\ i \in DOMAIN list)
  BY <1>1 DEF Detected
<1>2. CASE a.detected /\ i \in DOMAIN list
  <2> DEFINE new == [list[i] EXCEPT !.srt = ListenPort[a.host],
                                    !.web = IF list[i].auto THEN ListenPort[a.host] ELSE @]
  <2>1. list[i] \in Server /\ ListenPort[a.host] \in Ports
    BY <1>2, MediaMtxAssumption
  <2>2. /\ new \in Server /\ new.host = list[i].host
        /\ new.srt = ListenPort[a.host]
        /\ new.auto => new.web = ListenPort[a.host]
    BY <2>1 DEF Server
  <2>3. Detected(list, i, a) = [list EXCEPT ![i] = new]
    BY <1>2 DEF Detected
  <2> HIDE DEF new
  <2> QED
    BY <1>2, <2>2, <2>3
<1> QED
  BY <1>1, <1>2

\* Detection leaves the host of a server and its "auto" mark, and without it the SRT port.
LEMMA DetectedKeepsRest ==
    ASSUME NEW list \in Seq(Server), NEW i \in DOMAIN list, NEW a \in Answer
    PROVE  /\ Detected(list, i, a)[i].host = list[i].host
           /\ Detected(list, i, a)[i].auto = list[i].auto
           /\ ~a.detected => Detected(list, i, a)[i].srt = list[i].srt
<1>1. list[i] \in Server
  OBVIOUS
<1> QED
  BY <1>1 DEF Detected, Server

LEMMA RowsServerIsServer ==
    ASSUME NEW list \in Seq(Server), NEW i, NEW a \in Answer, a.host \in Hosts
    PROVE  RowsServer(list, i, a) \in Server \cup {NoServer}
BY DetectedIsList DEF RowsServer

\* The rows of an answer are rows, each of the host that was asked.
LEMMA RowsAreRows ==
    ASSUME NEW s \in Server \cup {NoServer}, NEW a \in Answer, a.host \in Hosts
    PROVE  /\ Rows(s, a) \subseteq Row
           /\ \A r \in Rows(s, a) : /\ r.url = WhepUrl(s) /\ r.origin = a.host
                                    /\ r.detected = a.detected
<1>1. WhepUrl(s) \in Url
  <2>1. CASE s \in Server
    BY <2>1 DEF WhepUrl, Url, Server
  <2>2. CASE s = NoServer
    BY <2>2 DEF WhepUrl, Url, NoServer
  <2> QED
    BY <2>1, <2>2
<1>2. a.active \subseteq Paths /\ a.configured \subseteq Paths /\ a.detected \in BOOLEAN
  BY DEF Answer
<1>3. ASSUME NEW r \in Rows(s, a)
      PROVE  r \in Row /\ r.url = WhepUrl(s) /\ r.origin = a.host /\ r.detected = a.detected
  <2>1. PICK p \in a.active \cup a.configured :
           r = [path |-> p, url |-> WhepUrl(s), auth |-> p \in a.configured \cap ProtectedPaths,
                origin |-> a.host, detected |-> a.detected]
    BY <1>3 DEF Rows
  <2>2. p \in Paths
    BY <1>2
  <2> QED
    BY <1>1, <1>2, <2>1, <2>2 DEF Row
<1> QED
  BY <1>3

-----------------------------------------------------------------------------
(* MediaMtx: the inductive invariant *)

\* The file is no longer than the list may be.
FileFits == Len(file) <= MaxServers

\* The worker asks a server, and an answer that succeeded comes from one.
RequestsAskAHost ==
    /\ worker.step \in {"paths", "configured", "global"} => worker.host \in Hosts
    /\ answer.ok => answer.host \in Hosts

\* While the list is the one a request was made from, the position that was asked is in it,
\* and the request is about the host of the server at that position.
RequestsMeetTheirServer ==
    asked =>
        /\ pending \in DOMAIN servers
        /\ worker # NoWork => worker.host = servers[pending].host
        /\ answer # NoAnswer => answer.host = servers[pending].host

\* While the list is the one the rows were made with, the server that listed them is at its
\* position, and they stand for it; and a request under way was made from that list, so that
\* what comes back of it, for a test too, goes into the server it was made for.
RowsStandForListed ==
    listedAt # 0 =>
        /\ listedAt \in DOMAIN servers
        /\ inProgress => asked
        /\ \A r \in rows :
              /\ r.url.host = r.origin
              /\ servers[listedAt].host = r.origin
              /\ r.detected => /\ servers[listedAt].srt = ListenPort[r.origin]
                               /\ servers[listedAt].auto => r.url.port = ListenPort[r.origin]

MtxInv ==
    /\ TypeOK
    /\ FileFits
    /\ RequestsAskAHost
    /\ RequestsMeetTheirServer
    /\ RowsStandForListed
    /\ ProtectedPathsCarryCredentials

LEMMA Bounds == MaxServers \in Nat /\ MaxEdits \in Nat /\ MaxPages \in Nat
BY MediaMtxAssumption

LEMMA NoWorkIsWork == NoWork \in Worker
BY Bounds DEF NoWork, Worker

LEMMA MtxInit == Init => MtxInv
<1> SUFFICES ASSUME Init PROVE MtxInv
  OBVIOUS
<1>1. file \in Seq(Stored) /\ Len(file) <= MaxServers
  BY MediaMtxAssumption DEF Init
<1>2. servers \in Seq(Server) /\ Len(servers) <= Len(file)
  <2>1. <<>> \in Seq(Server)
    OBVIOUS
  <2> QED
    BY <1>1, <2>1, ReloadedIsList DEF Init
<1>3. Len(servers) \in Nat /\ Len(file) \in Nat /\ Len(servers) <= MaxServers
  BY <1>1, <1>2, Bounds
<1>4. OneRequest
  BY DEF Init, OneRequest
<1>5. TypeOK
  <2>1. /\ phase \in {"running", "quitting", "gone"}
       /\ servers \in Seq(Server) /\ Len(servers) <= MaxServers
       /\ file \in Seq(Stored)
    BY <1>1, <1>2, <1>3, Bounds, NoWorkIsWork DEF Init
  <2>2. /\ inProgress \in BOOLEAN /\ testOnly \in BOOLEAN
       /\ asked \in BOOLEAN
    BY <1>1, <1>2, <1>3, Bounds, NoWorkIsWork DEF Init
  <2>3. /\ pending \in 0 .. MaxServers /\ current \in 0 .. MaxServers
       /\ listedAt \in 0 .. MaxServers
       /\ edits \in 0 .. MaxEdits
    BY <1>1, <1>2, <1>3, Bounds, NoWorkIsWork DEF Init
  <2>4. /\ rows \subseteq Row
       /\ worker \in Worker
       /\ answer \in Answer \cup {NoAnswer}
       /\ document \subseteq Added
    BY <1>1, <1>2, <1>3, Bounds, NoWorkIsWork DEF Init
  <2> QED
    BY <1>4, <2>1, <2>2, <2>3, <2>4 DEF TypeOK
<1>6. FileFits /\ RequestsAskAHost /\ RequestsMeetTheirServer
  BY <1>1 DEF Init, FileFits, RequestsAskAHost, RequestsMeetTheirServer, NoWork, NoAnswer
<1> QED
  BY <1>5, <1>6 DEF Init, MtxInv, RowsStandForListed, ProtectedPathsCarryCredentials

LEMMA MtxEditList ==
    ASSUME MtxInv, NEW list \in Seq(Server), Len(list) <= MaxServers, EditList(list)
    PROVE  MtxInv'
<1>1. Saved(list) \in Seq(Stored) /\ Len(Saved(list)) = Len(list)
  BY SavedIsFile
<1>2. OneRequest'
  BY DEF MtxInv, TypeOK, OneRequest, EditList, fetchVars
<1>3. TypeOK'
  <2>1. /\ phase' \in {"running", "quitting", "gone"}
       /\ servers' \in Seq(Server) /\ Len(servers') <= MaxServers
       /\ file' \in Seq(Stored)
    BY <1>1, Bounds DEF MtxInv, TypeOK, EditList, fetchVars, rowVars
  <2>2. /\ inProgress' \in BOOLEAN /\ testOnly' \in BOOLEAN
       /\ asked' \in BOOLEAN
    BY <1>1, Bounds DEF MtxInv, TypeOK, EditList, fetchVars, rowVars
  <2>3. /\ pending' \in 0 .. MaxServers /\ current' \in 0 .. MaxServers
       /\ listedAt' \in 0 .. MaxServers
       /\ edits' \in 0 .. MaxEdits
    BY <1>1, Bounds DEF MtxInv, TypeOK, EditList, fetchVars, rowVars
  <2>4. /\ rows' \subseteq Row
       /\ worker' \in Worker
       /\ answer' \in Answer \cup {NoAnswer}
       /\ document' \subseteq Added
    BY <1>1, Bounds DEF MtxInv, TypeOK, EditList, fetchVars, rowVars
  <2> QED
    BY <1>2, <2>1, <2>2, <2>3, <2>4 DEF TypeOK
<1> QED
  BY <1>1, <1>3 DEF MtxInv, EditList, fetchVars, rowVars, FileFits, RequestsAskAHost,
     RequestsMeetTheirServer, RowsStandForListed, ProtectedPathsCarryCredentials

LEMMA MtxEdit ==
    ASSUME MtxInv, Edit
    PROVE  MtxInv'
<1> USE Bounds
<1>1. /\ servers \in Seq(Server) /\ Len(servers) \in Nat /\ Len(servers) <= MaxServers
      /\ DOMAIN servers = 1 .. Len(servers)
  BY DEF MtxInv, TypeOK
<1>2. CASE AddServer
  <2> DEFINE new == ToServer(NewServer, NoPassword)
  <2>1. new \in Server
    BY MediaMtxAssumption DEF ToServer, Stored, Server
  <2> HIDE DEF new
  <2>2. Append(servers, new) \in Seq(Server) /\ Len(Append(servers, new)) = Len(servers) + 1
    BY <1>1, <2>1
  <2>3. Len(servers) < MaxServers /\ EditList(Append(servers, new))
    BY <1>2 DEF AddServer, new
  <2>4. Len(Append(servers, new)) <= MaxServers
    BY <1>1, <2>2, <2>3
  <2> QED
    BY <2>2, <2>3, <2>4, MtxEditList
<1>3. ASSUME NEW i \in DOMAIN servers, NEW e \in Entries, UpdateServer(i, e)
      PROVE  MtxInv'
  <2> DEFINE new == [servers[i] EXCEPT !.name = e.name, !.host = e.host, !.user = e.user,
                                       !.auto = e.auto, !.web = e.web]
  <2>1. servers[i] \in Server /\ e \in Entry
    BY <1>1, <1>3, MediaMtxAssumption
  <2>2. new \in Server
    BY <2>1 DEF Server, Entry
  <2>3. EditList([servers EXCEPT ![i] = new])
    BY <1>3 DEF UpdateServer
  <2> HIDE DEF new
  <2>4. /\ [servers EXCEPT ![i] = new] \in Seq(Server)
        /\ Len([servers EXCEPT ![i] = new]) = Len(servers)
    BY <1>1, <2>2
  <2> QED
    BY <1>1, <2>3, <2>4, MtxEditList
<1>4. ASSUME NEW i \in DOMAIN servers, RemoveServer(i)
      PROVE  MtxInv'
  <2> DEFINE n == Len(servers) - 1
             left == [k \in 1 .. n |-> IF k < i THEN servers[k] ELSE servers[k + 1]]
  <2>1. n \in Nat
    BY <1>1
  <2>2. \A k \in 1 .. n : left[k] \in Server
    BY <1>1, <2>1
  <2>3. left \in Seq(Server) /\ Len(left) = n
    BY <2>1, <2>2
  <2> QED
    BY <1>1, <1>4, <2>3, MtxEditList DEF RemoveServer
<1>5. ASSUME NEW i \in DOMAIN servers, MoveServer(i)
      PROVE  MtxInv'
  <2> DEFINE swapped == [servers EXCEPT ![i] = servers[i + 1], ![i + 1] = servers[i]]
  <2>1. i + 1 \in DOMAIN servers /\ EditList(swapped)
    BY <1>5 DEF MoveServer
  <2>2. swapped \in Seq(Server) /\ Len(swapped) = Len(servers)
    BY <1>1, <2>1
  <2> QED
    BY <1>1, <2>1, <2>2, MtxEditList
<1>6. ASSUME NEW i \in DOMAIN servers, NEW password \in Passwords \cup {NoPassword},
             SetPassword(i, password)
      PROVE  MtxInv'
  <2> DEFINE new == [servers[i] EXCEPT !.password = password]
  <2>1. servers[i] \in Server
    BY <1>1
  <2>2. new \in Server /\ new.host = servers[i].host /\ new.srt = servers[i].srt
        /\ new.auto = servers[i].auto
    BY <2>1 DEF Server
  <2>3. servers' = [servers EXCEPT ![i] = new]
    BY <1>6 DEF SetPassword
  <2>4. UNCHANGED <<phase, file, inProgress, pending, testOnly, current, rows, worker, answer,
                    document, asked, listedAt>> /\ edits < MaxEdits /\ edits' = edits + 1
    BY <1>6 DEF SetPassword, fetchVars, rowVars, history
  <2> HIDE DEF new
  <2>5. /\ servers' \in Seq(Server) /\ Len(servers') = Len(servers)
        /\ DOMAIN servers' = DOMAIN servers
        /\ \A k \in DOMAIN servers : /\ servers'[k].host = servers[k].host
                                     /\ servers'[k].srt = servers[k].srt
                                     /\ servers'[k].auto = servers[k].auto
    BY <1>1, <2>2, <2>3
  <2>6. OneRequest'
    BY <2>4 DEF MtxInv, TypeOK, OneRequest
  <2>7. TypeOK'
    BY <2>6, <2>4, <2>5 DEF MtxInv, TypeOK
  <2>8. RowsStandForListed'
    BY <2>4, <2>5 DEF MtxInv, RowsStandForListed
  <2>9. RequestsMeetTheirServer'
    BY <2>4, <2>5 DEF MtxInv, RequestsMeetTheirServer
  <2> QED
    BY <2>4, <2>7, <2>8, <2>9 DEF MtxInv, FileFits, RequestsAskAHost,
       ProtectedPathsCarryCredentials
<1> QED
  BY <1>2, <1>3, <1>4, <1>5, <1>6 DEF Edit

LEMMA MtxOpenDialog ==
    ASSUME MtxInv, OpenDialog
    PROVE  MtxInv'
<1>1. servers' \in Seq(Server) /\ Len(servers') <= Len(file)
  BY ReloadedIsList DEF MtxInv, TypeOK, OpenDialog
<1>2. Len(servers') <= MaxServers
  <2>1. Len(servers') \in Nat /\ Len(file) \in Nat /\ MaxServers \in Nat /\ Len(file) <= MaxServers
    BY <1>1, MediaMtxAssumption DEF MtxInv, FileFits, TypeOK
  <2> QED
    BY <1>1, <2>1
<1>3. OneRequest'
  BY DEF MtxInv, TypeOK, OneRequest, OpenDialog, fetchVars
<1>4. listedAt' \in 0 .. MaxServers
  BY Bounds DEF OpenDialog
<1>5. TypeOK'
  BY <1>3, <1>1, <1>2, <1>4 DEF MtxInv, TypeOK, OpenDialog, fetchVars
<1> QED
  BY <1>5 DEF MtxInv, OpenDialog, fetchVars, FileFits, RequestsAskAHost,
     RequestsMeetTheirServer, RowsStandForListed, ProtectedPathsCarryCredentials

LEMMA MtxFetch ==
    ASSUME MtxInv, NEW i \in DOMAIN servers, NEW test \in BOOLEAN, Fetch(i, test)
    PROVE  MtxInv'
<1> DEFINE asking == [NoWork EXCEPT !.step = "queued", !.host = servers[i].host, !.test = test]
<1>1. servers \in Seq(Server) /\ i \in 1 .. MaxServers /\ servers[i] \in Server
  BY MediaMtxAssumption DEF MtxInv, TypeOK
<1>2. servers[i].host \in Hosts \cup {NoHost}
  BY <1>1 DEF Server
<1>3. asking \in Worker /\ asking.step = "queued" /\ asking.host = servers[i].host
  BY <1>2, NoWorkIsWork DEF NoWork, Worker
<1>4. worker = NoWork /\ answer = NoAnswer
  BY DEF MtxInv, TypeOK, OneRequest, Fetch, MayFetch
<1>5. worker' = asking
  BY DEF Fetch
<1> HIDE DEF asking
<1>6. OneRequest'
  BY <1>1, <1>4 DEF OneRequest, Fetch
<1>7. TypeOK'
  BY <1>6, <1>1, <1>3, <1>4, <1>5 DEF MtxInv, TypeOK, Fetch, listVars, rowVars
<1>8. RequestsAskAHost' /\ RequestsMeetTheirServer'
  BY <1>2, <1>3, <1>4, <1>5 DEF MtxInv, Fetch, listVars, rowVars, RequestsAskAHost,
     RequestsMeetTheirServer
<1> QED
  BY <1>7, <1>8 DEF MtxInv, Fetch, listVars, rowVars, FileFits, RowsStandForListed,
     ProtectedPathsCarryCredentials

-----------------------------------------------------------------------------
(* MediaMtx: the worker and its answer *)

\* The worker goes on to another step of the request under way.
LEMMA MtxGoOn ==
    ASSUME MtxInv, Working, NEW w \in Worker, w.host = worker.host,
           w.step \in {"paths", "configured", "global"} => w.host \in Hosts, GoOn(w)
    PROVE  MtxInv'
<1>1. answer = NoAnswer /\ worker # NoWork /\ inProgress
  BY DEF MtxInv, TypeOK, OneRequest, Working
<1>2. worker' = w /\ UNCHANGED <<phase, servers, file, edits, inProgress, pending, testOnly,
                                 current, rows, document, asked, listedAt, answer>>
  BY DEF GoOn, GuiVars, listVars, fetchVars, rowVars, history
<1>3. OneRequest'
  BY <1>1, <1>2 DEF MtxInv, TypeOK, OneRequest
<1>4. TypeOK'
  BY <1>2, <1>3 DEF MtxInv, TypeOK
<1>5. RequestsAskAHost' /\ RequestsMeetTheirServer'
  BY <1>1, <1>2 DEF MtxInv, RequestsAskAHost, RequestsMeetTheirServer
<1> QED
  BY <1>2, <1>4, <1>5 DEF MtxInv, FileFits, RowsStandForListed,
     ProtectedPathsCarryCredentials

\* The worker is done with the request.
LEMMA MtxFinish ==
    ASSUME MtxInv, Working, NEW a \in Answer, a.host = worker.host, a.ok => a.host \in Hosts,
           Finish(a)
    PROVE  MtxInv'
<1>1. answer = NoAnswer /\ worker # NoWork /\ inProgress
  BY DEF MtxInv, TypeOK, OneRequest, Working
<1>2. /\ worker' = NoWork /\ answer' = a
      /\ UNCHANGED <<phase, servers, file, edits, inProgress, pending, testOnly, current, rows,
                     document, asked, listedAt>>
  BY DEF Finish, GuiVars, listVars, fetchVars, rowVars, history
<1>3. OneRequest'
  BY <1>1, <1>2 DEF MtxInv, TypeOK, OneRequest
<1>4. TypeOK'
  BY <1>2, <1>3, NoWorkIsWork DEF MtxInv, TypeOK
<1>5. RequestsAskAHost' /\ RequestsMeetTheirServer'
  BY <1>1, <1>2 DEF MtxInv, RequestsAskAHost, RequestsMeetTheirServer, NoWork
<1> QED
  BY <1>2, <1>4, <1>5 DEF MtxInv, FileFits, RowsStandForListed,
     ProtectedPathsCarryCredentials

LEMMA MtxGiveUp ==
    ASSUME MtxInv, Working, GiveUp
    PROVE  MtxInv'
<1> DEFINE a == [NoAnswer EXCEPT !.host = worker.host]
<1>1. worker.host \in Hosts \cup {NoHost}
  BY DEF MtxInv, TypeOK, Worker
<1>2. a \in Answer /\ a.host = worker.host /\ ~a.ok
  BY <1>1 DEF NoAnswer, Answer
<1>3. Finish(a)
  BY DEF GiveUp
<1> HIDE DEF a
<1> QED
  BY <1>2, <1>3, MtxFinish

\* While more pages are asked for, the page number is within the cap.
LEMMA NextPageIsPage ==
    ASSUME NEW w \in Worker, NEW more \in BOOLEAN, NextPage(w, more).again
    PROVE  NextPage(w, more).page \in 0 .. MaxPages + 1
<1>1. w.page \in 0 .. MaxPages + 1
  BY DEF Worker
<1>2. NextPage(w, more).page = w.page + 1 /\ w.page + 1 <= MaxPages
  BY DEF NextPage
<1> QED
  BY <1>1, <1>2, Bounds

\* After its last page a list is left for the next request.
LEMMA AfterListIsWork ==
    ASSUME NEW w \in Worker, NEW active \in SUBSET Paths, NEW configured \in SUBSET Paths,
           NEW page
    PROVE  LET gathered == [w EXCEPT !.active = active, !.configured = configured, !.page = page]
           IN  AfterPaths(gathered) \in Worker /\ AfterConfigured(gathered) \in Worker
<1> DEFINE gathered == [w EXCEPT !.active = active, !.configured = configured, !.page = page]
           At(step) == [gathered EXCEPT !.step = step, !.page = 0]
<1>1. 0 \in 0 .. MaxPages + 1
  BY Bounds
<1>2. ASSUME NEW step \in {"configured", "global"} PROVE At(step) \in Worker
  BY <1>1, <1>2 DEF Worker
<1>3. AfterConfigured(gathered) = At("global")
  BY DEF AfterConfigured
<1>4. AfterPaths(gathered) = At(IF gathered.test THEN "global" ELSE "configured")
  BY DEF AfterPaths
<1> HIDE DEF At, gathered
<1> QED
  BY <1>2, <1>3, <1>4 DEF gathered

LEMMA MtxWorker ==
    ASSUME MtxInv, WorkerNext
    PROVE  MtxInv'
<1>1. worker \in Worker
  BY DEF MtxInv, TypeOK
<1>2. worker.step \in {"paths", "configured", "global"} => worker.host \in Hosts
  BY DEF MtxInv, RequestsAskAHost
<1>3. CASE BeginFetch
  <2> DEFINE w == [worker EXCEPT !.step = "paths"]
  <2>1. CASE worker.host = NoHost
    BY <1>3, <2>1, MtxGiveUp DEF BeginFetch
  <2>2. CASE worker.host # NoHost
    <3>1. w \in Worker /\ w.host = worker.host /\ w.host \in Hosts
      BY <1>1, <2>2 DEF Worker
    <3>2. Working /\ GoOn(w)
      BY <1>3, <2>2 DEF BeginFetch
    <3> HIDE DEF w
    <3> QED
      BY <3>1, <3>2, MtxGoOn
  <2> QED
    BY <2>1, <2>2
<1>4. ASSUME NEW listed \in Listings, NEW more \in BOOLEAN, GetPaths(listed, more)
      PROVE  MtxInv'
  <2> DEFINE next == NextPage(worker, more)
             gathered == [worker EXCEPT !.active = @ \cup listed, !.page = next.page]
             w == IF next.again THEN gathered ELSE AfterPaths(gathered)
  <2>1. listed \subseteq Paths
    BY MediaMtxAssumption
  <2>2. next.again => next.page \in 0 .. MaxPages + 1
    BY <1>1, NextPageIsPage
  <2>3. w \in Worker
    <3>1. CASE next.again
      BY <1>1, <2>1, <2>2, <3>1, Bounds DEF Worker
    <3>2. CASE ~next.again
      <4>1. /\ worker.active \in SUBSET Paths /\ worker.configured \in SUBSET Paths
            /\ worker.active \cup listed \in SUBSET Paths
        BY <1>1, <2>1 DEF Worker
      <4>2. gathered = [worker EXCEPT !.active = worker.active \cup listed,
                                      !.configured = worker.configured,
                                      !.page = next.page]
        BY <1>1 DEF Worker
      <4> QED
        BY <1>1, <3>2, <4>1, <4>2, AfterListIsWork
    <3> QED
      BY <3>1, <3>2
  <2>4. w.host = worker.host
    BY <1>1 DEF Worker, AfterPaths
  <2>5. Working /\ worker.step = "paths" /\ GoOn(w)
    BY <1>4 DEF GetPaths
  <2> HIDE DEF w
  <2> QED
    BY <1>2, <2>3, <2>4, <2>5, MtxGoOn
<1>5. ASSUME NEW listed \in Listings, NEW more \in BOOLEAN, GetConfigured(listed, more)
      PROVE  MtxInv'
  <2> DEFINE next == NextPage(worker, more)
             gathered == [worker EXCEPT !.configured = @ \cup listed, !.page = next.page]
             w == IF next.again THEN gathered ELSE AfterConfigured(gathered)
  <2>1. listed \subseteq Paths
    BY MediaMtxAssumption
  <2>2. next.again => next.page \in 0 .. MaxPages + 1
    BY <1>1, NextPageIsPage
  <2>3. w \in Worker
    <3>1. CASE next.again
      BY <1>1, <2>1, <2>2, <3>1, Bounds DEF Worker
    <3>2. CASE ~next.again
      <4>1. /\ worker.active \in SUBSET Paths /\ worker.configured \in SUBSET Paths
            /\ worker.configured \cup listed \in SUBSET Paths
        BY <1>1, <2>1 DEF Worker
      <4>2. gathered = [worker EXCEPT !.active = worker.active,
                                      !.configured = worker.configured \cup listed,
                                      !.page = next.page]
        BY <1>1 DEF Worker
      <4> QED
        BY <1>1, <3>2, <4>1, <4>2, AfterListIsWork
    <3> QED
      BY <3>1, <3>2
  <2>4. w.host = worker.host
    BY <1>1 DEF Worker, AfterConfigured
  <2>5. Working /\ worker.step = "configured" /\ GoOn(w)
    BY <1>5 DEF GetConfigured
  <2> HIDE DEF w
  <2> QED
    BY <1>2, <2>3, <2>4, <2>5, MtxGoOn
<1>6. CASE PathsFail
  BY <1>6, MtxGiveUp DEF PathsFail
<1>7. CASE ConfiguredFail
  <2> DEFINE w == AfterConfigured([worker EXCEPT !.configured = {}])
  <2>1. w \in Worker
    <3>1. worker.active \in SUBSET Paths /\ {} \in SUBSET Paths
      BY <1>1 DEF Worker
    <3>2. [worker EXCEPT !.configured = {}]
             = [worker EXCEPT !.active = worker.active, !.configured = {}, !.page = worker.page]
      BY <1>1 DEF Worker
    <3> QED
      BY <1>1, <3>1, <3>2, AfterListIsWork
  <2>2. w.host = worker.host
    BY <1>1 DEF Worker, AfterConfigured
  <2>3. Working /\ worker.step = "configured" /\ GoOn(w)
    BY <1>7 DEF ConfiguredFail
  <2> HIDE DEF w
  <2> QED
    BY <1>2, <2>1, <2>2, <2>3, MtxGoOn
<1>8. CASE GetGlobal
  <2>1. PICK detected \in BOOLEAN : Succeed(detected)
    BY <1>8 DEF GetGlobal
  <2> DEFINE a == [ok |-> TRUE, host |-> worker.host, active |-> worker.active,
                   configured |-> worker.configured, detected |-> detected]
  <2>2. Working /\ worker.host \in Hosts
    BY <1>2, <1>8 DEF GetGlobal
  <2>3. a \in Answer /\ a.host = worker.host
    BY <1>1 DEF Worker, Answer
  <2>4. Finish(a)
    BY <2>1 DEF Succeed
  <2> HIDE DEF a
  <2> QED
    BY <2>2, <2>3, <2>4, MtxFinish
<1> QED
  BY <1>3, <1>4, <1>5, <1>6, <1>7, <1>8 DEF WorkerNext

LEMMA MtxFetchFails ==
    ASSUME MtxInv, FetchFails
    PROVE  MtxInv'
<1>1. UNCHANGED <<phase, servers, file, edits, testOnly, current, rows, worker, document, listedAt>>
  BY DEF FetchFails, listVars, rowVars
<1>2. worker = NoWork
  BY DEF MtxInv, TypeOK, OneRequest, FetchFails
<1>3. OneRequest'
  BY <1>1, <1>2 DEF OneRequest, FetchFails
<1>4. inProgress' \in BOOLEAN /\ testOnly' \in BOOLEAN /\ asked' \in BOOLEAN /\ listedAt' \in 0 .. MaxServers
  BY <1>1, Bounds DEF MtxInv, TypeOK, FetchFails
<1>5. TypeOK'
  BY <1>1, <1>3, <1>4, Bounds DEF MtxInv, TypeOK, FetchFails
<1>6. RequestsAskAHost' /\ RequestsMeetTheirServer'
  BY <1>1 DEF MtxInv, FetchFails, RequestsAskAHost, RequestsMeetTheirServer, NoAnswer
<1>7. RowsStandForListed'
  BY <1>1 DEF MtxInv, RowsStandForListed, FetchFails
<1> QED
  BY <1>1, <1>5, <1>6, <1>7 DEF MtxInv, FileFits, ProtectedPathsCarryCredentials

LEMMA MtxFetchSucceeds ==
    ASSUME MtxInv, FetchSucceeds
    PROVE  MtxInv'
<1> DEFINE server == RowsServer(servers, pending, answer)
<1>1. /\ UNCHANGED <<phase, file, edits, worker, document>>
      /\ answer' = NoAnswer /\ inProgress' = FALSE /\ pending' = 0 /\ current' = pending
      /\ servers' = Detected(servers, pending, answer)
      /\ testOnly' = FALSE /\ asked' = FALSE
      /\ rows' = IF testOnly THEN rows ELSE Rows(server, answer)
      /\ listedAt' = IF testOnly THEN listedAt ELSE IF asked THEN pending ELSE 0
  BY DEF FetchSucceeds
<1>2. /\ answer \in Answer /\ answer # NoAnswer /\ answer.host \in Hosts /\ worker = NoWork
      /\ servers \in Seq(Server) /\ rows \subseteq Row
  BY DEF MtxInv, TypeOK, OneRequest, RequestsAskAHost, FetchSucceeds
<1>3. /\ Detected(servers, pending, answer) \in Seq(Server)
      /\ Len(Detected(servers, pending, answer)) = Len(servers)
  BY <1>2, DetectedIsList
<1>4. server \in Server \cup {NoServer}
  BY <1>2, RowsServerIsServer
<1> HIDE DEF server
<1>5. rows' \subseteq Row
  BY <1>1, <1>2, <1>4, RowsAreRows
<1>6. OneRequest'
  BY <1>1, <1>2 DEF OneRequest
<1>7. inProgress' \in BOOLEAN /\ testOnly' \in BOOLEAN /\ asked' \in BOOLEAN
  BY <1>1
<1>11. listedAt' \in 0 .. MaxServers
  BY <1>1, Bounds DEF MtxInv, TypeOK
<1>8. TypeOK'
  BY <1>1, <1>3, <1>5, <1>6, <1>7, <1>11, Bounds DEF MtxInv, TypeOK
<1>9. RowsStandForListed'
  <2> SUFFICES ASSUME listedAt' # 0
               PROVE  /\ listedAt' \in DOMAIN servers'
                      /\ \A r \in rows' :
                            /\ r.url.host = r.origin
                            /\ servers'[listedAt'].host = r.origin
                            /\ r.detected => /\ servers'[listedAt'].srt = ListenPort[r.origin]
                                             /\ servers'[listedAt'].auto =>
                                                   r.url.port = ListenPort[r.origin]
    BY <1>1 DEF RowsStandForListed
  <2>1. asked
    BY <1>1 DEF MtxInv, RowsStandForListed, TypeOK, OneRequest, FetchSucceeds
  <2>2. pending \in DOMAIN servers /\ answer.host = servers[pending].host
    BY <1>2, <2>1 DEF MtxInv, RequestsMeetTheirServer
  <2>3. server = servers'[pending]
    BY <1>1, <2>2 DEF RowsServer, server
  <2>4. DOMAIN servers' = DOMAIN servers
    BY <1>1, <1>2, <1>3
  <2>5. /\ server.host = answer.host
        /\ answer.detected => /\ server.srt = ListenPort[answer.host]
                              /\ server.auto => server.web = ListenPort[answer.host]
    BY <1>1, <1>2, <2>2, <2>3, DetectedIsList
  <2>6. CASE ~testOnly
    <3>1. listedAt' = pending
      BY <1>1, <2>1, <2>6
    <3>2. ASSUME NEW r \in rows'
          PROVE  /\ r.url.host = r.origin
                 /\ server.host = r.origin
                 /\ r.detected => /\ server.srt = ListenPort[r.origin]
                                  /\ server.auto => r.url.port = ListenPort[r.origin]
      <4>1. r \in Rows(server, answer)
        BY <1>1, <2>6, <3>2
      <4>2. r.url = WhepUrl(server) /\ r.origin = answer.host /\ r.detected = answer.detected
        BY <1>2, <1>4, <4>1, RowsAreRows
      <4>3. r.url.host = server.host /\ r.url.port = server.web
        BY <4>2 DEF WhepUrl
      <4> QED
        BY <2>5, <4>2, <4>3
    <3> QED
      BY <2>2, <2>3, <2>4, <3>1, <3>2
  <2>7. CASE testOnly
    <3>1. listedAt' = listedAt /\ rows' = rows
      BY <1>1, <2>7
    <3>2. /\ listedAt \in DOMAIN servers
          /\ \A r \in rows :
                /\ r.url.host = r.origin
                /\ servers[listedAt].host = r.origin
                /\ r.detected => /\ servers[listedAt].srt = ListenPort[r.origin]
                                 /\ servers[listedAt].auto => r.url.port = ListenPort[r.origin]
      BY <3>1 DEF MtxInv, RowsStandForListed
    <3>3. CASE listedAt # pending
      <4>1. servers'[listedAt] = servers[listedAt]
        BY <1>1, <3>2, <3>3 DEF Detected
      <4> QED
        BY <2>4, <3>1, <3>2, <4>1
    <3>4. CASE listedAt = pending
      <4>1. /\ servers'[listedAt].host = servers[listedAt].host
            /\ servers'[listedAt].auto = servers[listedAt].auto
            /\ answer.detected => servers'[listedAt].srt = ListenPort[servers[listedAt].host]
            /\ ~answer.detected => servers'[listedAt].srt = servers[listedAt].srt
        BY <1>1, <1>2, <2>2, <2>3, <2>5, <3>4, DetectedKeepsRest
      <4> QED
        BY <2>4, <3>1, <3>2, <4>1
    <3> QED
      BY <3>3, <3>4
  <2> QED
    BY <2>6, <2>7
<1>10. RequestsAskAHost' /\ RequestsMeetTheirServer'
  BY <1>1 DEF MtxInv, RequestsAskAHost, RequestsMeetTheirServer, NoAnswer
<1> QED
  BY <1>1, <1>8, <1>9, <1>10 DEF MtxInv, FileFits, ProtectedPathsCarryCredentials

-----------------------------------------------------------------------------
(* MediaMtx: adding a stream, and the end of the program *)

\* A password that is embedded was entered, or is known to the credential manager.
LEMMA EffectivePasswordIsPassword ==
    ASSUME NEW s \in Server
    PROVE  EffectivePassword(s) \in Passwords \cup {NoPassword}
<1>1. s.password \in Passwords \cup {NoPassword} /\ s.name \in Names /\ s.user \in Users \cup {NoUser}
  BY DEF Server
<1>2. s.user # NoUser => StoredPassword[<<s.name, s.user>>] \in Passwords \cup {NoPassword}
  BY <1>1, MediaMtxAssumption
<1> QED
  BY <1>1, <1>2 DEF EffectivePassword

LEMMA MtxAdd ==
    ASSUME MtxInv, NEW r \in rows, NEW ticked \in BOOLEAN, AddMediaMtxStream(r, ticked)
    PROVE  MtxInv'
<1> DEFINE s == ServerAt(current)
           embeds == Embeds(r, ticked)
           url == Endpoint(r, embeds)
           embedded == Embedded(s, embeds)
           new == [path |-> r.path, url |-> url, embedded |-> embedded, auth |-> r.auth]
<1>1. /\ ~Refused(r) /\ document' = document \cup {new}
      /\ UNCHANGED <<phase, servers, file, edits, inProgress, pending, testOnly, current, rows,
                     worker, answer, asked, listedAt>>
  BY DEF AddMediaMtxStream, listVars, fetchVars, rowVars, history
<1>2. r \in Row /\ servers \in Seq(Server)
  BY DEF MtxInv, TypeOK
<1>3. s \in Server \/ s = NoServer
  BY <1>2 DEF ServerAt
<1>4. NoServer.host = NoHost /\ NoServer.srt = NoPort /\ NoServer.web = NoPort
       /\ NoServer.user = NoUser
  BY DEF NoServer
<1>5. url \in Url
  <2>1. r.url \in Url
    BY <1>2 DEF Row
  <2>2. [host |-> s.host, port |-> s.srt] \in Url /\ WhepUrl(s) \in Url
    <3>1. CASE s \in Server
      BY <3>1 DEF Server, Url, WhepUrl
    <3>2. CASE s = NoServer
      <4>1. s.host = NoHost /\ s.srt = NoPort /\ s.web = NoPort
        BY <3>2, <1>4
      <4> QED
        BY <4>1 DEF Url, WhepUrl
    <3> QED
      BY <1>3, <3>1, <3>2
  <2> QED
    BY <2>1, <2>2 DEF Endpoint
<1>6. embedded \in Credentials
  <2>1. CASE s \in Server
    <3>1. s.user \in Users \cup {NoUser} /\ EffectivePassword(s) \in Passwords \cup {NoPassword}
      BY <2>1, EffectivePasswordIsPassword DEF Server
    <3> QED
      BY <3>1 DEF Embedded, Credentials, NoCredentials
  <2>2. CASE s = NoServer
    <3>1. s.user = NoUser
      BY <2>2, <1>4
    <3> QED
      BY <3>1 DEF Embedded, Credentials, NoCredentials
  <2> QED
    BY <1>3, <2>1, <2>2
<1>7. r.auth => embedded.user # NoUser /\ embedded.password # NoPassword
  <2> SUFFICES ASSUME r.auth
               PROVE  embedded.user # NoUser /\ embedded.password # NoPassword
    OBVIOUS
  <2>1. Usable(s)
    BY <1>1 DEF Refused
  <2>2. embeds
    BY DEF Embeds
  <2>3. embedded = [user |-> s.user, password |-> EffectivePassword(s)]
    BY <2>1, <2>2 DEF Embedded, Usable
  <2> QED
    BY <2>1, <2>3 DEF Usable
<1> HIDE DEF s, embeds, url, embedded
<1>8. new \in Added
  BY <1>2, <1>5, <1>6 DEF Added, Row
<1>9. new.auth = r.auth /\ new.embedded = embedded
  OBVIOUS
<1> HIDE DEF new
<1>10. ProtectedPathsCarryCredentials'
  BY <1>1, <1>7, <1>9 DEF MtxInv, ProtectedPathsCarryCredentials
<1>11. OneRequest'
  BY <1>1 DEF MtxInv, TypeOK, OneRequest
<1>12. TypeOK'
  BY <1>1, <1>8, <1>11 DEF MtxInv, TypeOK
<1> QED
  BY <1>1, <1>10, <1>12 DEF MtxInv, FileFits, RequestsAskAHost, RequestsMeetTheirServer,
     RowsStandForListed

LEMMA MtxQuit ==
    ASSUME MtxInv, Quit
    PROVE  MtxInv'
<1>1. /\ UNCHANGED <<file, edits, inProgress, pending, testOnly, worker, answer, document>>
      /\ phase' = "quitting" /\ servers' = <<>> /\ rows' = {} /\ current' = 0
      /\ asked' = FALSE /\ listedAt' = 0
  BY DEF Quit, fetchVars
<1>2. <<>> \in Seq(Server) /\ Len(<<>>) <= MaxServers
  BY Bounds
<1>3. OneRequest'
  BY <1>1 DEF MtxInv, TypeOK, OneRequest
<1>4. inProgress' \in BOOLEAN /\ testOnly' \in BOOLEAN /\ asked' \in BOOLEAN
  BY <1>1 DEF MtxInv, TypeOK
<1>7. listedAt' \in 0 .. MaxServers
  BY <1>1, Bounds
<1>5. TypeOK'
  BY <1>1, <1>2, <1>3, <1>4, <1>7, Bounds DEF MtxInv, TypeOK
<1>6. RowsStandForListed' /\ RequestsMeetTheirServer'
  BY <1>1 DEF RowsStandForListed, RequestsMeetTheirServer
<1> QED
  BY <1>1, <1>5, <1>6 DEF MtxInv, FileFits, RequestsAskAHost, ProtectedPathsCarryCredentials

\* What a step leaves alone keeps the invariant: of phase it depends only on the type.
LEMMA MtxUnchanged ==
    ASSUME MtxInv, phase' \in {"running", "quitting", "gone"},
           UNCHANGED <<servers, file, edits, inProgress, pending, testOnly, current, rows, worker,
                       answer, document, asked, listedAt>>
    PROVE  MtxInv'
<1>1. OneRequest'
  BY DEF MtxInv, TypeOK, OneRequest
<1>2. TypeOK'
  BY <1>1 DEF MtxInv, TypeOK
<1> QED
  BY <1>2 DEF MtxInv, FileFits, RequestsAskAHost, RequestsMeetTheirServer,
     RowsStandForListed, ServerAt, ProtectedPathsCarryCredentials

LEMMA MtxStep ==
    ASSUME MtxInv, [Next]_vars
    PROVE  MtxInv'
<1>1. CASE Edit
  BY <1>1, MtxEdit
<1>2. CASE OpenDialog
  BY <1>2, MtxOpenDialog
<1>3. CASE \E i \in DOMAIN servers, test \in BOOLEAN : Fetch(i, test)
  BY <1>3, MtxFetch
<1>4. CASE WorkerNext
  BY <1>4, MtxWorker
<1>5. CASE FetchFinished
  BY <1>5, MtxFetchFails, MtxFetchSucceeds DEF FetchFinished
<1>6. CASE \E r \in rows, ticked \in BOOLEAN : AddMediaMtxStream(r, ticked)
  BY <1>6, MtxAdd
<1>7. CASE Quit
  BY <1>7, MtxQuit
<1>8. CASE Gone
  BY <1>8, MtxUnchanged DEF Gone, listVars, fetchVars, rowVars, history
<1>9. CASE UNCHANGED vars
  <2>1. phase' \in {"running", "quitting", "gone"}
    BY <1>9 DEF MtxInv, TypeOK, vars
  <2> QED
    BY <1>9, <2>1, MtxUnchanged DEF vars, listVars, fetchVars, rowVars, history
<1> QED
  BY <1>1, <1>2, <1>3, <1>4, <1>5, <1>6, <1>7, <1>8, <1>9 DEF Next

LEMMA MtxInvariant == Spec => []MtxInv
BY MtxInit, MtxStep, PTL DEF Spec

\* The variables of the MediaMTX client keep their types, and one request is under way at a
\* time (MediaMtxModel, m_refreshInProgress and m_pendingServerIndex).
THEOREM MtxTypeCorrect == Spec => []TypeOK
<1>1. MtxInv => TypeOK
  BY DEF MtxInv
<1> QED
  BY <1>1, MtxInvariant, PTL

\* While the list of servers was neither edited nor read again since the rows were asked
\* for, and whatever was tested since, the rows stand for the server that listed them when
\* the current server is that one: their URLs, and the endpoints built from the current
\* server, have its host and the ports it reported (onFetchFinished, applyGlobalConfig,
\* buildWhepUrl, srtReadEndpointAt).
THEOREM RowsReachTheirServer == Spec => []SettledRowsReachTheirServer
<1>1. MtxInv => SettledRowsReachTheirServer
  BY DEF MtxInv, RowsStandForListed, SettledRowsReachTheirServer, ServerAt
<1> QED
  BY <1>1, MtxInvariant, PTL

\* No path that is known to need authentication is added without a user and a password
\* (BridgeController::addMediaMtxStream).
THEOREM CredentialsGoWithPaths == Spec => []ProtectedPathsCarryCredentials
<1>1. MtxInv => ProtectedPathsCarryCredentials
  BY DEF MtxInv
<1> QED
  BY <1>1, MtxInvariant, PTL

-----------------------------------------------------------------------------
(* WhepSession: what is posted to the GUI thread *)

SourceStates == States \ {"Retrying"}
OfClient == {"options", "post", "delete client"}

\* What an event may hold.
Posted ==
    {e \in [kind : OfClient \cup {"state", "gathered", "delete source"},
            about : Clients \cup {None},
            what : SourceStates \cup Results \cup {None}] :
        /\ e.kind \in OfClient <=> e.about # None
        /\ e.kind = "state" => e.what \in SourceStates
        /\ e.kind = "post" => e.what \in Results
        /\ e.kind \in {"options", "delete client"} => e.what = None}

Concerns(e, c) == e.about = c
Deletes(e, c) == e.kind = "delete client" /\ e.about = c
DeletesSource(e) == e.kind = "delete source"

\* The queue es fits a source whose client is w and clients cs: what is posted for a client
\* reaches it, a client is deleted once, never while it is that of the source, and every
\* other one will be, before the source is.
EventsReachClients(es, cs) ==
    \A i \in 1 .. Len(es), c \in Clients : Concerns(es[i], c) => cs[c] # None

DeletedOnce(es) ==
    \A i, j \in 1 .. Len(es), c \in Clients :
        Deletes(es[i], c) /\ Deletes(es[j], c) => i = j

OwnClientStays(es, w) == \A i \in 1 .. Len(es) : ~ Deletes(es[i], w)

OthersGo(es, w, cs) ==
    \A c \in Clients : cs[c] # None => c = w \/ \E i \in 1 .. Len(es) : Deletes(es[i], c)

SourceGoesLast(es, w) ==
    \A i \in 1 .. Len(es) :
        DeletesSource(es[i]) =>
            w = None /\ \A j \in 1 .. Len(es), c \in Clients : j > i => ~ Deletes(es[j], c)

InOrder(es, w, cs) ==
    /\ es \in Seq(Posted)
    /\ w \in Clients \cup {None}
    /\ cs \in [Clients -> Client \cup {None}]
    /\ EventsReachClients(es, cs)
    /\ DeletedOnce(es)
    /\ OwnClientStays(es, w)
    /\ OthersGo(es, w, cs)
    /\ SourceGoesLast(es, w)

WhepInv ==
    /\ WhepTypeOK
    /\ InOrder(events, whep, clients)
    /\ running <=> whep # None
    /\ life = "new" => events = <<>> /\ peer = None
    /\ ~running => ~pipe.timer
    /\ life = "deleted" => peer = None /\ \A c \in Clients : clients[c] = None

\* A sequence that an element is appended to.
LEMMA AppendedTo ==
    ASSUME NEW E, NEW s \in Seq(E), NEW e \in E
    PROVE  /\ Append(s, e) \in Seq(E) /\ Len(s) \in Nat /\ Len(Append(s, e)) = Len(s) + 1
           /\ Append(s, e)[Len(s) + 1] = e
           /\ \A i \in 1 .. Len(s) : i \in 1 .. Len(s) + 1 /\ Append(s, e)[i] = s[i]
           /\ \A i \in 1 .. Len(s) + 1 : i # Len(s) + 1 => i \in 1 .. Len(s)
OBVIOUS

\* A sequence that its first element leaves.
LEMMA FirstLeaves ==
    ASSUME NEW E, NEW s \in Seq(E), s # <<>>
    PROVE  /\ Tail(s) \in Seq(E) /\ Len(s) \in Nat /\ Len(s) > 0 /\ Head(s) = s[1]
           /\ Len(Tail(s)) = Len(s) - 1
           /\ \A i \in 1 .. Len(Tail(s)) : i + 1 \in 1 .. Len(s) /\ Tail(s)[i] = s[i + 1]
           /\ \A i \in 1 .. Len(s) : i # 1 => i - 1 \in 1 .. Len(Tail(s)) /\ Tail(s)[i - 1] = s[i]
<1>1. Len(s) \in Nat /\ Len(s) > 0
  OBVIOUS
<1>2. Tail(s) \in Seq(E) /\ Head(s) = s[1] /\ Len(Tail(s)) = Len(s) - 1
  OBVIOUS
<1>3. \A i \in 1 .. Len(Tail(s)) : i + 1 \in 1 .. Len(s) /\ Tail(s)[i] = s[i + 1]
  BY <1>1, <1>2
<1>4. ASSUME NEW i \in 1 .. Len(s), i # 1
      PROVE  i - 1 \in 1 .. Len(Tail(s)) /\ Tail(s)[i - 1] = s[i]
  <2>1. i - 1 \in 1 .. Len(Tail(s)) /\ i - 1 + 1 = i
    BY <1>1, <1>2, <1>4
  <2> QED
    BY <1>3, <2>1
<1> QED
  BY <1>1, <1>2, <1>3, <1>4

\* Where the events of a queue are in the longer one that it is left of.
Within(at, t, es) ==
    /\ at \in [1 .. Len(t) -> 1 .. Len(es)]
    /\ \A i \in 1 .. Len(t) : t[i] = es[at[i]]
    /\ \A i, j \in 1 .. Len(t) : i < j => at[i] < at[j]

NoneComes(ds, cs) == \A c \in Clients : ds[c] # None => cs[c] # None

DeletionsStay(at, t, es, ds) ==
    \A k \in 1 .. Len(es), c \in Clients :
        Deletes(es[k], c) /\ ds[c] # None => \E i \in 1 .. Len(t) : at[i] = k

\* Some events leave the queue, and some clients are gone: what is left fits when no event is
\* left for a client that is gone, and no deletion of another one went.
LEMMA QueueThins ==
    ASSUME NEW es, NEW w, NEW cs, InOrder(es, w, cs),
           NEW t \in Seq(Posted), NEW at, Within(at, t, es),
           NEW ds \in [Clients -> Client \cup {None}],
           EventsReachClients(t, ds), NoneComes(ds, cs), DeletionsStay(at, t, es, ds)
    PROVE  InOrder(t, w, ds)
<1>1. es \in Seq(Posted)
  BY DEF InOrder
<1>2. Len(es) \in Nat /\ Len(t) \in Nat
  BY <1>1
<1>3. ASSUME NEW i \in 1 .. Len(t)
      PROVE  at[i] \in 1 .. Len(es) /\ at[i] \in Nat /\ t[i] = es[at[i]]
  BY <1>2 DEF Within
<1>4. DeletedOnce(t)
  <2> SUFFICES ASSUME NEW i \in 1 .. Len(t), NEW j \in 1 .. Len(t), NEW c \in Clients,
                      Deletes(t[i], c), Deletes(t[j], c)
               PROVE  i = j
    BY DEF DeletedOnce
  <2>1. at[i] = at[j]
    BY <1>3 DEF InOrder, DeletedOnce
  <2>2. ~ (at[i] < at[j]) /\ ~ (at[j] < at[i])
    BY <1>3, <2>1
  <2>3. ~ (i < j) /\ ~ (j < i)
    BY <2>2 DEF Within
  <2> QED
    BY <1>2, <2>3
<1>5. OwnClientStays(t, w)
  BY <1>3 DEF InOrder, OwnClientStays
<1>6. OthersGo(t, w, ds)
  <2> SUFFICES ASSUME NEW c \in Clients, ds[c] # None, c # w
               PROVE  \E i \in 1 .. Len(t) : Deletes(t[i], c)
    BY DEF OthersGo
  <2>1. cs[c] # None
    BY DEF NoneComes
  <2>2. PICK k \in 1 .. Len(es) : Deletes(es[k], c)
    BY <2>1 DEF InOrder, OthersGo
  <2>3. PICK i \in 1 .. Len(t) : at[i] = k
    BY <2>2 DEF DeletionsStay
  <2> QED
    BY <1>3, <2>2, <2>3
<1>7. SourceGoesLast(t, w)
  <2> SUFFICES ASSUME NEW i \in 1 .. Len(t), DeletesSource(t[i])
               PROVE  /\ w = None
                      /\ \A j \in 1 .. Len(t), c \in Clients : j > i => ~ Deletes(t[j], c)
    BY DEF SourceGoesLast
  <2>1. /\ w = None
        /\ \A k \in 1 .. Len(es), c \in Clients : k > at[i] => ~ Deletes(es[k], c)
    BY <1>3 DEF InOrder, SourceGoesLast
  <2>2. ASSUME NEW j \in 1 .. Len(t), j > i PROVE at[j] > at[i]
    <3>1. i < j
      BY <1>2, <2>2
    <3>2. at[i] < at[j]
      BY <3>1 DEF Within
    <3> QED
      BY <1>3, <3>2
  <2> QED
    BY <1>3, <2>1, <2>2
<1>8. w \in Clients \cup {None}
  BY DEF InOrder
<1> QED
  BY <1>4, <1>5, <1>6, <1>7, <1>8 DEF InOrder

\* An event leaves the head of the queue that is no deletion of a client.
LEMMA QueueTail ==
    ASSUME NEW es, NEW w, NEW cs, InOrder(es, w, cs), es # <<>>,
           \A c \in Clients : ~ Deletes(Head(es), c)
    PROVE  InOrder(Tail(es), w, cs)
<1> DEFINE t == Tail(es)
           at == [i \in 1 .. Len(t) |-> i + 1]
<1>1. es \in Seq(Posted)
  BY DEF InOrder
<1>2. cs \in [Clients -> Client \cup {None}]
  BY DEF InOrder
<1>3. /\ t \in Seq(Posted) /\ Len(es) \in Nat /\ Len(es) > 0 /\ Head(es) = es[1]
      /\ Len(t) = Len(es) - 1
      /\ \A i \in 1 .. Len(t) : i + 1 \in 1 .. Len(es) /\ t[i] = es[i + 1]
      /\ \A i \in 1 .. Len(es) : i # 1 => i - 1 \in 1 .. Len(t) /\ t[i - 1] = es[i]
  BY <1>1, FirstLeaves
<1> HIDE DEF t
<1>4. /\ \A i \in 1 .. Len(t) : at[i] = i + 1
      /\ at \in [1 .. Len(t) -> 1 .. Len(es)]
  BY <1>3
<1> HIDE DEF at
<1>5. Within(at, t, es)
  BY <1>3, <1>4 DEF Within
<1>6. EventsReachClients(t, cs)
  BY <1>3 DEF InOrder, EventsReachClients
<1>7. NoneComes(cs, cs)
  BY DEF NoneComes
<1>8. DeletionsStay(at, t, es, cs)
  <2> SUFFICES ASSUME NEW k \in 1 .. Len(es), NEW c \in Clients, Deletes(es[k], c)
               PROVE  \E i \in 1 .. Len(t) : at[i] = k
    BY DEF DeletionsStay
  <2>1. k # 1
    BY <1>3
  <2>2. k - 1 \in 1 .. Len(t) /\ k - 1 + 1 = k
    BY <1>3, <2>1
  <2>3. at[k - 1] = k
    BY <1>4, <2>2
  <2> QED
    BY <2>2, <2>3
<1>9. InOrder(t, w, cs)
  BY <1>2, <1>3, <1>5, <1>6, <1>7, <1>8, QueueThins
<1> QED
  BY <1>9 DEF t

\* Events that delete nothing are taken out of the queue.
LEMMA QueueWithout ==
    ASSUME NEW es, NEW w, NEW cs, InOrder(es, w, cs), NEW D,
           \A e \in D, c \in Clients : ~ Deletes(e, c)
    PROVE  InOrder(Without(es, D), w, cs)
<1> DEFINE t == Without(es, D)
<1>1. es \in Seq(Posted)
  BY DEF InOrder
<1>2. cs \in [Clients -> Client \cup {None}]
  BY DEF InOrder
<1>3. LeftOf(t, es, Len(es), D, Posted)
  BY <1>1, WithoutKeepsTheRest
<1> HIDE DEF t
<1>4. PICK at : Traces(at, t, es, Len(es), D)
  BY <1>3 DEF LeftOf
<1>5. t \in Seq(Posted)
  BY <1>3 DEF LeftOf
<1>6. Within(at, t, es)
  BY <1>4 DEF Traces, Within
<1>7. EventsReachClients(t, cs)
  BY <1>4 DEF Traces, InOrder, EventsReachClients
<1>8. NoneComes(cs, cs)
  BY DEF NoneComes
<1>9. DeletionsStay(at, t, es, cs)
  BY <1>4 DEF Traces, DeletionsStay
<1>10. InOrder(t, w, cs)
  BY <1>2, <1>5, <1>6, <1>7, <1>8, <1>9, QueueThins
<1> QED
  BY <1>10 DEF t

\* The clients change, but not which of them there are.
LEMMA QueueClients ==
    ASSUME NEW es, NEW w, NEW cs, InOrder(es, w, cs),
           NEW ds \in [Clients -> Client \cup {None}],
           \A c \in Clients : ds[c] = None <=> cs[c] = None
    PROVE  InOrder(es, w, ds)
<1>1. EventsReachClients(es, ds)
  BY DEF InOrder, EventsReachClients
<1>2. OthersGo(es, w, ds)
  BY DEF InOrder, OthersGo
<1> QED
  BY <1>1, <1>2 DEF InOrder

\* What is posted for a client deletes it, or goes with it.
LEMMA PostedForClient ==
    ASSUME NEW e \in Posted, NEW c \in Clients, None \notin Clients, Concerns(e, c)
    PROVE  Deletes(e, c) \/ e \in RepliesTo(c)
<1>1. /\ e = [kind |-> e.kind, about |-> c, what |-> e.what]
      /\ e.kind \in OfClient
      /\ e.kind = "post" => e.what \in Results
      /\ e.kind = "options" => e.what = None
  BY DEF Posted, Concerns
<1>2. CASE e.kind = "options"
  BY <1>1, <1>2 DEF RepliesTo, Event
<1>3. CASE e.kind = "post"
  <2>1. e = Event("post", c, e.what) /\ e.what \in Results
    BY <1>1, <1>3 DEF Event
  <2> QED
    BY <2>1 DEF RepliesTo
<1>4. CASE e.kind = "delete client"
  BY <1>4 DEF Concerns, Deletes
<1> QED
  BY <1>1, <1>2, <1>3, <1>4 DEF OfClient

LEMMA EventParts ==
    ASSUME NEW kind, NEW about, NEW what
    PROVE  /\ Event(kind, about, what).kind = kind
           /\ Event(kind, about, what).about = about
           /\ Event(kind, about, what).what = what
BY DEF Event

LEMMA RepliesDeleteNothing ==
    ASSUME NEW c, NEW e \in RepliesTo(c), NEW d
    PROVE  ~ Deletes(e, d)
<1>1. CASE e = Event("options", c, None)
  <2>1. e.kind = "options"
    BY <1>1, EventParts
  <2> QED
    BY <2>1 DEF Deletes
<1>2. CASE \E result \in Results : e = Event("post", c, result)
  <2>1. e.kind = "post"
    BY <1>2, EventParts
  <2> QED
    BY <2>1 DEF Deletes
<1> QED
  BY <1>1, <1>2 DEF RepliesTo

\* A client is deleted, and what is posted for it is dropped.
LEMMA QueueDeleteClient ==
    ASSUME NEW es, NEW w, NEW cs, InOrder(es, w, cs), es # <<>>, None \notin Clients,
           NEW c \in Clients, Deletes(Head(es), c)
    PROVE  /\ InOrder(Without(Tail(es), RepliesTo(c)), w, [cs EXCEPT ![c] = None])
           /\ c # w
<1> DEFINE s == Tail(es)
           t == Without(s, RepliesTo(c))
           ds == [cs EXCEPT ![c] = None]
<1>1. es \in Seq(Posted)
  BY DEF InOrder
<1>2. cs \in [Clients -> Client \cup {None}]
  BY DEF InOrder
<1>3. /\ s \in Seq(Posted) /\ Len(es) \in Nat /\ Len(es) > 0 /\ Head(es) = es[1]
      /\ Len(s) = Len(es) - 1
      /\ \A i \in 1 .. Len(s) : i + 1 \in 1 .. Len(es) /\ s[i] = es[i + 1]
      /\ \A i \in 1 .. Len(es) : i # 1 => i - 1 \in 1 .. Len(s) /\ s[i - 1] = es[i]
  BY <1>1, FirstLeaves
<1> HIDE DEF s
<1>4. LeftOf(t, s, Len(s), RepliesTo(c), Posted)
  BY <1>3, WithoutKeepsTheRest
<1> HIDE DEF t
<1>5. PICK at : Traces(at, t, s, Len(s), RepliesTo(c))
  BY <1>4 DEF LeftOf
<1>6. t \in Seq(Posted)
  BY <1>4 DEF LeftOf
<1>7. /\ ds \in [Clients -> Client \cup {None}] /\ ds[c] = None
      /\ \A d \in Clients : d # c => ds[d] = cs[d]
  BY <1>2
<1> HIDE DEF ds
<1> DEFINE to == [i \in 1 .. Len(t) |-> at[i] + 1]
<1>8. ASSUME NEW i \in 1 .. Len(t)
      PROVE  /\ at[i] \in 1 .. Len(s) /\ to[i] = at[i] + 1
             /\ to[i] \in 1 .. Len(es) /\ t[i] = es[to[i]]
  <2>1. at[i] \in 1 .. Len(s) /\ t[i] = s[at[i]]
    BY <1>5 DEF Traces
  <2> QED
    BY <1>3, <2>1
<1>9. to \in [1 .. Len(t) -> 1 .. Len(es)]
  BY <1>8
<1> HIDE DEF to
<1>10. Within(to, t, es)
  <2>1. ASSUME NEW i \in 1 .. Len(t), NEW j \in 1 .. Len(t), i < j
        PROVE  to[i] < to[j]
    <3>1. at[i] < at[j]
      BY <1>5, <2>1 DEF Traces
    <3> QED
      BY <1>3, <1>8, <3>1
  <2> QED
    BY <1>8, <1>9, <2>1 DEF Within
<1>11. ASSUME NEW k \in 1 .. Len(es), k # 1 PROVE ~ Deletes(es[k], c)
  <2>1. 1 \in 1 .. Len(es) /\ Deletes(es[1], c)
    BY <1>3
  <2> QED
    BY <1>11, <2>1 DEF InOrder, DeletedOnce
<1>12. EventsReachClients(t, ds)
  <2> SUFFICES ASSUME NEW i \in 1 .. Len(t), NEW d \in Clients, Concerns(t[i], d)
               PROVE  ds[d] # None
    BY DEF EventsReachClients
  <2>1. cs[d] # None
    BY <1>8 DEF InOrder, EventsReachClients
  <2>2. t[i] \notin RepliesTo(c)
    BY <1>5 DEF Traces
  <2>3. to[i] # 1
    BY <1>3, <1>8
  <2>4. t[i] \in Posted /\ ~ Deletes(t[i], c)
    BY <1>6, <1>8, <1>11, <2>3
  <2>5. d # c
    BY <2>2, <2>4, PostedForClient
  <2> QED
    BY <1>7, <2>1, <2>5
<1>13. NoneComes(ds, cs)
  BY <1>7 DEF NoneComes
<1>14. DeletionsStay(to, t, es, ds)
  <2> SUFFICES ASSUME NEW k \in 1 .. Len(es), NEW d \in Clients, Deletes(es[k], d), ds[d] # None
               PROVE  \E i \in 1 .. Len(t) : to[i] = k
    BY DEF DeletionsStay
  <2>1. d # c
    BY <1>7
  <2>2. k # 1
    BY <1>3, <2>1 DEF Deletes
  <2>3. k - 1 \in 1 .. Len(s) /\ s[k - 1] = es[k] /\ k - 1 + 1 = k
    BY <1>3, <2>2
  <2>4. s[k - 1] \notin RepliesTo(c)
    BY <2>3, RepliesDeleteNothing
  <2>5. PICK i \in 1 .. Len(t) : at[i] = k - 1
    BY <1>5, <2>3, <2>4 DEF Traces
  <2> QED
    BY <1>8, <2>3, <2>5
<1>15. InOrder(t, w, ds)
  BY <1>6, <1>7, <1>10, <1>12, <1>13, <1>14, QueueThins
<1>16. c # w
  BY <1>3 DEF InOrder, OwnClientStays
<1> QED
  BY <1>15, <1>16 DEF t, s, ds

\* An event is posted that deletes nothing, for a client there is or for none.
LEMMA QueueAppend ==
    ASSUME NEW es, NEW w, NEW cs, InOrder(es, w, cs), NEW e \in Posted,
           \A c \in Clients : ~ Deletes(e, c), ~ DeletesSource(e),
           \A c \in Clients : Concerns(e, c) => cs[c] # None
    PROVE  InOrder(Append(es, e), w, cs)
<1> DEFINE t == Append(es, e)
<1>1. es \in Seq(Posted)
  BY DEF InOrder
<1>2. /\ t \in Seq(Posted) /\ Len(es) \in Nat /\ Len(t) = Len(es) + 1
      /\ t[Len(es) + 1] = e
      /\ \A i \in 1 .. Len(es) : i \in 1 .. Len(es) + 1 /\ t[i] = es[i]
      /\ \A i \in 1 .. Len(es) + 1 : i # Len(es) + 1 => i \in 1 .. Len(es)
  BY <1>1, AppendedTo
<1> HIDE DEF t
<1>3. ASSUME NEW i \in 1 .. Len(t)
      PROVE  t[i] = e \/ (i \in 1 .. Len(es) /\ t[i] = es[i])
  BY <1>2
<1>4. EventsReachClients(t, cs)
  BY <1>3 DEF InOrder, EventsReachClients
<1>5. OwnClientStays(t, w)
  <2>1. w \in Clients => ~ Deletes(e, w)
    OBVIOUS
  <2>2. w = None => ~ Deletes(e, w)
    BY DEF Deletes, Posted, OfClient
  <2>3. w \in Clients \cup {None}
    BY DEF InOrder
  <2> QED
    BY <1>3, <2>1, <2>2, <2>3 DEF InOrder, OwnClientStays
<1>6. DeletedOnce(t)
  BY <1>3 DEF InOrder, DeletedOnce
<1>7. OthersGo(t, w, cs)
  BY <1>2 DEF InOrder, OthersGo
<1>8. SourceGoesLast(t, w)
  BY <1>3 DEF InOrder, SourceGoesLast
<1>9. InOrder(t, w, cs)
  BY <1>2, <1>4, <1>5, <1>6, <1>7, <1>8 DEF InOrder
<1> QED
  BY <1>9 DEF t

SourceStays(es) == \A i \in 1 .. Len(es) : ~ DeletesSource(es[i])

\* The source gives up its client, which is to be deleted.
LEMMA QueueDropClient ==
    ASSUME NEW es, NEW w \in Clients, NEW cs, InOrder(es, w, cs), cs[w] # None,
           None \notin Clients
    PROVE  /\ Event("delete client", w, None) \in Posted
           /\ InOrder(Append(es, Event("delete client", w, None)), None, cs)
           /\ SourceStays(Append(es, Event("delete client", w, None)))
<1> DEFINE e == Event("delete client", w, None)
           t == Append(es, e)
<1>1. e \in Posted
  BY DEF Event, Posted, OfClient
<1>2. /\ Deletes(e, w) /\ ~ DeletesSource(e)
      /\ \A c : Concerns(e, c) <=> c = w
      /\ \A c : Deletes(e, c) <=> c = w
  <2>1. e.kind = "delete client" /\ e.about = w
    BY DEF Event
  <2> HIDE DEF e
  <2> QED
    BY <2>1 DEF Deletes, DeletesSource, Concerns
<1> HIDE DEF e
<1>3. es \in Seq(Posted)
  BY DEF InOrder
<1>4. /\ t \in Seq(Posted) /\ Len(es) \in Nat /\ Len(t) = Len(es) + 1
      /\ t[Len(es) + 1] = e
      /\ \A i \in 1 .. Len(es) : i \in 1 .. Len(es) + 1 /\ t[i] = es[i]
      /\ \A i \in 1 .. Len(es) + 1 : i # Len(es) + 1 => i \in 1 .. Len(es)
  BY <1>1, <1>3, AppendedTo
<1> HIDE DEF t
<1>5. ASSUME NEW i \in 1 .. Len(t)
      PROVE  (i = Len(t) /\ t[i] = e) \/ (i \in 1 .. Len(es) /\ t[i] = es[i])
  BY <1>4
<1>6. EventsReachClients(t, cs)
  BY <1>2, <1>5 DEF InOrder, EventsReachClients
<1>7. OwnClientStays(t, None)
  <2>1. ASSUME NEW x \in Posted PROVE ~ Deletes(x, None)
    BY DEF Deletes, Posted, OfClient
  <2>2. \A i \in 1 .. Len(t) : t[i] \in Posted
    BY <1>4
  <2> QED
    BY <2>1, <2>2 DEF OwnClientStays
<1>8. DeletedOnce(t)
  <2>1. \A i \in 1 .. Len(es) : ~ Deletes(es[i], w)
    BY DEF InOrder, OwnClientStays
  <2> SUFFICES ASSUME NEW i \in 1 .. Len(t), NEW j \in 1 .. Len(t), NEW c \in Clients,
                      Deletes(t[i], c), Deletes(t[j], c)
               PROVE  i = j
    BY DEF DeletedOnce
  <2>2. CASE c = w
    BY <1>5, <2>1, <2>2
  <2>3. CASE c # w
    BY <1>2, <1>5, <2>3 DEF InOrder, DeletedOnce
  <2> QED
    BY <2>2, <2>3
<1>9. OthersGo(t, None, cs)
  <2> SUFFICES ASSUME NEW c \in Clients, cs[c] # None
               PROVE  \E i \in 1 .. Len(t) : Deletes(t[i], c)
    BY DEF OthersGo
  <2>1. CASE c = w
    <3>1. Len(es) + 1 \in 1 .. Len(t)
      BY <1>4
    <3> QED
      BY <1>2, <1>4, <2>1, <3>1
  <2>2. CASE c # w
    <3>1. PICK i \in 1 .. Len(es) : Deletes(es[i], c)
      BY <2>2 DEF InOrder, OthersGo
    <3>2. i \in 1 .. Len(t) /\ t[i] = es[i]
      BY <1>4
    <3> QED
      BY <3>1, <3>2
  <2> QED
    BY <2>1, <2>2
<1>10. SourceStays(t)
  <2>1. w # None
    OBVIOUS
  <2>2. SourceStays(es)
    BY <2>1 DEF InOrder, SourceGoesLast, SourceStays
  <2> QED
    BY <1>2, <1>5, <2>2 DEF SourceStays
<1>11. SourceGoesLast(t, None)
  BY <1>10 DEF SourceGoesLast, SourceStays
<1>12. InOrder(t, None, cs)
  <2>1. cs \in [Clients -> Client \cup {None}]
    BY DEF InOrder
  <2> QED
    BY <1>4, <1>6, <1>7, <1>8, <1>9, <1>11, <2>1 DEF InOrder
<1> QED
  BY <1>1, <1>10, <1>12 DEF t, e

\* The source takes a client that there was not.
LEMMA QueueNewClient ==
    ASSUME NEW es, NEW cs, InOrder(es, None, cs), SourceStays(es), NEW c \in Clients,
           cs[c] = None, NEW new \in Client, new # None, None \notin Clients
    PROVE  InOrder(es, c, [cs EXCEPT ![c] = new])
<1> DEFINE ds == [cs EXCEPT ![c] = new]
<1>1. cs \in [Clients -> Client \cup {None}]
  BY DEF InOrder
<1>2. /\ ds \in [Clients -> Client \cup {None}] /\ ds[c] = new
      /\ \A d \in Clients : d # c => ds[d] = cs[d]
  BY <1>1
<1> HIDE DEF ds
<1>3. EventsReachClients(es, ds)
  BY <1>2 DEF InOrder, EventsReachClients
<1>4. OwnClientStays(es, c)
  <2>1. \A i \in 1 .. Len(es) : ~ Concerns(es[i], c)
    BY DEF InOrder, EventsReachClients
  <2> QED
    BY <2>1 DEF OwnClientStays, Concerns, Deletes
<1>5. OthersGo(es, c, ds)
  <2> SUFFICES ASSUME NEW d \in Clients, ds[d] # None, d # c
               PROVE  \E i \in 1 .. Len(es) : Deletes(es[i], d)
    BY DEF OthersGo
  <2>1. cs[d] # None
    BY <1>2
  <2> QED
    BY <2>1 DEF InOrder, OthersGo
<1>6. SourceGoesLast(es, c)
  BY DEF SourceGoesLast, SourceStays
<1>7. es \in Seq(Posted) /\ DeletedOnce(es)
  BY DEF InOrder
<1>8. InOrder(es, c, ds)
  BY <1>2, <1>3, <1>4, <1>5, <1>6, <1>7 DEF InOrder
<1> QED
  BY <1>8 DEF ds

\* The pipeline drops its source, which is to be deleted after its clients.
LEMMA QueueDropSource ==
    ASSUME NEW es, NEW cs, InOrder(es, None, cs), None \notin Clients
    PROVE  InOrder(Append(es, Event("delete source", None, None)), None, cs)
<1> DEFINE e == Event("delete source", None, None)
           t == Append(es, e)
<1>1. e \in Posted
  BY DEF Event, Posted, OfClient
<1>2. /\ \A c \in Clients : ~ Concerns(e, c)
      /\ \A c : ~ Deletes(e, c)
  <2>1. e.kind = "delete source" /\ e.about = None
    BY DEF Event
  <2> HIDE DEF e
  <2> QED
    BY <2>1 DEF Deletes, Concerns
<1> HIDE DEF e
<1>3. es \in Seq(Posted)
  BY DEF InOrder
<1>4. /\ t \in Seq(Posted) /\ Len(es) \in Nat /\ Len(t) = Len(es) + 1
      /\ t[Len(es) + 1] = e
      /\ \A i \in 1 .. Len(es) : i \in 1 .. Len(es) + 1 /\ t[i] = es[i]
      /\ \A i \in 1 .. Len(es) + 1 : i # Len(es) + 1 => i \in 1 .. Len(es)
  BY <1>1, <1>3, AppendedTo
<1> HIDE DEF t
<1>5. ASSUME NEW i \in 1 .. Len(t)
      PROVE  (i = Len(t) /\ t[i] = e) \/ (i \in 1 .. Len(es) /\ t[i] = es[i])
  BY <1>4
<1>6. EventsReachClients(t, cs)
  BY <1>2, <1>5 DEF InOrder, EventsReachClients
<1>7. OwnClientStays(t, None)
  BY <1>2, <1>5 DEF InOrder, OwnClientStays
<1>8. DeletedOnce(t)
  BY <1>2, <1>5 DEF InOrder, DeletedOnce
<1>9. OthersGo(t, None, cs)
  BY <1>4 DEF InOrder, OthersGo
<1>10. SourceGoesLast(t, None)
  <2> SUFFICES ASSUME NEW i \in 1 .. Len(t), DeletesSource(t[i]),
                      NEW j \in 1 .. Len(t), NEW c \in Clients, j > i
               PROVE  ~ Deletes(t[j], c)
    BY DEF SourceGoesLast
  <2>1. CASE t[j] = e
    BY <1>2, <2>1
  <2>2. CASE j \in 1 .. Len(es) /\ t[j] = es[j]
    <3>1. i \in 1 .. Len(es) /\ t[i] = es[i]
      BY <1>4, <2>2
    <3> QED
      BY <2>2, <3>1 DEF InOrder, SourceGoesLast
  <2> QED
    BY <1>5, <2>1, <2>2
<1>11. InOrder(t, None, cs)
  <2>1. cs \in [Clients -> Client \cup {None}]
    BY DEF InOrder
  <2> QED
    BY <1>4, <1>6, <1>7, <1>8, <1>9, <1>10, <2>1 DEF InOrder
<1> QED
  BY <1>11 DEF t, e

\* When the source is to be deleted, no client is left.
LEMMA QueueDeletesSource ==
    ASSUME NEW es, NEW w, NEW cs, InOrder(es, w, cs), es # <<>>, DeletesSource(Head(es)),
           None \notin Clients
    PROVE  w = None /\ \A c \in Clients : cs[c] = None
<1>1. es \in Seq(Posted)
  BY DEF InOrder
<1>2. Len(es) \in Nat /\ Len(es) > 0 /\ Head(es) = es[1]
  BY <1>1, FirstLeaves
<1>3. 1 \in 1 .. Len(es)
  BY <1>2
<1>4. w = None /\ \A j \in 1 .. Len(es), c \in Clients : j > 1 => ~ Deletes(es[j], c)
  BY <1>2, <1>3 DEF InOrder, SourceGoesLast
<1>5. ASSUME NEW j \in 1 .. Len(es), NEW c \in Clients PROVE ~ Deletes(es[j], c)
  <2>1. CASE j = 1
    BY <1>2, <2>1 DEF Deletes, DeletesSource
  <2>2. CASE j # 1
    <3>1. j > 1
      BY <1>2, <2>2
    <3> QED
      BY <1>4, <3>1
  <2> QED
    BY <2>1, <2>2
<1> QED
  BY <1>4, <1>5 DEF InOrder, OthersGo

\* What there is to report: a state of the source and what the pipeline shows, with no timer
\* armed once the pipeline has stopped.
Pipe == [state : States, timer : BOOLEAN]

Fits(at) ==
    /\ at \in [source : SourceStates, pipe : Pipe]
    /\ ~ running => at.pipe.timer = FALSE

LEMMA SlotFits ==
    ASSUME NEW p \in Pipe, NEW s \in SourceStates
    PROVE  Slot(p, s) \in Pipe /\ (~ running => Slot(p, s).timer = p.timer)
<1>1. s \in States /\ "Retrying" \in States
  BY DEF SourceStates, States
<1>2. [p EXCEPT !.state = s] \in Pipe /\ [p EXCEPT !.state = s].timer = p.timer
  BY <1>1 DEF Pipe
<1>3. [state |-> "Retrying", timer |-> TRUE] \in Pipe
  BY <1>1 DEF Pipe
<1>4. CASE s = "Failed" /\ running
  BY <1>3, <1>4 DEF Slot
<1>5. CASE ~ (s = "Failed" /\ running)
  <2>1. Slot(p, s) = [p EXCEPT !.state = s]
    BY <1>5 DEF Slot
  <2> QED
    BY <1>2, <2>1
<1> QED
  BY <1>4, <1>5

LEMMA SetFits ==
    ASSUME NEW at, Fits(at), NEW s \in SourceStates
    PROVE  Fits(Set(at, s))
<1> DEFINE p == Slot(at.pipe, s)
<1>1. at.pipe \in Pipe
  BY DEF Fits
<1>2. p \in Pipe /\ (~ running => p.timer = at.pipe.timer)
  BY <1>1, SlotFits
<1>3. Set(at, s) = IF at.source = s THEN at ELSE [source |-> s, pipe |-> p]
  BY DEF Set
<1> HIDE DEF p
<1>4. Fits([source |-> s, pipe |-> p])
  BY <1>2 DEF Fits
<1> QED
  BY <1>3, <1>4

LEMMA ClosedFits ==
    ASSUME NEW at, Fits(at), NEW goodbye
    PROVE  Fits(Closed(at, goodbye))
<1>1. "Idle" \in SourceStates
  BY DEF SourceStates, States
<1>2. Fits([at EXCEPT !.source = "Idle"])
  BY <1>1 DEF Fits
<1> QED
  BY <1>1, <1>2, SetFits DEF Closed

LEMMA NowFits ==
    ASSUME WhepInv
    PROVE  Fits(Now)
<1>1. state \in SourceStates /\ pipe \in Pipe
  BY DEF WhepInv, WhepTypeOK, SourceStates, Pipe
<1>2. ~ running => pipe.timer = FALSE
  <2>1. pipe.timer \in BOOLEAN
    BY <1>1 DEF Pipe
  <2> QED
    BY <2>1 DEF WhepInv
<1> QED
  BY <1>1, <1>2 DEF Fits, Now

LEMMA StoppedFits ==
    ASSUME WhepInv, NEW goodbye
    PROVE  /\ Fits(Set(Now, "Stopping"))
           /\ Fits(Stopped(goodbye))
<1>1. "Idle" \in SourceStates /\ "Stopping" \in SourceStates
  BY DEF SourceStates, States
<1>2. Fits(Now)
  BY NowFits
<1>3. Fits(Set(Now, "Stopping"))
  BY <1>1, <1>2, SetFits
<1>4. Fits(Set(Closed(Set(Now, "Stopping"), goodbye), "Idle"))
  BY <1>1, <1>3, ClosedFits, SetFits
<1> QED
  BY <1>2, <1>3, <1>4 DEF Stopped

\* A change of state is reported from another thread.
LEMMA QueueReports ==
    ASSUME NEW es, NEW w, NEW cs, InOrder(es, w, cs), NEW s \in SourceStates,
           None \notin Clients
    PROVE  /\ StateEvent(s) \in Posted
           /\ InOrder(Append(es, StateEvent(s)), w, cs)
           /\ SourceStays(es) => SourceStays(Append(es, StateEvent(s)))
<1> DEFINE e == StateEvent(s)
           t == Append(es, e)
<1>1. e \in Posted
  BY DEF StateEvent, Event, Posted, OfClient
<1>2. ~ DeletesSource(e) /\ \A c \in Clients : ~ Deletes(e, c) /\ ~ Concerns(e, c)
  <2>1. e.kind = "state" /\ e.about = None
    BY DEF StateEvent, Event
  <2> HIDE DEF e
  <2> QED
    BY <2>1 DEF Deletes, DeletesSource, Concerns
<1> HIDE DEF e
<1>3. InOrder(t, w, cs)
  BY <1>1, <1>2, QueueAppend
<1>4. es \in Seq(Posted)
  BY DEF InOrder
<1>5. /\ Len(es) \in Nat /\ Len(t) = Len(es) + 1 /\ t[Len(es) + 1] = e
      /\ \A i \in 1 .. Len(es) : t[i] = es[i]
      /\ \A i \in 1 .. Len(es) + 1 : i # Len(es) + 1 => i \in 1 .. Len(es)
  BY <1>1, <1>4, AppendedTo
<1>6. SourceStays(es) => SourceStays(t)
  <2> HIDE DEF t
  <2>1. ASSUME NEW i \in 1 .. Len(t)
        PROVE  t[i] = e \/ (i \in 1 .. Len(es) /\ t[i] = es[i])
    BY <1>5
  <2> QED
    BY <1>2, <2>1 DEF SourceStays
<1> QED
  BY <1>1, <1>3, <1>6 DEF e

LEMMA AppendOne ==
    ASSUME NEW s \in Seq(Posted), NEW e \in Posted
    PROVE  s \o <<e>> = Append(s, e)
BY AppendIsConcat

\* The peer connection is closed.
LEMMA QueueCloses ==
    ASSUME NEW es, NEW w, NEW cs, InOrder(es, w, cs), NEW at, NEW goodbye, None \notin Clients
    PROVE  /\ ClosedEvents(at, goodbye) \in Seq(Posted)
           /\ InOrder(es \o ClosedEvents(at, goodbye), w, cs)
           /\ SourceStays(es) => SourceStays(es \o ClosedEvents(at, goodbye))
<1>1. es \in Seq(Posted)
  BY DEF InOrder
<1>2. "Idle" \in SourceStates
  BY DEF SourceStates, States
<1>3. CASE ClosedEvents(at, goodbye) = <<>>
  <2>1. es \o <<>> = es
    BY <1>1, ConcatEmptySeq
  <2> QED
    BY <1>3, <2>1
<1>4. CASE ClosedEvents(at, goodbye) = <<StateEvent("Idle")>>
  <2>1. StateEvent("Idle") \in Posted
    BY <1>2, QueueReports
  <2>2. es \o <<StateEvent("Idle")>> = Append(es, StateEvent("Idle"))
    BY <1>1, <2>1, AppendOne
  <2>3. <<StateEvent("Idle")>> \in Seq(Posted)
    BY <2>1
  <2> QED
    BY <1>2, <1>4, <2>2, <2>3, QueueReports
<1> QED
  BY <1>3, <1>4 DEF ClosedEvents

\* The session of a client is given up: the clients stay the same.
LEMMA DroppedClients ==
    ASSUME WhepInv, NEW es, NEW w, InOrder(es, w, clients)
    PROVE  /\ InOrder(es, w, Dropped(clients))
           /\ \A c \in Clients : Dropped(clients)[c] = None <=> clients[c] = None
<1>1. clients \in [Clients -> Client \cup {None}]
  BY DEF InOrder
<1>2. CASE whep = None
  BY <1>2 DEF Dropped
<1>3. CASE whep # None
  <2> DEFINE new == [clients[whep] EXCEPT !.resource = FALSE]
  <2>1. whep \in Clients /\ clients[whep] \in Client
    BY <1>3 DEF WhepInv, WhepTypeOK
  <2>2. new \in Client
    BY <2>1 DEF Client
  <2>3. None \notin Client
    BY WhepAssumption
  <2>4. Dropped(clients) = [clients EXCEPT ![whep] = new]
    BY <1>3 DEF Dropped
  <2> HIDE DEF new
  <2>5. /\ Dropped(clients) \in [Clients -> Client \cup {None}]
        /\ \A c \in Clients : Dropped(clients)[c] = None <=> clients[c] = None
    BY <1>1, <2>1, <2>2, <2>3, <2>4
  <2> QED
    BY <2>5, QueueClients
<1> QED
  BY <1>2, <1>3

\* The source stops, and has no client.
LEMMA QueueStops ==
    ASSUME WhepInv, NEW goodbye, whep # None
    PROVE  /\ InOrder(events \o StopEvents(goodbye), None, Dropped(clients))
           /\ SourceStays(events \o StopEvents(goodbye))
<1> DEFINE e == Event("delete client", whep, None)
           closed == ClosedEvents(Set(Now, "Stopping"), goodbye)
<1>1. whep \in Clients /\ clients[whep] # None /\ InOrder(events, whep, clients)
  BY DEF WhepInv, WhepTypeOK
<1>2. None \notin Clients /\ events \in Seq(Posted)
  BY <1>1, WhepAssumption DEF InOrder
<1>3. /\ e \in Posted
      /\ InOrder(Append(events, e), None, clients)
      /\ SourceStays(Append(events, e))
  BY <1>1, <1>2, QueueDropClient
<1>4. /\ closed \in Seq(Posted)
      /\ InOrder(Append(events, e) \o closed, None, clients)
      /\ SourceStays(Append(events, e) \o closed)
  BY <1>2, <1>3, QueueCloses
<1>5. StopEvents(goodbye) = <<e>> \o closed
  BY DEF StopEvents, NothingToStop, DropEvents
<1> HIDE DEF e, closed
<1>6. events \o StopEvents(goodbye) = Append(events, e) \o closed
  <2>1. <<e>> \in Seq(Posted)
    BY <1>3
  <2>2. (events \o <<e>>) \o closed = events \o (<<e>> \o closed)
    BY <1>2, <1>4, <2>1, ConcatAssociative
  <2>3. events \o <<e>> = Append(events, e)
    BY <1>2, <1>3, AppendOne
  <2> QED
    BY <1>5, <2>2, <2>3
<1> QED
  BY <1>4, <1>6, DroppedClients

\* It stops again, without one.
LEMMA QueueStopsAgain ==
    ASSUME NEW es, NEW cs, InOrder(es, None, cs), NEW goodbye, whep = None
    PROVE  /\ InOrder(es \o StopEvents(goodbye), None, cs)
           /\ SourceStays(es) => SourceStays(es \o StopEvents(goodbye))
<1> DEFINE closed == ClosedEvents(Set(Now, "Stopping"), goodbye)
<1>1. None \notin Clients /\ es \in Seq(Posted)
  BY WhepAssumption DEF InOrder
<1>2. /\ closed \in Seq(Posted) /\ InOrder(es \o closed, None, cs)
      /\ SourceStays(es) => SourceStays(es \o closed)
  BY <1>1, QueueCloses
<1>3. StopEvents(goodbye) = IF peer = None THEN <<>> ELSE <<>> \o closed
  BY DEF StopEvents, NothingToStop, DropEvents
<1> HIDE DEF closed
<1>4. <<>> \o closed = closed /\ es \o <<>> = es
  BY <1>1, <1>2, ConcatEmptySeq
<1> QED
  BY <1>2, <1>3, <1>4

Lives == {"new", "started", "stopped", "deleted", "crashed"}

LEMMA WhepParts ==
    ASSUME WhepInv
    PROVE  /\ life \in Lives /\ offerSent \in BOOLEAN /\ pipe \in Pipe /\ state \in SourceStates
           /\ peer \in Peer \cup {None} /\ faults \in 0 .. MaxFaults
           /\ whep # None => whep \in Clients /\ clients[whep] # None
           /\ InOrder(events, whep, clients)
           /\ clients \in [Clients -> Client \cup {None}]
           /\ life = "started" <=> whep # None
           /\ life = "new" => events = <<>> /\ peer = None
           /\ life # "started" => pipe.timer = FALSE
           /\ life = "deleted" => peer = None /\ \A c \in Clients : clients[c] = None
<1>1. pipe \in Pipe
  BY DEF WhepInv, WhepTypeOK, Pipe
<1>2. pipe.timer \in BOOLEAN
  BY <1>1 DEF Pipe
<1>3. life # "started" => pipe.timer = FALSE
  BY <1>2 DEF WhepInv, running
<1>4. clients \in [Clients -> Client \cup {None}]
  BY DEF WhepInv, InOrder
<1> QED
  BY <1>1, <1>3, <1>4 DEF WhepInv, WhepTypeOK, running, SourceStates, Lives

LEMMA WhepPartsSuffice ==
    ASSUME life' \in Lives, offerSent' \in BOOLEAN, pipe' \in Pipe, state' \in SourceStates,
           peer' \in Peer \cup {None}, faults' \in 0 .. MaxFaults,
           whep' # None => clients'[whep'] # None,
           InOrder(events', whep', clients'),
           life' = "started" <=> whep' # None,
           life' = "new" => events' = <<>> /\ peer' = None,
           life' # "started" => pipe'.timer = FALSE,
           life' = "deleted" => peer' = None /\ \A c \in Clients : clients'[c] = None
    PROVE  WhepInv'
<1>1. /\ whep' \in Clients \cup {None}
      /\ \A c \in Clients : clients'[c] \in Client \cup {None}
  BY DEF InOrder
<1>2. WhepTypeOK'
  BY <1>1 DEF WhepTypeOK, Pipe, SourceStates, Lives
<1> QED
  BY <1>2 DEF WhepInv, running

\* What neither starts, stops nor deletes anything is no step of the pool of clients.
LEMMA PoolStays ==
    ASSUME life' = life \/ (life = "stopped" /\ life' = "crashed"), whep' = whep,
           \A c \in Clients : clients'[c] = None <=> clients[c] = None
    PROVE  UNCHANGED Pool!vars
<1>1. GivenUp' = GivenUp
  BY DEF GivenUp
<1> QED
  BY <1>1 DEF Pool!vars

LEMMA WhepInitially ==
    ASSUME WhepInit
    PROVE  WhepInv
<1>1. WhepTypeOK
  <2>1. /\ life = "new" /\ offerSent = FALSE /\ pipe = [state |-> "Idle", timer |-> FALSE]
        /\ state = "Idle" /\ whep = None /\ peer = None
        /\ clients = [c \in Clients |-> None] /\ faults = 0
    BY DEF WhepInit
  <2>2. pipe \in [state : States, timer : BOOLEAN]
    BY <2>1 DEF States
  <2>3. faults \in 0 .. MaxFaults
    BY <2>1, WhepAssumption
  <2>4. \A c \in Clients : clients[c] \in Client \cup {None}
    BY <2>1
  <2> QED
    BY <2>1, <2>2, <2>3, <2>4 DEF WhepTypeOK, States
<1>2. InOrder(events, whep, clients)
  <2>1. events = <<>> /\ whep = None /\ clients = [c \in Clients |-> None]
    BY DEF WhepInit
  <2>2. events \in Seq(Posted) /\ clients \in [Clients -> Client \cup {None}]
    BY <2>1
  <2>3. \A i \in 1 .. Len(events) : FALSE
    BY <2>1
  <2>4. EventsReachClients(events, clients)
    BY <2>3 DEF EventsReachClients
  <2>5. DeletedOnce(events)
    BY <2>3 DEF DeletedOnce
  <2>6. OwnClientStays(events, whep)
    BY <2>3 DEF OwnClientStays
  <2>7. OthersGo(events, whep, clients)
    BY <2>1 DEF OthersGo
  <2>8. SourceGoesLast(events, whep)
    BY <2>3 DEF SourceGoesLast
  <2> QED
    BY <2>1, <2>2, <2>4, <2>5, <2>6, <2>7, <2>8 DEF InOrder
<1>3. /\ life = "new" /\ events = <<>> /\ peer = None /\ whep = None
      /\ pipe = [state |-> "Idle", timer |-> FALSE]
  BY DEF WhepInit
<1>4. ~ pipe.timer
  BY <1>3
<1> QED
  BY <1>1, <1>2, <1>3, <1>4 DEF WhepInv, running

LEMMA NewClientType ==
    NewClient \in Client /\ NewClient # None
<1>1. NewClient \in Client
  BY DEF NewClient, Client
<1> QED
  BY <1>1, WhepAssumption

\* start() of the source, by a pipeline that runs or that never did.
LEMMA WhepStartSource ==
    ASSUME WhepInv, NEW goodbye, StartSource(goodbye),
           whep # None \/ events = <<>>
    PROVE  /\ InOrder(events', whep', clients')
           /\ whep' # None /\ clients'[whep'] # None
           /\ peer' = None /\ offerSent' = FALSE
           /\ whep' \in Clients /\ whep' \notin GivenUp \cup {whep}
           /\ GivenUp' = GivenUp \cup ({whep} \ {None})
<1>1. PICK c \in Clients :
         /\ clients[c] = None /\ whep' = c
         /\ clients' = [Dropped(clients) EXCEPT ![c] = NewClient]
         /\ peer' = None /\ offerSent' = FALSE
         /\ events' = events \o StopEvents(goodbye)
  BY DEF StartSource
<1>2. InOrder(events, whep, clients) /\ None \notin Clients
  BY WhepParts, WhepAssumption
<1>3. InOrder(events', None, Dropped(clients)) /\ SourceStays(events')
  <2>1. CASE whep # None
    BY <1>1, <2>1, QueueStops
  <2>2. CASE whep = None
    <3>1. Dropped(clients) = clients
      BY <2>2 DEF Dropped
    <3>2. SourceStays(events)
      BY <2>2 DEF SourceStays
    <3> QED
      BY <1>1, <1>2, <2>2, <3>1, <3>2, QueueStopsAgain
  <2> QED
    BY <2>1, <2>2
<1>4. Dropped(clients)[c] = None
  BY <1>1, <1>2, DroppedClients
<1>5. InOrder(events', c, clients')
  BY <1>1, <1>2, <1>3, <1>4, NewClientType, QueueNewClient
<1>6. clients'[c] # None
  <2>1. Dropped(clients) \in [Clients -> Client \cup {None}]
    BY <1>3 DEF InOrder
  <2> QED
    BY <1>1, <2>1, NewClientType
<1>7. whep # None => whep \in Clients /\ clients[whep] # None
  BY WhepParts
<1>8. c \notin GivenUp \cup {whep}
  BY <1>1, <1>2, <1>7 DEF GivenUp
<1>9. \A d \in Clients : d # c => (clients'[d] = None <=> clients[d] = None)
  <2>1. Dropped(clients) \in [Clients -> Client \cup {None}]
    BY <1>3 DEF InOrder
  <2>2. \A d \in Clients : Dropped(clients)[d] = None <=> clients[d] = None
    BY <1>2, DroppedClients
  <2> QED
    BY <1>1, <2>1, <2>2
<1>10. GivenUp' = GivenUp \cup ({whep} \ {None})
  <2>1. GivenUp' = {d \in Clients : clients'[d] # None /\ d # c}
    BY <1>1 DEF GivenUp
  <2>2. ASSUME NEW d \in Clients
        PROVE  d \in GivenUp' <=> d \in GivenUp \cup ({whep} \ {None})
    <3>1. d \in GivenUp' <=> clients[d] # None
      BY <1>1, <1>9, <2>1
    <3>2. d # None
      BY <1>2
    <3>3. d \in GivenUp <=> clients[d] # None /\ d # whep
      BY DEF GivenUp
    <3> QED
      BY <1>7, <3>1, <3>2, <3>3
  <2>3. GivenUp \subseteq Clients /\ {whep} \ {None} \subseteq Clients
    BY <1>7 DEF GivenUp
  <2>4. GivenUp' \subseteq Clients
    BY <2>1
  <2> HIDE DEF GivenUp
  <2> QED
    BY <2>2, <2>3, <2>4
<1> QED
  BY <1>1, <1>2, <1>5, <1>6, <1>8, <1>10

LEMMA PoolUse ==
    ASSUME WhepInv, NEW goodbye, StartSource(goodbye), whep # None \/ events = <<>>,
           life \in {"new", "started"}, life' = "started"
    PROVE  Pool!Next
<1>1. /\ whep' \in Clients /\ whep' \notin GivenUp \cup {whep}
      /\ GivenUp' = GivenUp \cup ({whep} \ {None})
  BY WhepStartSource
<1>2. Pool!Use(whep')
  BY <1>1 DEF Pool!Use
<1> QED
  BY <1>1, <1>2 DEF Pool!Next

LEMMA WhepStart ==
    ASSUME WhepInv, Start
    PROVE  WhepInv' /\ Pool!Next
<1> USE DEF Start
<1>1. events = <<>> /\ faults \in 0 .. MaxFaults
  BY WhepParts
<1>2. /\ InOrder(events', whep', clients')
      /\ whep' # None /\ clients'[whep'] # None
      /\ peer' = None /\ offerSent' = FALSE
  BY <1>1, WhepStartSource
<1>3. Fits(Set(Now, "Connecting"))
  BY NowFits, SetFits DEF SourceStates, States
<1>4. state' \in SourceStates /\ pipe' \in Pipe
  BY <1>3 DEF Becomes, Fits
<1>5. life' = "started" /\ faults' = faults
  OBVIOUS
<1>6. WhepInv'
  BY <1>1, <1>2, <1>4, <1>5, WhepPartsSuffice DEF Lives
<1>7. Pool!Next
  BY <1>1, <1>5, PoolUse
<1> QED
  BY <1>6, <1>7

LEMMA WhepTimerFires ==
    ASSUME WhepInv, NEW goodbye, TimerFires(goodbye)
    PROVE  WhepInv' /\ Pool!Next
<1> DEFINE at == Set(Stopped(goodbye), "Connecting")
<1>1. /\ life = "started" /\ life' = life /\ faults' = faults
      /\ StartSource(goodbye)
      /\ state' = at.source /\ pipe' = [at.pipe EXCEPT !.timer = FALSE]
  BY DEF TimerFires, running
<1>2. whep # None /\ faults \in 0 .. MaxFaults
  BY <1>1, WhepParts
<1>3. /\ InOrder(events', whep', clients')
      /\ whep' # None /\ clients'[whep'] # None
      /\ peer' = None /\ offerSent' = FALSE
  BY <1>1, <1>2, WhepStartSource
<1>4. Fits(at)
  <2>1. "Connecting" \in SourceStates
    BY DEF SourceStates, States
  <2> QED
    BY <2>1, StoppedFits, SetFits
<1> HIDE DEF at
<1>5. state' \in SourceStates /\ pipe' \in Pipe
  <2>1. at.source \in SourceStates /\ at.pipe \in Pipe
    BY <1>4 DEF Fits
  <2> QED
    BY <1>1, <2>1 DEF Pipe
<1>6. WhepInv'
  BY <1>1, <1>2, <1>3, <1>5, WhepPartsSuffice DEF Lives
<1>7. Pool!Next
  BY <1>1, <1>2, PoolUse
<1> QED
  BY <1>6, <1>7

LEMMA WhepStop ==
    ASSUME WhepInv, NEW goodbye, Stop(goodbye)
    PROVE  WhepInv' /\ Pool!Next
<1> DEFINE e == Event("delete source", None, None)
           es == events \o StopEvents(goodbye)
<1>1. /\ life = "started" /\ life' = "stopped"
      /\ whep' = None /\ peer' = None /\ clients' = Dropped(clients)
      /\ events' = es \o <<e>>
      /\ state' = Stopped(goodbye).source
      /\ pipe' = [state |-> "Idle", timer |-> FALSE]
      /\ offerSent' = offerSent /\ faults' = faults
  BY DEF Stop, running, SourceDeletion
<1>2. whep # None /\ faults \in 0 .. MaxFaults /\ offerSent \in BOOLEAN
  BY <1>1, WhepParts
<1>3. InOrder(es, None, clients') /\ None \notin Clients
  BY <1>1, <1>2, QueueStops, WhepAssumption
<1>4. e \in Posted
  BY <1>3 DEF Event, Posted, OfClient
<1>5. InOrder(Append(es, e), None, clients')
  BY <1>3, QueueDropSource
<1>6. InOrder(events', whep', clients')
  <2> HIDE DEF e, es
  <2>1. es \in Seq(Posted)
    BY <1>3 DEF InOrder
  <2> QED
    BY <1>1, <1>4, <1>5, <2>1, AppendOne
<1>7. state' \in SourceStates
  BY <1>1, StoppedFits DEF Fits
<1>8. pipe' \in Pipe /\ pipe'.timer = FALSE
  BY <1>1 DEF Pipe, States
<1> HIDE DEF e, es
<1>9. life' \in Lives /\ peer' \in Peer \cup {None}
  BY <1>1 DEF Lives
<1>10. WhepInv'
  BY <1>1, <1>2, <1>6, <1>7, <1>8, <1>9, WhepPartsSuffice
<1>11. GivenUp' = GivenUp \cup {whep}
  <2>1. whep \in Clients /\ clients[whep] # None /\ InOrder(events, whep, clients)
    BY <1>2, WhepParts
  <2>2. \A d \in Clients : clients'[d] = None <=> clients[d] = None
    BY <1>1, <2>1, DroppedClients
  <2> QED
    BY <1>1, <1>3, <2>1, <2>2 DEF GivenUp
<1>12. Pool!Release
  BY <1>1, <1>11 DEF Pool!Release
<1> QED
  BY <1>10, <1>12 DEF Pool!Next

\* An event is posted for a client, of whose requests nothing else changes.
LEMMA WhepClientPosts ==
    ASSUME WhepInv, NEW c \in Clients, clients[c] # None,
           NEW new \in Client, NEW e \in Posted,
           \A d \in Clients : ~ Deletes(e, d), ~ DeletesSource(e), e.about = c,
           clients' = [clients EXCEPT ![c] = new], events' = Append(events, e),
           faults' \in 0 .. MaxFaults,
           UNCHANGED <<life, pipe, state, whep, offerSent, peer>>
    PROVE  WhepInv' /\ UNCHANGED Pool!vars
<1>1. /\ clients \in [Clients -> Client \cup {None}]
      /\ InOrder(events, whep, clients)
  BY WhepParts
<1>2. new # None
  BY WhepAssumption
<1>3. /\ clients' \in [Clients -> Client \cup {None}]
      /\ \A d \in Clients : clients'[d] = None <=> clients[d] = None
  BY <1>1, <1>2
<1>4. \A d \in Clients : Concerns(e, d) => clients'[d] # None
  BY <1>3 DEF Concerns
<1>5. InOrder(events', whep, clients')
  BY <1>1, <1>3, <1>4, QueueClients, QueueAppend
<1>6. life # "new" /\ life # "deleted"
  <2>1. CASE life = "new"
    <3>1. events = <<>> /\ whep = None
      BY <2>1, WhepParts
    <3>2. ~ \E i \in 1 .. Len(events) : Deletes(events[i], c)
      BY <3>1
    <3>3. whep # c
      BY <3>1, WhepAssumption
    <3> QED
      BY <1>1, <3>2, <3>3 DEF InOrder, OthersGo
  <2>2. CASE life = "deleted"
    BY <2>2, WhepParts
  <2> QED
    BY <2>1, <2>2
<1>7. whep' # None => clients'[whep'] # None
  <2>1. whep # None => whep \in Clients /\ clients[whep] # None
    BY WhepParts
  <2> QED
    BY <1>3, <2>1
<1>8. /\ life \in Lives /\ offerSent \in BOOLEAN /\ pipe \in Pipe /\ state \in SourceStates
      /\ peer \in Peer \cup {None}
      /\ life = "started" <=> whep # None
      /\ life # "started" => pipe.timer = FALSE
  BY WhepParts
<1>9. WhepInv'
  BY <1>5, <1>6, <1>7, <1>8, WhepPartsSuffice
<1>10. UNCHANGED Pool!vars
  BY <1>3, PoolStays
<1> QED
  BY <1>9, <1>10

LEMMA WhepOptionsEnd ==
    ASSUME WhepInv, NEW c \in Clients, OptionsEnd(c)
    PROVE  WhepInv' /\ UNCHANGED Pool!vars
<1> DEFINE e == Event("options", c, None)
           new == [clients[c] EXCEPT !.options = "ended"]
<1>1. /\ clients[c] # None
      /\ clients' = [clients EXCEPT ![c] = new] /\ events' = Append(events, e)
      /\ UNCHANGED <<life, pipe, state, whep, offerSent, peer>> /\ faults' = faults
  BY DEF OptionsEnd, source
<1>2. clients[c] \in Client /\ faults \in 0 .. MaxFaults
  BY <1>1, WhepParts
<1>3. new \in Client
  BY <1>2 DEF Client
<1>4. e \in Posted
  BY WhepAssumption DEF Event, Posted, OfClient
<1>5. e.kind = "options" /\ e.about = c
  BY DEF Event
<1> HIDE DEF e, new
<1>6. ~ DeletesSource(e) /\ \A d \in Clients : ~ Deletes(e, d)
  BY <1>5 DEF Deletes, DeletesSource
<1> QED
  BY <1>1, <1>2, <1>3, <1>4, <1>5, <1>6, WhepClientPosts

\* Something has gone wrong, or not.
LEMMA FaultType ==
    ASSUME WhepInv, Fault \/ UNCHANGED faults
    PROVE  faults' \in 0 .. MaxFaults
<1>1. faults \in 0 .. MaxFaults /\ MaxFaults \in Nat
  BY WhepParts, WhepAssumption
<1> QED
  BY <1>1 DEF Fault

LEMMA WhepPostEnds ==
    ASSUME WhepInv, NEW c \in Clients, NEW result \in Results,
           PostEnds(c, result)
    PROVE  WhepInv' /\ UNCHANGED Pool!vars
<1> DEFINE e == Event("post", c, result)
           new == [clients[c] EXCEPT !.post = "ended"]
<1>1. /\ clients[c] # None
      /\ clients' = [clients EXCEPT ![c] = new] /\ events' = Append(events, e)
      /\ UNCHANGED <<life, pipe, state, whep, offerSent, peer>>
      /\ Fault \/ UNCHANGED faults
  BY DEF PostEnds, source
<1>2. clients[c] \in Client /\ faults' \in 0 .. MaxFaults
  BY <1>1, WhepParts, FaultType
<1>3. new \in Client
  BY <1>2 DEF Client
<1>4. e \in Posted
  BY WhepAssumption DEF Event, Posted, OfClient
<1>5. e.kind = "post" /\ e.about = c
  BY DEF Event
<1> HIDE DEF e, new
<1>6. ~ DeletesSource(e) /\ \A d \in Clients : ~ Deletes(e, d)
  BY <1>5 DEF Deletes, DeletesSource
<1> QED
  BY <1>1, <1>2, <1>3, <1>4, <1>5, <1>6, WhepClientPosts

\* The peer connection changes, or reports.
LEMMA WhepPeerReports ==
    ASSUME WhepInv, peer # None, peer' \in Peer,
           InOrder(events', whep, clients), state' \in SourceStates,
           faults' \in 0 .. MaxFaults,
           UNCHANGED <<life, pipe, whep, offerSent, clients>>
    PROVE  WhepInv' /\ UNCHANGED Pool!vars
<1>1. /\ life \in Lives /\ offerSent \in BOOLEAN /\ pipe \in Pipe
      /\ life = "started" <=> whep # None
      /\ life # "started" => pipe.timer = FALSE
      /\ whep # None => clients[whep] # None
  BY WhepParts
<1>2. life # "new" /\ life # "deleted"
  BY WhepParts
<1>3. WhepInv'
  <2>1. InOrder(events', whep', clients')
    OBVIOUS
  <2> QED
    BY <1>1, <1>2, <2>1, WhepPartsSuffice
<1>4. UNCHANGED Pool!vars
  BY PoolStays
<1> QED
  BY <1>3, <1>4

LEMMA WhepReports ==
    ASSUME WhepInv, NEW s \in SourceStates, Reports(s)
    PROVE  InOrder(events', whep, clients) /\ state' \in SourceStates
<1>1. InOrder(events, whep, clients) /\ None \notin Clients
  BY WhepParts, WhepAssumption
<1>2. InOrder(Append(events, StateEvent(s)), whep, clients)
  BY <1>1, QueueReports
<1> QED
  BY <1>1, <1>2 DEF Reports

LEMMA WhepGathers ==
    ASSUME WhepInv, Gathers
    PROVE  WhepInv' /\ UNCHANGED Pool!vars
<1> DEFINE e == Event("gathered", None, None)
<1>1. /\ peer # None /\ peer' = [peer EXCEPT !.gathered = TRUE]
      /\ events' = Append(events, e)
      /\ UNCHANGED <<life, pipe, state, whep, offerSent, clients, faults>>
  BY DEF Gathers
<1>2. /\ peer \in Peer /\ state \in SourceStates /\ faults \in 0 .. MaxFaults
      /\ InOrder(events, whep, clients) /\ None \notin Clients
  BY <1>1, WhepParts, WhepAssumption
<1>3. peer' \in Peer
  BY <1>1, <1>2 DEF Peer
<1>4. e \in Posted
  BY DEF Event, Posted, OfClient
<1>5. e.kind = "gathered" /\ e.about = None
  BY DEF Event
<1> HIDE DEF e
<1>6. /\ ~ DeletesSource(e)
      /\ \A d \in Clients : ~ Deletes(e, d) /\ ~ Concerns(e, d)
  BY <1>2, <1>5 DEF Deletes, DeletesSource, Concerns
<1>7. InOrder(events', whep, clients)
  BY <1>1, <1>2, <1>4, <1>6, QueueAppend
<1> QED
  BY <1>1, <1>2, <1>3, <1>7, WhepPeerReports

LEMMA WhepConnects ==
    ASSUME WhepInv, Connects
    PROVE  WhepInv' /\ UNCHANGED Pool!vars
<1>1. /\ peer # None /\ peer' = [peer EXCEPT !.state = "connected"]
      /\ Reports("Running")
      /\ UNCHANGED <<life, pipe, whep, offerSent, clients, faults>>
  BY DEF Connects
<1>2. peer \in Peer /\ faults \in 0 .. MaxFaults
  BY <1>1, WhepParts
<1>3. peer' \in Peer
  BY <1>1, <1>2 DEF Peer
<1>4. "Running" \in SourceStates
  BY DEF SourceStates, States
<1> QED
  BY <1>1, <1>2, <1>3, <1>4, WhepReports, WhepPeerReports

LEMMA WhepDisconnects ==
    ASSUME WhepInv, Disconnects
    PROVE  WhepInv' /\ UNCHANGED Pool!vars
<1>1. /\ peer # None /\ peer' = [peer EXCEPT !.state = "disconnected"]
      /\ Reports("Failed") /\ Fault
      /\ UNCHANGED <<life, pipe, whep, offerSent, clients>>
  BY DEF Disconnects
<1>2. peer \in Peer /\ faults' \in 0 .. MaxFaults
  BY <1>1, WhepParts, FaultType
<1>3. peer' \in Peer
  BY <1>1, <1>2 DEF Peer
<1>4. "Failed" \in SourceStates
  BY DEF SourceStates, States
<1> QED
  BY <1>1, <1>2, <1>3, <1>4, WhepReports, WhepPeerReports

LEMMA WhepGivesUp ==
    ASSUME WhepInv, GivesUp
    PROVE  WhepInv' /\ UNCHANGED Pool!vars
<1>1. /\ peer # None /\ peer' = [peer EXCEPT !.state = "failed"]
      /\ Reports("Failed")
      /\ UNCHANGED <<life, pipe, whep, offerSent, clients, faults>>
  BY DEF GivesUp
<1>2. peer \in Peer /\ faults \in 0 .. MaxFaults
  BY <1>1, WhepParts
<1>3. peer' \in Peer
  BY <1>1, <1>2 DEF Peer
<1>4. "Failed" \in SourceStates
  BY DEF SourceStates, States
<1> QED
  BY <1>1, <1>2, <1>3, <1>4, WhepReports, WhepPeerReports

\* The event that is handled, and the client it is for.
LEMMA WhepDue ==
    ASSUME WhepInv, NEW kind, Due(kind)
    PROVE  /\ events # <<>> /\ life # "new" /\ Head(events).kind = kind
           /\ Head(events) \in Posted
           /\ \A c \in Clients :
                 Concerns(Head(events), c) => clients[c] # None /\ life # "deleted"
<1>1. events # <<>> /\ Head(events).kind = kind
  BY DEF Due
<1>2. InOrder(events, whep, clients)
  BY WhepParts
<1>3. events \in Seq(Posted)
  BY <1>2 DEF InOrder
<1>4. Len(events) \in Nat /\ Len(events) > 0 /\ Head(events) = events[1]
  BY <1>1, <1>3, FirstLeaves
<1>5. 1 \in 1 .. Len(events) /\ events[1] \in Posted
  BY <1>3, <1>4
<1>6. ASSUME NEW c \in Clients, Concerns(Head(events), c)
      PROVE  clients[c] # None /\ life # "deleted"
  <2>1. clients[c] # None
    BY <1>2, <1>4, <1>5, <1>6 DEF InOrder, EventsReachClients
  <2>2. CASE life = "deleted"
    BY <2>1, <2>2, WhepParts
  <2> QED
    BY <2>1, <2>2
<1>7. life # "new"
  BY <1>1, WhepParts
<1> QED
  BY <1>1, <1>4, <1>5, <1>6, <1>7

\* The event leaves the queue, and what is reported is delivered.
LEMMA WhepHandles ==
    ASSUME WhepInv, NEW kind, Due(kind), kind # "delete client",
           NEW at, Fits(at), state' = at.source, pipe' = at.pipe,
           offerSent' \in BOOLEAN, peer' \in Peer \cup {None}, faults' \in 0 .. MaxFaults,
           life = "deleted" => peer' = None /\ clients' = clients,
           clients' \in [Clients -> Client \cup {None}],
           \A c \in Clients : clients'[c] = None <=> clients[c] = None,
           InOrder(Tail(events), whep, clients) => InOrder(events', whep, clients),
           UNCHANGED <<life, whep>>
    PROVE  WhepInv' /\ UNCHANGED Pool!vars
<1>1. /\ events # <<>> /\ life # "new" /\ Head(events).kind = kind
      /\ InOrder(events, whep, clients)
  BY WhepDue, WhepParts
<1>2. \A c \in Clients : ~ Deletes(Head(events), c)
  BY <1>1 DEF Deletes
<1>3. InOrder(events', whep, clients)
  BY <1>1, <1>2, QueueTail
<1>4. InOrder(events', whep, clients')
  BY <1>3, QueueClients
<1>5. state' \in SourceStates /\ pipe' \in Pipe
  BY DEF Fits
<1>6. life # "started" => pipe'.timer = FALSE
  BY DEF Fits, running
<1>7. whep' # None => clients'[whep'] # None
  <2>1. whep # None => whep \in Clients /\ clients[whep] # None
    BY WhepParts
  <2> QED
    BY <2>1
<1>8. life \in Lives /\ (life = "started" <=> whep # None)
  BY WhepParts
<1>9. life = "deleted" => \A c \in Clients : clients[c] = None
  BY WhepParts
<1>10. WhepInv'
  BY <1>1, <1>4, <1>5, <1>6, <1>7, <1>8, <1>9, WhepPartsSuffice
<1>11. UNCHANGED Pool!vars
  BY PoolStays
<1> QED
  BY <1>10, <1>11

LEMMA WhepOnState ==
    ASSUME WhepInv, OnState
    PROVE  WhepInv' /\ UNCHANGED Pool!vars
<1> DEFINE s == Head(events).what
           at == [source |-> state, pipe |-> Slot(pipe, s)]
<1>1. /\ Due("state") /\ events' = Tail(events)
      /\ pipe' = Slot(pipe, s)
      /\ UNCHANGED <<life, state, whep, offerSent, peer, clients, faults>>
  BY DEF OnState, Handled, source
<1>2. s \in SourceStates
  BY <1>1, WhepDue DEF Posted
<1>3. /\ state \in SourceStates /\ pipe \in Pipe
      /\ life # "started" => pipe.timer = FALSE
  BY WhepParts
<1>4. /\ Slot(pipe, s) \in Pipe
      /\ ~ running => Slot(pipe, s).timer = pipe.timer
  BY <1>2, <1>3, SlotFits
<1>5. Fits(at)
  BY <1>3, <1>4 DEF Fits, running
<1>6. state' = at.source /\ pipe' = at.pipe
  BY <1>1
<1> HIDE DEF at
<1>7. /\ offerSent \in BOOLEAN /\ peer \in Peer \cup {None} /\ faults \in 0 .. MaxFaults
      /\ clients \in [Clients -> Client \cup {None}]
      /\ life = "deleted" => peer = None
  BY WhepParts
<1> QED
  BY <1>1, <1>5, <1>6, <1>7, WhepHandles

LEMMA NewPeerType ==
    NewPeer \in Peer /\ [NewPeer EXCEPT !.described = FALSE] \in Peer
BY DEF NewPeer, Peer

\* An ICE server list is for a client that there is.
LEMMA WhepOptionsDue ==
    ASSUME WhepInv, Due("options")
    PROVE  life # "deleted"
<1>1. Head(events) \in Posted /\ Head(events).kind = "options"
  BY WhepDue
<1>2. Head(events).about \in Clients
  BY <1>1 DEF Posted, OfClient
<1> QED
  BY <1>2, WhepDue DEF Concerns

LEMMA WhepBeginNegotiation ==
    ASSUME WhepInv, NEW goodbye, BeginNegotiation(goodbye)
    PROVE  WhepInv' /\ UNCHANGED Pool!vars
<1> DEFINE at == Closed(Now, goodbye)
<1>1. /\ Due("options") /\ peer' = NewPeer
      /\ state' = at.source /\ pipe' = at.pipe
      /\ events' = Tail(events) \o ClosedEvents(Now, goodbye)
      /\ UNCHANGED <<life, whep, offerSent, clients, faults>>
  BY DEF BeginNegotiation, Becomes
<1>2. Fits(at)
  BY NowFits, ClosedFits
<1> HIDE DEF at
<1>3. /\ offerSent \in BOOLEAN /\ faults \in 0 .. MaxFaults
      /\ clients \in [Clients -> Client \cup {None}]
  BY WhepParts
<1>4. InOrder(Tail(events), whep, clients) => InOrder(events', whep, clients)
  BY <1>1, QueueCloses, WhepAssumption
<1>5. peer' \in Peer /\ life # "deleted"
  BY <1>1, NewPeerType, WhepOptionsDue
<1> QED
  BY <1>1, <1>2, <1>3, <1>4, <1>5, WhepHandles

LEMMA WhepNegotiationFails ==
    ASSUME WhepInv, NEW goodbye, NegotiationFails(goodbye)
    PROVE  WhepInv' /\ UNCHANGED Pool!vars
<1>1. /\ Due("options") /\ Fault
      /\ UNCHANGED <<life, whep, offerSent, clients>>
  BY DEF NegotiationFails
<1>2. /\ offerSent \in BOOLEAN /\ faults' \in 0 .. MaxFaults
      /\ clients \in [Clients -> Client \cup {None}]
      /\ peer \in Peer \cup {None} /\ life # "deleted"
  BY <1>1, WhepParts, FaultType, WhepOptionsDue
<1>3. "Failed" \in SourceStates
  BY DEF SourceStates, States
<1>4. CASE /\ Becomes(Set(Now, "Failed"))
           /\ events' = Tail(events) /\ peer' = peer
  <2> DEFINE at == Set(Now, "Failed")
  <2>1. Fits(at) /\ state' = at.source /\ pipe' = at.pipe
    BY <1>3, <1>4, NowFits, SetFits DEF Becomes
  <2> HIDE DEF at
  <2> QED
    BY <1>1, <1>2, <1>4, <2>1, WhepHandles
<1>5. CASE /\ peer' = [NewPeer EXCEPT !.described = FALSE]
           /\ Becomes(Set(Closed(Now, goodbye), "Failed"))
           /\ events' = Tail(events) \o ClosedEvents(Now, goodbye)
  <2> DEFINE at == Set(Closed(Now, goodbye), "Failed")
  <2>1. Fits(at) /\ state' = at.source /\ pipe' = at.pipe
    BY <1>3, <1>5, NowFits, ClosedFits, SetFits DEF Becomes
  <2> HIDE DEF at
  <2>2. InOrder(Tail(events), whep, clients) => InOrder(events', whep, clients)
    BY <1>5, QueueCloses, WhepAssumption
  <2>3. peer' \in Peer
    BY <1>5, NewPeerType
  <2> QED
    BY <1>1, <1>2, <2>1, <2>2, <2>3, WhepHandles
<1> QED
  BY <1>4, <1>5 DEF NegotiationFails, Handled

LEMMA WhepOnLocalDescriptionReady ==
    ASSUME WhepInv, OnLocalDescriptionReady
    PROVE  WhepInv' /\ UNCHANGED Pool!vars
<1>1. /\ Due("gathered") /\ events' = Tail(events)
      /\ UNCHANGED <<life, whep, faults>>
  BY DEF OnLocalDescriptionReady, Handled
<1>2. /\ offerSent \in BOOLEAN /\ faults \in 0 .. MaxFaults
      /\ clients \in [Clients -> Client \cup {None}]
      /\ peer \in Peer \cup {None}
      /\ life = "deleted" => peer = None
  BY WhepParts
<1>3. CASE /\ Offers /\ whep # None /\ SendOffer
           /\ offerSent' = TRUE /\ peer' = [peer EXCEPT !.offered = TRUE]
  <2> DEFINE at == IF clients[whep].post = "asked" THEN Set(Now, "Failed")
                   ELSE Now
             new == [clients[whep] EXCEPT !.post = "asked"]
  <2>1. Fits(at)
    <3>1. "Failed" \in SourceStates
      BY DEF SourceStates, States
    <3> QED
      BY <3>1, NowFits, SetFits
  <2>2. /\ state' = at.source /\ pipe' = at.pipe
        /\ clients' = [clients EXCEPT ![whep] = new]
    BY <1>3 DEF SendOffer, Becomes
  <2>3. whep \in Clients /\ clients[whep] \in Client /\ clients[whep] # None
    <3>1. whep \in Clients /\ clients[whep] # None
      BY <1>3, WhepParts
    <3> QED
      BY <1>2, <3>1
  <2>4. new \in Client /\ new # None
    <3>1. new \in Client
      BY <2>3 DEF Client
    <3> QED
      BY <3>1, WhepAssumption
  <2> HIDE DEF at, new
  <2>5. /\ clients' \in [Clients -> Client \cup {None}]
        /\ \A c \in Clients : clients'[c] = None <=> clients[c] = None
    BY <1>2, <2>2, <2>3, <2>4
  <2>6. peer # None /\ peer' \in Peer
    <3>1. peer # None
      BY <1>3 DEF Offers
    <3>2. peer \in Peer
      BY <1>2, <3>1
    <3> QED
      BY <1>3, <3>1, <3>2 DEF Peer
  <2>7. life # "deleted"
    BY <1>2, <2>6
  <2> QED
    BY <1>1, <1>2, <1>3, <2>1, <2>2, <2>5, <2>6, <2>7, WhepHandles
<1>4. CASE UNCHANGED <<state, pipe, clients, offerSent, peer>>
  <2>1. state' = Now.source /\ pipe' = Now.pipe
    BY <1>4 DEF Now
  <2>2. Fits(Now)
    BY NowFits
  <2> QED
    BY <1>1, <1>2, <1>4, <2>1, <2>2, WhepHandles
<1> QED
  BY <1>3, <1>4 DEF OnLocalDescriptionReady

LEMMA WhepOffersToNobody ==
    ASSUME WhepInv, OffersToNobody
    PROVE  WhepInv' /\ UNCHANGED Pool!vars
<1>1. /\ Due("gathered") /\ events' = Tail(events) /\ whep = None /\ life' = "crashed"
      /\ UNCHANGED <<pipe, state, whep, offerSent, peer, clients, faults>>
  BY DEF OffersToNobody, Handled, source
<1>2. /\ offerSent \in BOOLEAN /\ faults \in 0 .. MaxFaults
      /\ pipe \in Pipe /\ state \in SourceStates /\ peer \in Peer \cup {None}
      /\ life # "started" => pipe.timer = FALSE
      /\ life = "started" <=> whep # None
      /\ InOrder(events, whep, clients)
  BY WhepParts
<1>3. /\ events # <<>>
      /\ \A c \in Clients : ~ Deletes(Head(events), c)
  <2>1. events # <<>> /\ Head(events).kind = "gathered"
    BY <1>1, WhepDue
  <2> QED
    BY <2>1 DEF Deletes
<1>4. InOrder(events', whep', clients')
  BY <1>1, <1>2, <1>3, QueueTail
<1>5. WhepInv'
  BY <1>1, <1>2, <1>4, WhepPartsSuffice DEF Lives
<1>6. life = "stopped"
  <2>1. life # "crashed" /\ peer # None
    BY DEF OffersToNobody, Due, Offers
  <2>2. life # "new" /\ life # "deleted" /\ life \in Lives
    BY <2>1, WhepParts
  <2>3. life # "started"
    BY <1>1, <1>2
  <2> QED
    BY <2>1, <2>2, <2>3 DEF Lives
<1>7. UNCHANGED Pool!vars
  BY <1>1, <1>6, PoolStays
<1> QED
  BY <1>5, <1>7

LEMMA WhepOnPost ==
    ASSUME WhepInv, OnPost
    PROVE  WhepInv' /\ UNCHANGED Pool!vars
<1> DEFINE c == Head(events).about
           result == Head(events).what
           applies == peer # None /\ result = "answer" /\ peer.answer = "none"
           fails == result = "refused" \/ (peer # None /\ ~applies)
           at == IF fails THEN Set(Now, "Failed") ELSE Now
           new == [clients[c] EXCEPT !.post = "handled",
                                     !.resource = @ \/ result # "refused"]
<1>1. /\ Due("post") /\ events' = Tail(events)
      /\ clients' = Taken(c, result)
      /\ state' = at.source /\ pipe' = at.pipe
      /\ peer' = IF applies THEN Answered(peer) ELSE peer
      /\ UNCHANGED <<life, whep, offerSent, faults>>
  BY DEF OnPost, Handled, Becomes
<1>2. /\ offerSent \in BOOLEAN /\ faults \in 0 .. MaxFaults
      /\ clients \in [Clients -> Client \cup {None}]
      /\ peer \in Peer \cup {None}
  BY WhepParts
<1>3. c \in Clients
  <2>1. Head(events) \in Posted /\ Head(events).kind = "post"
    BY <1>1, WhepDue
  <2> QED
    BY <2>1 DEF Posted, OfClient
<1>4. clients[c] # None /\ clients[c] \in Client /\ life # "deleted"
  <2>1. clients[c] # None /\ life # "deleted"
    BY <1>1, <1>3, WhepDue DEF Concerns
  <2> QED
    BY <1>2, <1>3, <2>1
<1>5. Fits(at)
  <2>1. "Failed" \in SourceStates
    BY DEF SourceStates, States
  <2> QED
    BY <2>1, NowFits, SetFits
<1>6. peer' \in Peer \cup {None}
  <2>1. CASE applies
    <3>1. peer \in Peer
      BY <1>2, <2>1
    <3>2. Answered(peer) \in Peer
      BY <3>1 DEF Answered, Peer
    <3> QED
      BY <1>1, <2>1, <3>2
  <2>2. CASE ~ applies
    BY <1>1, <1>2, <2>2
  <2> QED
    BY <2>1, <2>2
<1>7. clients' = [clients EXCEPT ![c] = new]
  BY <1>1, <1>2, <1>3 DEF Taken
<1>8. new \in Client /\ new # None
  <2>1. new \in Client
    BY <1>4 DEF Client
  <2> QED
    BY <2>1, WhepAssumption
<1> HIDE DEF at, new, c
<1>9. /\ clients' \in [Clients -> Client \cup {None}]
      /\ \A d \in Clients : clients'[d] = None <=> clients[d] = None
  BY <1>2, <1>3, <1>4, <1>7, <1>8
<1> QED
  BY <1>1, <1>2, <1>4, <1>5, <1>6, <1>9, WhepHandles

LEMMA WhepOnDeleteClient ==
    ASSUME WhepInv, OnDeleteClient
    PROVE  WhepInv' /\ Pool!Next
<1> DEFINE c == Head(events).about
           at == IF clients[c].post \in {"asked", "ended"} THEN Set(Now, "Failed")
                 ELSE Now
<1>1. /\ Due("delete client")
      /\ events' = Without(Tail(events), RepliesTo(c))
      /\ clients' = [clients EXCEPT ![c] = None]
      /\ state' = at.source /\ pipe' = at.pipe
      /\ UNCHANGED <<life, whep, offerSent, peer, faults>>
  <2>1. /\ Due("delete client")
        /\ events' = Without(Tail(events), RepliesTo(c))
        /\ clients' = [clients EXCEPT ![c] = None]
    BY DEF OnDeleteClient
  <2>2. state' = at.source /\ pipe' = at.pipe
    BY DEF OnDeleteClient, Becomes
  <2>3. UNCHANGED <<life, whep, offerSent, peer, faults>>
    BY DEF OnDeleteClient
  <2> QED
    BY <2>1, <2>2, <2>3
<1>2. /\ offerSent \in BOOLEAN /\ faults \in 0 .. MaxFaults /\ life \in Lives
      /\ peer \in Peer \cup {None}
      /\ life = "started" <=> whep # None
      /\ InOrder(events, whep, clients)
  BY WhepParts
<1>3. /\ events # <<>> /\ life # "new" /\ Head(events).kind = "delete client"
      /\ Head(events) \in Posted
  BY <1>1, WhepDue
<1>4. c \in Clients /\ Deletes(Head(events), c)
  BY <1>3 DEF Posted, OfClient, Deletes
<1>5. InOrder(events', whep', clients') /\ c # whep
  BY <1>1, <1>2, <1>3, <1>4, QueueDeleteClient, WhepAssumption
<1>6. life # "deleted"
  BY <1>1, <1>4, WhepDue DEF Concerns
<1>7. Fits(at)
  <2>1. "Failed" \in SourceStates
    BY DEF SourceStates, States
  <2> QED
    BY <2>1, NowFits, SetFits
<1> HIDE DEF at, c
<1>8. state' \in SourceStates /\ pipe' \in Pipe
  BY <1>1, <1>7 DEF Fits
<1>9. life # "started" => pipe'.timer = FALSE
  BY <1>1, <1>7 DEF Fits, running
<1>10. whep' # None => clients'[whep'] # None
  <2>1. whep # None => whep \in Clients /\ clients[whep] # None
    BY WhepParts
  <2>2. clients \in [Clients -> Client \cup {None}]
    BY WhepParts
  <2> QED
    BY <1>1, <1>5, <2>1, <2>2
<1>11. WhepInv'
  BY <1>1, <1>2, <1>3, <1>5, <1>6, <1>8, <1>9, <1>10, WhepPartsSuffice
<1>12. clients \in [Clients -> Client \cup {None}] /\ clients[c] # None
  BY <1>1, <1>4, WhepDue, WhepParts DEF Concerns, c
<1>13. c \in GivenUp /\ GivenUp' = GivenUp \ {c}
  BY <1>1, <1>4, <1>5, <1>12 DEF GivenUp
<1>14. Pool!Delete(c)
  BY <1>1, <1>13 DEF Pool!Delete
<1> QED
  BY <1>4, <1>11, <1>14 DEF Pool!Next

LEMMA WhepOnDeleteSource ==
    ASSUME WhepInv, NEW goodbye, OnDeleteSource(goodbye)
    PROVE  WhepInv' /\ [Pool!Next]_(Pool!vars)
<1> DEFINE gathered == {Event("gathered", None, None)}
           es == Without(Tail(events), gathered)
           at == Stopped(goodbye)
<1>1. /\ Due("delete source") /\ events' = es \o StopEvents(goodbye)
      /\ life' = "deleted" /\ whep' = None
      /\ peer' = IF NothingToStop THEN peer ELSE None
      /\ state' = at.source /\ pipe' = at.pipe
      /\ UNCHANGED <<offerSent, clients, faults>>
  <2>1. Due("delete source") /\ events' = es \o StopEvents(goodbye)
    BY DEF OnDeleteSource
  <2>2. state' = at.source /\ pipe' = at.pipe
    BY DEF OnDeleteSource, Becomes
  <2>3. /\ life' = "deleted" /\ whep' = None
        /\ peer' = IF NothingToStop THEN peer ELSE None
        /\ UNCHANGED <<offerSent, clients, faults>>
    BY DEF OnDeleteSource
  <2> QED
    BY <2>1, <2>2, <2>3
<1>2. /\ offerSent \in BOOLEAN /\ faults \in 0 .. MaxFaults
      /\ life = "started" <=> whep # None
      /\ InOrder(events, whep, clients) /\ None \notin Clients
  BY WhepParts, WhepAssumption
<1>3. events # <<>> /\ Head(events).kind = "delete source"
  BY <1>1, WhepDue
<1>4. DeletesSource(Head(events)) /\ \A c \in Clients : ~ Deletes(Head(events), c)
  BY <1>3 DEF Deletes, DeletesSource
<1>5. whep = None /\ \A c \in Clients : clients[c] = None
  <2>1. events # <<>>
    BY <1>3
  <2> QED
    BY <1>2, <1>4, <2>1, QueueDeletesSource
<1>6. InOrder(Tail(events), None, clients)
  BY <1>2, <1>3, <1>4, <1>5, QueueTail
<1>7. \A e \in gathered, c \in Clients : ~ Deletes(e, c)
  <2> DEFINE e == Event("gathered", None, None)
  <2>1. e.kind = "gathered"
    BY DEF Event
  <2> HIDE DEF e
  <2>2. \A c \in Clients : ~ Deletes(e, c)
    BY <2>1 DEF Deletes
  <2> QED
    BY <2>2 DEF e
<1> HIDE DEF gathered
<1>8. InOrder(es, None, clients)
  BY <1>6, <1>7, QueueWithout
<1> HIDE DEF es
<1>9. InOrder(events', whep', clients')
  BY <1>1, <1>5, <1>8, QueueStopsAgain
<1>10. Fits(at)
  BY StoppedFits
<1> HIDE DEF at
<1>11. state' \in SourceStates /\ pipe' \in Pipe
  BY <1>1, <1>10 DEF Fits
<1>12. pipe'.timer = FALSE
  BY <1>1, <1>2, <1>5, <1>10 DEF Fits, running
<1>13. peer' = None
  BY <1>1 DEF NothingToStop
<1>14. WhepInv'
  BY <1>1, <1>2, <1>5, <1>9, <1>11, <1>12, <1>13, WhepPartsSuffice DEF Lives
<1>15. GivenUp = {} /\ GivenUp' = {}
  BY <1>1, <1>5 DEF GivenUp
<1>16. life \in {"stopped", "deleted"}
  <2>1. life # "crashed"
    BY <1>1 DEF Due
  <2>2. life # "new" /\ life \in Lives
    BY <1>1, WhepDue, WhepParts
  <2> QED
    BY <1>2, <1>5, <2>1, <2>2 DEF Lives
<1>17. CASE life = "stopped"
  <2>1. Pool!End
    BY <1>1, <1>5, <1>15, <1>17 DEF Pool!End
  <2> QED
    BY <1>14, <2>1 DEF Pool!Next
<1>18. CASE life = "deleted"
  <2>1. UNCHANGED Pool!vars
    BY <1>1, <1>5, <1>15, <1>18 DEF Pool!vars
  <2> QED
    BY <1>14, <2>1
<1> QED
  BY <1>16, <1>17, <1>18

LEMMA WhepUnchanged ==
    ASSUME WhepInv, UNCHANGED whepVars
    PROVE  WhepInv' /\ UNCHANGED Pool!vars
<1>1. UNCHANGED <<life, pipe, state, whep, offerSent, peer, clients, events, faults>>
  BY DEF whepVars, source
<1>2. WhepTypeOK'
  BY <1>1 DEF WhepInv, WhepTypeOK
<1>3. WhepInv'
  BY <1>1, <1>2 DEF WhepInv, running
<1>4. UNCHANGED Pool!vars
  BY <1>1, PoolStays
<1> QED
  BY <1>3, <1>4

LEMMA WhepHandle ==
    ASSUME WhepInv, Handle
    PROVE  WhepInv' /\ [Pool!Next]_(Pool!vars)
<1>1. CASE OnState \/ OnLocalDescriptionReady
  BY <1>1, WhepOnState, WhepOnLocalDescriptionReady
<1>2. CASE OffersToNobody \/ OnPost
  BY <1>2, WhepOffersToNobody, WhepOnPost
<1>3. CASE OnDeleteClient
  BY <1>3, WhepOnDeleteClient
<1>4. CASE \E goodbye \in Goodbyes :
              \/ BeginNegotiation(goodbye) \/ NegotiationFails(goodbye)
              \/ OnDeleteSource(goodbye)
  BY <1>4, WhepBeginNegotiation, WhepNegotiationFails, WhepOnDeleteSource
<1> QED
  BY <1>1, <1>2, <1>3, <1>4 DEF Handle

LEMMA WhepStep ==
    ASSUME WhepInv, [WhepNext]_whepVars
    PROVE  WhepInv' /\ [Pool!Next]_(Pool!vars)
<1>1. CASE Handle
  BY <1>1, WhepHandle
<1>2. CASE Start
  BY <1>2, WhepStart
<1>3. CASE \E goodbye \in Goodbyes : TimerFires(goodbye) \/ Stop(goodbye)
  BY <1>3, WhepTimerFires, WhepStop
<1>4. CASE \E c \in Clients :
              OptionsEnd(c) \/ \E result \in Results : PostEnds(c, result)
  BY <1>4, WhepOptionsEnd, WhepPostEnds
<1>5. CASE Gathers \/ Connects \/ Disconnects \/ GivesUp
  BY <1>5, WhepGathers, WhepConnects, WhepDisconnects, WhepGivesUp
<1>6. CASE UNCHANGED whepVars
  BY <1>6, WhepUnchanged
<1> QED
  BY <1>1, <1>2, <1>3, <1>4, <1>5, <1>6 DEF WhepNext, Rests

LEMMA WhepInvariant ==
    WhepSpec => []WhepInv
BY WhepInitially, WhepStep, PTL DEF WhepSpec

\* The variables of a WHEP stream keep their types, and the client of the source has not been
\* deleted (WebRTCSource, m_whep).
THEOREM WhepTypeCorrect ==
    WhepSpec => []WhepTypeOK
<1>1. WhepInv => WhepTypeOK
  BY DEF WhepInv
<1> QED
  BY <1>1, WhepInvariant, PTL

\* The source uses its clients as ClientPool says (WebRtcSource, m_whep and deleteLater): each
\* step of a WHEP stream is a step of the pool, or none.
THEOREM SourceImplementsPool == WhepSpec => ImplementsClientPool
<1>1. WhepInit => Pool!Init
  <2> SUFFICES ASSUME WhepInit PROVE Pool!Init
    OBVIOUS
  <2>1. life = "new" /\ whep = None /\ clients = [c \in Clients |-> None]
    BY DEF WhepInit
  <2>2. GivenUp = {}
    BY <2>1 DEF GivenUp
  <2> QED
    BY <2>1, <2>2 DEF Pool!Init
<1>2. WhepInv /\ [WhepNext]_whepVars => [Pool!Next]_(Pool!vars)
  BY WhepStep
<1> QED
  BY <1>1, <1>2, WhepInvariant, PTL DEF WhepSpec, ImplementsClientPool, Pool!Spec

\* Every client of a source but the one in use has its deletion posted, once, and in front
\* of that of the source: none is left behind and none is deleted twice, however a stop, a
\* retry and late replies meet (WebRtcSource::stop, deleteLater of the client).
THEOREM EveryClientGoes ==
    WhepSpec => []InOrder(events, whep, clients)
<1>1. WhepInv => InOrder(events, whep, clients)
  BY DEF WhepInv
<1> QED
  BY <1>1, WhepInvariant, PTL

\* Nothing survives a stop: no timer of a stopped pipeline runs, a deleted source has neither
\* a peer connection nor a client, and no client is left anywhere once it has been deleted
\* (StreamPipeline::stop, the destructor of WebRTCSource).
THEOREM StopLeavesNothing ==
    WhepSpec => []NothingSurvivesStop
<1>1. WhepInv => NothingSurvivesStop
  BY DEF WhepInv, NothingSurvivesStop, running
<1> QED
  BY <1>1, WhepInvariant, PTL

=============================================================================
