------------------------ MODULE DBusRemoteAgentProofs ------------------------
(***************************************************************************)
(* Proofs about DBusRemoteAgent: for any number of users, daemons, calling *)
(* threads, announcements and starts of the helper.                        *)
(***************************************************************************)
EXTENDS DBusRemoteAgent, SequenceTheorems, TLAPS

\* Only a helper with its handlers installed has agents registered, for their
\* own users, and calls are under way only to one that is there.
RegistryOK ==
    /\ helper # "ready" => \A u \in Uids : registry[u] = Null
    /\ helper = "gone" => \A d \in Daemons : inbox[d] = <<>>
    /\ \A u \in Uids : registry[u] # Null => UserOf[registry[u].daemon] = u

\* Stub::send: an agent is the one of the user, and an answer its.
CallersOK ==
    \A c \in Callers :
        /\ pc[c] \in {"known", "asking"} => uid[c] \in Uids /\ by[c] = Null
        /\ agent[c] # Null => pc[c] = "asking" /\ UserOf[agent[c].daemon] = uid[c]
        /\ by[c] # Null => UserOf[by[c]] = uid[c]

BaseInv == TypeOK /\ RegistryOK /\ CallersOK

\* The notices that answer an announcement, those that tell of success, and
\* those that answer the call to unregister.
IsResult(n) == n.type = "result" /\ n.path # Null

IsSuccess(n) == IsResult(n) /\ ~n.error

IsUnregistered(n) == n.type = "result" /\ n.path = Null

\* Of the calls q under way from a daemon and the notices n under way to it:
\* every announcement has a path of its own and at most one reply.
Once(q, n) ==
    /\ \A i, j \in DOMAIN q : q[i] = q[j] /\ q[i] # Null => i = j
    /\ \A i, j \in DOMAIN n : IsResult(n[i]) /\ IsResult(n[j]) => (n[i].path = n[j].path => i = j)
    /\ \A i \in DOMAIN q, j \in DOMAIN n : IsResult(n[j]) => q[i] # n[j].path

\* Their paths are below k.
Counted(q, n, k) ==
    /\ \A i \in DOMAIN q : q[i] # Null => q[i] < k
    /\ \A i \in DOMAIN n : IsResult(n[i]) => n[i].path < k

\* None of them is about unregistering.
Stays(q, n) ==
    /\ \A i \in DOMAIN q : q[i] # Null
    /\ \A i \in DOMAIN n : ~IsUnregistered(n[i])

\* The last call is the one to unregister.
LastCall(q) ==
    /\ q # <<>> /\ q[Len(q)] = Null
    /\ \A i \in DOMAIN q : q[i] = Null => i = Len(q)

\* Path p is the one whose success the daemon will hear of last, or, once it has
\* heard of all of them, its current one.
Kept(q, n, pend, cur, p) ==
    /\ \A i \in DOMAIN q : q[i] # p
    /\ \A i \in DOMAIN n : IsResult(n[i]) /\ n[i].path = p => IsSuccess(n[i])
    /\ \/ /\ p \in pend
          /\ \E i \in DOMAIN n : /\ IsSuccess(n[i]) /\ n[i].path = p
                                 /\ \A j \in DOMAIN n : IsSuccess(n[j]) => j <= i
       \/ /\ p = cur
          /\ \A j \in DOMAIN n : ~IsSuccess(n[j])

\* The helper's registry leads to d.
Leads(d) == registry[UserOf[d]] # Null /\ registry[UserOf[d]].daemon = d

\* Nothing of d is registered nor will be.
Out(d) == inbox[d] = <<>> /\ ~Leads(d)

\* Before a daemon starts, and before it withdraws.
Fresh(d) ==
    /\ phase[d] = "new" => inbox[d] = <<>> /\ notices[d] = <<>> /\ ~Leads(d)
    /\ leaving[d] # "no" => Live(d)
    /\ leaving[d] = "no" => Stays(inbox[d], notices[d])

\* A skeleton is held while its announcement is under way.
Held(d) == d \notin late => \A i \in DOMAIN inbox[d] : inbox[d][i] # Null => inbox[d][i] \in pending[d]

Registration(d) ==
    Leads(d) =>
        /\ registry[UserOf[d]].path < counter[d]
        /\ Live(d) /\ d \notin late =>
              Kept(inbox[d], notices[d], pending[d], current[d], registry[UserOf[d]].path)

\* The call to unregister is the last of the daemon's, and what it is told of it
\* comes after it was carried out or refused.
Leaves(d) ==
    leaving[d] # "no" /\ d \notin late =>
        /\ Out(d) \/ (leaving[d] = "called" /\ LastCall(inbox[d]))
        /\ \A i \in DOMAIN notices[d] : IsUnregistered(notices[d][i]) => Out(d)

DaemonOK(d) ==
    /\ phase[d] = "gone" => leaving[d] = "no"
    /\ phase[d] # "gone" =>
          /\ Once(inbox[d], notices[d]) /\ Counted(inbox[d], notices[d], counter[d])
          /\ Fresh(d) /\ Held(d) /\ Registration(d) /\ Leaves(d)

Inv == BaseInv /\ \A d \in Daemons : DaemonOK(d)

-----------------------------------------------------------------------------
(* Paths, notices and sequences.                                           *)

LEMMA Constants ==
    /\ MaxPaths \in Nat /\ MaxRuns \in Nat
    /\ \A d \in Daemons : UserOf[d] \in Uids
    /\ Null \notin Uids /\ Null \notin Daemons /\ Null \notin Paths /\ Null \notin Address
    /\ Paths \subseteq Nat
BY DBusAssumption DEF Paths

LEMMA Notices ==
    /\ Registered \in Notice /\ Registered.type # "result"
    /\ \A p \in Paths \cup {Null}, e \in BOOLEAN :
          /\ Result(p, e) \in Notice /\ Result(p, e).type = "result"
          /\ Result(p, e).path = p /\ Result(p, e).error = e
    /\ \A n \in Notice : n.type = "result" => n.path \in Paths \cup {Null} /\ n.error \in BOOLEAN
<1>1. Registered \in Notice /\ Registered.type # "result"
  BY DEF Registered, Notice
<1>2. ASSUME NEW p \in Paths \cup {Null}, NEW e \in BOOLEAN
      PROVE  /\ Result(p, e) \in Notice /\ Result(p, e).type = "result"
             /\ Result(p, e).path = p /\ Result(p, e).error = e
  BY DEF Result, Notice
<1>3. ASSUME NEW n \in Notice, n.type = "result"
      PROVE  n.path \in Paths \cup {Null} /\ n.error \in BOOLEAN
  <2>1. n # Registered
    BY <1>1, <1>3
  <2>2. PICK p \in Paths \cup {Null}, e \in BOOLEAN : n = Result(p, e)
    BY <2>1 DEF Notice
  <2> QED
    BY <1>2, <2>2
<1> QED
  BY <1>1, <1>2, <1>3

LEMMA Elements ==
    ASSUME NEW S, NEW s \in Seq(S)
    PROVE  Len(s) \in Nat /\ DOMAIN s = 1..Len(s) /\ \A i \in DOMAIN s : s[i] \in S
BY ElementOfSeq, LenProperties

LEMMA Appended ==
    ASSUME NEW S, NEW s \in Seq(S), NEW x \in S
    PROVE  /\ Append(s, x) \in Seq(S) /\ Append(s, x) # <<>>
           /\ Len(Append(s, x)) = Len(s) + 1 /\ Append(s, x)[Len(s) + 1] = x
           /\ Len(s) + 1 \in DOMAIN Append(s, x) /\ Len(s) + 1 \notin DOMAIN s
           /\ \A i \in DOMAIN s : i \in DOMAIN Append(s, x) /\ Append(s, x)[i] = s[i] /\ i <= Len(s) + 1
           /\ \A i \in DOMAIN Append(s, x) : i \in DOMAIN s \/ i = Len(s) + 1
<1>1. /\ Append(s, x) \in Seq(S) /\ Len(Append(s, x)) = Len(s) + 1 /\ Append(s, x)[Len(s) + 1] = x
      /\ \A i \in 1..Len(s) : Append(s, x)[i] = s[i]
  BY AppendProperties
<1>2. DOMAIN Append(s, x) = 1..Len(s) + 1 /\ DOMAIN s = 1..Len(s) /\ Len(s) \in Nat
  BY <1>1, LenProperties
<1>3. Append(s, x) # <<>>
  BY <1>1, <1>2, EmptySeq
<1> QED
  BY <1>1, <1>2, <1>3

LEMMA Tails ==
    ASSUME NEW S, NEW s \in Seq(S), s # <<>>
    PROVE  /\ Tail(s) \in Seq(S) /\ Head(s) \in S /\ Head(s) = s[1] /\ 1 \in DOMAIN s
           /\ Len(Tail(s)) = Len(s) - 1 /\ Len(s) \in Nat \ {0}
           /\ \A i \in DOMAIN Tail(s) :
                 i \in Nat /\ i + 1 # 1 /\ i + 1 \in DOMAIN s /\ Tail(s)[i] = s[i + 1]
           /\ \A i \in DOMAIN s : i # 1 => i - 1 \in DOMAIN Tail(s) /\ Tail(s)[i - 1] = s[i]
<1>1. /\ Tail(s) \in Seq(S) /\ Head(s) = s[1] /\ Len(Tail(s)) = Len(s) - 1
      /\ \A i \in 1..Len(s) - 1 : Tail(s)[i] = s[i + 1]
  BY HeadTailProperties
<1>2. DOMAIN Tail(s) = 1..Len(s) - 1 /\ DOMAIN s = 1..Len(s) /\ Len(s) \in Nat /\ Len(s) # 0
  BY <1>1, LenProperties, EmptySeq
<1>3. 1 \in DOMAIN s /\ s[1] \in S
  BY <1>2, ElementOfSeq
<1> QED
  BY <1>1, <1>2, <1>3

Queue == Seq(Paths \cup {Null})

\* Notices that go, and a notice that the helper is there.
LEMMA OnceNotice ==
    ASSUME NEW q \in Queue, NEW n \in Seq(Notice), Once(q, n)
    PROVE  /\ n # <<>> => Once(q, Tail(n))
           /\ Once(q, Append(n, Registered))
<1>1. ASSUME n # <<>> PROVE Once(q, Tail(n))
  <2>1. \A i \in DOMAIN Tail(n) : i \in Nat /\ i + 1 \in DOMAIN n /\ Tail(n)[i] = n[i + 1]
    BY <1>1, Tails
  <2>2. ASSUME NEW i \in DOMAIN Tail(n), NEW j \in DOMAIN Tail(n),
               IsResult(Tail(n)[i]), IsResult(Tail(n)[j]), Tail(n)[i].path = Tail(n)[j].path
        PROVE  i = j
    <3>1. i + 1 = j + 1 /\ i \in Nat /\ j \in Nat
      BY <2>1, <2>2 DEF Once
    <3> QED
      BY <3>1
  <2> QED
    BY <2>1, <2>2 DEF Once
<1>2. Once(q, Append(n, Registered))
  <2>1. ~IsResult(Registered)
    BY Notices DEF IsResult
  <2> QED
    BY <2>1, Notices, Appended DEF Once
<1> QED
  BY <1>1, <1>2

\* A call to the helper: the new path is above all others; Null is none.
LEMMA OnceCall ==
    ASSUME NEW q \in Queue, NEW n \in Seq(Notice), NEW k \in Nat, NEW p \in Paths \cup {Null},
           Once(q, n), Counted(q, n, k), p = k \/ p = Null
    PROVE  /\ Once(Append(q, p), n)
           /\ Once(q, Append(n, Result(p, TRUE)))
<1>1. Result(p, TRUE) \in Notice /\ Result(p, TRUE).path = p
  BY Notices
<1>2. \A i \in DOMAIN q : q[i] # Null => q[i] # p
  BY Elements, Constants DEF Counted, Queue
<1>3. \A i \in DOMAIN n : IsResult(n[i]) => n[i].path # p
  BY Constants DEF Counted, IsResult
<1>4. Once(Append(q, p), n)
  <2>1. /\ Append(q, p)[Len(q) + 1] = p /\ Len(q) + 1 \in DOMAIN Append(q, p)
        /\ \A i \in DOMAIN Append(q, p) : (i \in DOMAIN q /\ Append(q, p)[i] = q[i]) \/ i = Len(q) + 1
    BY Appended DEF Queue
  <2> QED
    BY <1>2, <1>3, <2>1 DEF Once, IsResult
<1>5. Once(q, Append(n, Result(p, TRUE)))
  <2> DEFINE m == Append(n, Result(p, TRUE))
  <2>1. PICK r \in Notice : r = Result(p, TRUE) /\ r.path = p
    BY <1>1
  <2>2. /\ Append(n, r)[Len(n) + 1] = r
        /\ \A i \in DOMAIN Append(n, r) : (i \in DOMAIN n /\ Append(n, r)[i] = n[i]) \/ i = Len(n) + 1
    BY Appended
  <2>3. /\ m[Len(n) + 1].path = p
        /\ \A i \in DOMAIN m : (i \in DOMAIN n /\ m[i] = n[i]) \/ i = Len(n) + 1
    BY <2>1, <2>2
  <2> HIDE DEF m
  <2>4. Once(q, m)
    BY <1>2, <1>3, <2>3 DEF Once, IsResult
  <2> QED
    BY <2>4 DEF m
<1> QED
  BY <1>4, <1>5

\* The helper takes up a call, with or without a reply.
LEMMA OnceReceive ==
    ASSUME NEW q \in Queue, NEW n \in Seq(Notice), NEW e \in BOOLEAN, Once(q, n), q # <<>>
    PROVE  /\ Once(Tail(q), n)
           /\ Once(Tail(q), Append(n, Result(Head(q), e)))
<1>1. /\ Head(q) \in Paths \cup {Null} /\ Head(q) = q[1] /\ 1 \in DOMAIN q
      /\ \A i \in DOMAIN Tail(q) : i \in Nat /\ i + 1 # 1 /\ i + 1 \in DOMAIN q /\ Tail(q)[i] = q[i + 1]
  BY Tails DEF Queue
<1>2. \A i \in DOMAIN Tail(q) : Tail(q)[i] # Null => Tail(q)[i] # Head(q)
  BY <1>1 DEF Once
<1>3. \A i, j \in DOMAIN Tail(q) : Tail(q)[i] = Tail(q)[j] /\ Tail(q)[i] # Null => i = j
  <2> SUFFICES ASSUME NEW i \in DOMAIN Tail(q), NEW j \in DOMAIN Tail(q),
                      Tail(q)[i] = Tail(q)[j], Tail(q)[i] # Null
               PROVE  i = j
    OBVIOUS
  <2>1. i + 1 = j + 1 /\ i \in Nat /\ j \in Nat
    BY <1>1 DEF Once
  <2> QED
    BY <2>1
<1>4. Once(Tail(q), n)
  BY <1>1, <1>3 DEF Once
<1>5. Once(Tail(q), Append(n, Result(Head(q), e)))
  <2> DEFINE m == Append(n, Result(Head(q), e))
  <2>1. PICK r \in Notice : r = Result(Head(q), e) /\ r.path = Head(q)
    BY <1>1, Notices
  <2>2. m = Append(n, r)
    BY <2>1
  <2> HIDE DEF m
  <2>3. /\ m[Len(n) + 1].path = Head(q)
        /\ \A i \in DOMAIN m : (i \in DOMAIN n /\ m[i] = n[i]) \/ i = Len(n) + 1
    BY <2>1, <2>2, Appended
  <2>4. \A j \in DOMAIN n : IsResult(n[j]) => n[j].path # Head(q)
    BY <1>1 DEF Once
  <2>5. Once(Tail(q), m)
    BY <1>2, <1>4, <2>3, <2>4 DEF Once, IsResult
  <2> QED
    BY <2>5 DEF m
<1> QED
  BY <1>4, <1>5

\* The errors that come instead of replies when the helper ends.
Errors(q) == [i \in 1..Len(q) |-> Result(q[i], TRUE)]

LEMMA ErrorsAfter ==
    ASSUME NEW q \in Queue, NEW n \in Seq(Notice)
    PROVE  /\ n \o Errors(q) \in Seq(Notice)
           /\ \A i \in DOMAIN (n \o Errors(q)) :
                 \/ i \in DOMAIN n /\ (n \o Errors(q))[i] = n[i]
                 \/ /\ i - Len(n) \in DOMAIN q /\ i \in Nat
                    /\ (n \o Errors(q))[i].path = q[i - Len(n)] /\ (n \o Errors(q))[i].type = "result"
<1>1. Len(n) \in Nat /\ DOMAIN n = 1..Len(n) /\ Len(q) \in Nat /\ DOMAIN q = 1..Len(q)
  BY Elements DEF Queue
<1>2. \A i \in 1..Len(q) : q[i] \in Paths \cup {Null}
  BY <1>1, Elements DEF Queue
<1>3. /\ Errors(q) \in [1..Len(q) -> Notice]
      /\ \A i \in 1..Len(q) : Errors(q)[i].path = q[i] /\ Errors(q)[i].type = "result"
  BY <1>2, Notices DEF Errors
<1>4. Errors(q) \in Seq(Notice) /\ Len(Errors(q)) = Len(q)
  <2>1. Errors(q) \in Seq(Notice)
    BY <1>1, <1>3, SeqDef
  <2>2. DOMAIN Errors(q) = 1..Len(q)
    BY DEF Errors
  <2> QED
    BY <1>1, <2>1, <2>2, LenProperties
<1>5. /\ n \o Errors(q) \in Seq(Notice) /\ Len(n \o Errors(q)) = Len(n) + Len(q)
      /\ \A i \in 1..Len(n) + Len(q) :
            (n \o Errors(q))[i] = IF i <= Len(n) THEN n[i] ELSE Errors(q)[i - Len(n)]
  <2>1. PICK z \in Seq(Notice) : z = Errors(q)
    BY <1>4
  <2>2. /\ n \o z \in Seq(Notice) /\ Len(n \o z) = Len(n) + Len(z)
        /\ \A i \in 1..Len(n) + Len(z) : (n \o z)[i] = IF i <= Len(n) THEN n[i] ELSE z[i - Len(n)]
    BY ConcatProperties
  <2> QED
    BY <1>4, <2>1, <2>2
<1>6. DOMAIN (n \o Errors(q)) = 1..Len(n) + Len(q)
  BY <1>5, LenProperties
<1> QED
  BY <1>1, <1>3, <1>5, <1>6

LEMMA OnceErrors ==
    ASSUME NEW q \in Queue, NEW n \in Seq(Notice), Once(q, n)
    PROVE  Once(<<>>, n \o Errors(q))
<1> DEFINE m == n \o Errors(q)
<1>1. /\ \A i \in DOMAIN m :
           \/ i \in DOMAIN n /\ m[i] = n[i]
           \/ i - Len(n) \in DOMAIN q /\ i \in Nat /\ m[i].path = q[i - Len(n)]
  BY ErrorsAfter
<1>2. Len(n) \in Nat
  BY Elements
<1> HIDE DEF m
<1>3. ASSUME NEW i \in DOMAIN m, NEW j \in DOMAIN m,
             IsResult(m[i]), IsResult(m[j]), m[i].path = m[j].path
      PROVE  i = j
  <2>1. CASE i \in DOMAIN n /\ m[i] = n[i] /\ j \in DOMAIN n /\ m[j] = n[j]
    BY <1>3, <2>1 DEF Once
  <2>2. CASE i \in DOMAIN n /\ m[i] = n[i] /\ j - Len(n) \in DOMAIN q /\ m[j].path = q[j - Len(n)]
    BY <1>3, <2>2 DEF Once
  <2>3. CASE j \in DOMAIN n /\ m[j] = n[j] /\ i - Len(n) \in DOMAIN q /\ m[i].path = q[i - Len(n)]
    BY <1>3, <2>3 DEF Once
  <2>4. CASE /\ j - Len(n) \in DOMAIN q /\ m[j].path = q[j - Len(n)] /\ i \in Nat
             /\ i - Len(n) \in DOMAIN q /\ m[i].path = q[i - Len(n)] /\ j \in Nat
    <3>1. i - Len(n) = j - Len(n)
      BY <1>3, <2>4 DEF Once, IsResult
    <3> QED
      BY <1>2, <2>4, <3>1
  <2> QED
    BY <1>1, <2>1, <2>2, <2>3, <2>4
<1>4. DOMAIN <<>> = {}
  BY EmptySeq
<1>5. Once(<<>>, m)
  BY <1>3, <1>4 DEF Once
<1> QED
  BY <1>5 DEF m

-----------------------------------------------------------------------------
(* The calls and the notices of one daemon, step by step.                  *)

\* The calls q2 and the notices n2 are made of q and n, and of calls with a path
\* in P.
From(q, n, P, q2, n2) ==
    /\ \A i \in DOMAIN q2 : q2[i] \in P \/ \E j \in DOMAIN q : q2[i] = q[j]
    /\ \A i \in DOMAIN n2 :
          \/ \E j \in DOMAIN n : n2[i] = n[j]
          \/ n2[i].type # "result"
          \/ n2[i].path \in P
          \/ \E j \in DOMAIN q : n2[i].path = q[j]

LEMMA FromNotice ==
    ASSUME NEW q \in Queue, NEW n \in Seq(Notice)
    PROVE  /\ n # <<>> => From(q, n, {}, q, Tail(n))
           /\ From(q, n, {}, q, Append(n, Registered))
<1>1. ASSUME n # <<>> PROVE From(q, n, {}, q, Tail(n))
  BY <1>1, Tails DEF From
<1>2. From(q, n, {}, q, Append(n, Registered))
  <2>1. PICK r \in Notice : r = Registered /\ r.type # "result"
    BY Notices
  <2>2. From(q, n, {}, q, Append(n, r))
    BY <2>1, Appended DEF From
  <2> QED
    BY <2>1, <2>2
<1> QED
  BY <1>1, <1>2

LEMMA FromCall ==
    ASSUME NEW q \in Queue, NEW n \in Seq(Notice), NEW p \in Paths \cup {Null}
    PROVE  /\ From(q, n, {p}, Append(q, p), n)
           /\ From(q, n, {p}, q, Append(n, Result(p, TRUE)))
<1>1. From(q, n, {p}, Append(q, p), n)
  BY Appended DEF From, Queue
<1>2. PICK r \in Notice : r = Result(p, TRUE) /\ r.path = p
  BY Notices
<1>3. From(q, n, {p}, q, Append(n, r))
  <2>1. \A i \in DOMAIN Append(n, r) : (i \in DOMAIN n /\ Append(n, r)[i] = n[i]) \/ Append(n, r)[i] = r
    BY Appended
  <2> QED
    BY <1>2, <2>1 DEF From
<1> QED
  BY <1>1, <1>2, <1>3

LEMMA FromReceive ==
    ASSUME NEW q \in Queue, NEW n \in Seq(Notice), NEW e \in BOOLEAN, q # <<>>
    PROVE  /\ From(q, n, {}, Tail(q), n)
           /\ From(q, n, {}, Tail(q), Append(n, Result(Head(q), e)))
<1>1. /\ Head(q) \in Paths \cup {Null} /\ Head(q) = q[1] /\ 1 \in DOMAIN q
      /\ \A i \in DOMAIN Tail(q) : i + 1 \in DOMAIN q /\ Tail(q)[i] = q[i + 1]
  BY Tails DEF Queue
<1>2. From(q, n, {}, Tail(q), n)
  BY <1>1 DEF From
<1>3. PICK r \in Notice : r = Result(Head(q), e) /\ r.path = q[1]
  BY <1>1, Notices
<1>4. From(q, n, {}, Tail(q), Append(n, r))
  BY <1>1, <1>3, Appended DEF From
<1> QED
  BY <1>2, <1>3, <1>4

LEMMA FromErrors ==
    ASSUME NEW q \in Queue, NEW n \in Seq(Notice)
    PROVE  From(q, n, {}, <<>>, n \o Errors(q))
BY ErrorsAfter, EmptySeq DEF From

LEMMA FromCounted ==
    ASSUME NEW q \in Queue, NEW n \in Seq(Notice), NEW q2 \in Queue, NEW n2 \in Seq(Notice), NEW P,
           NEW k \in Nat, NEW m \in Nat, k <= m, \A p \in P : p = Null \/ p < m,
           From(q, n, P, q2, n2), Counted(q, n, k)
    PROVE  Counted(q2, n2, m)
<1>1. ASSUME NEW i \in DOMAIN q, q[i] # Null
      PROVE  q[i] < m
  <2>1. q[i] \in Paths \cup {Null}
    BY <1>1, Elements DEF Queue
  <2>2. q[i] \in Nat /\ q[i] < k
    BY <1>1, <2>1, Constants DEF Counted
  <2> QED
    BY <2>2
<1>2. ASSUME NEW i \in DOMAIN n, IsResult(n[i])
      PROVE  n[i].path < m
  <2>1. n[i] \in Notice
    BY Elements
  <2>2. n[i].path \in Nat /\ n[i].path < k
    BY <1>2, <2>1, Notices, Constants DEF IsResult, Counted
  <2> QED
    BY <2>2
<1> QED
  BY <1>1, <1>2 DEF From, Counted, IsResult

LEMMA FromStays ==
    ASSUME NEW q, NEW n, NEW q2, NEW n2, NEW P, Null \notin P, From(q, n, P, q2, n2), Stays(q, n)
    PROVE  Stays(q2, n2)
BY DEF From, Stays, IsUnregistered

\* The call to unregister stays the last one until it is taken up.
LEMMA LastCallAppended ==
    ASSUME NEW q \in Queue, \A i \in DOMAIN q : q[i] # Null
    PROVE  LastCall(Append(q, Null))
BY Appended DEF LastCall, Queue

LEMMA LastCallTaken ==
    ASSUME NEW q \in Queue, LastCall(q)
    PROVE  IF Head(q) = Null THEN Tail(q) = <<>> ELSE LastCall(Tail(q))
<1>1. /\ Tail(q) \in Queue /\ Head(q) = q[1] /\ 1 \in DOMAIN q /\ Len(Tail(q)) = Len(q) - 1
      /\ Len(q) \in Nat \ {0}
      /\ \A i \in DOMAIN Tail(q) : i \in Nat /\ i + 1 \in DOMAIN q /\ Tail(q)[i] = q[i + 1]
  BY Tails DEF Queue, LastCall
<1>2. Len(Tail(q)) \in Nat /\ DOMAIN Tail(q) = 1..Len(Tail(q))
  BY <1>1, Elements DEF Queue
<1>3. CASE Head(q) = Null
  <2>1. Len(Tail(q)) = 0
    BY <1>1, <1>3 DEF LastCall
  <2> QED
    BY <1>1, <1>3, <2>1, EmptySeq DEF Queue
<1>4. CASE Head(q) # Null
  <2>1. Len(q) # 1
    BY <1>1, <1>4 DEF LastCall
  <2>2. Len(Tail(q)) \in DOMAIN Tail(q)
    BY <1>1, <1>2, <2>1
  <2>3. Tail(q)[Len(Tail(q))] = Null
    BY <1>1, <2>2 DEF LastCall
  <2>4. Tail(q) # <<>>
    <3>1. DOMAIN <<>> = {}
      BY EmptySeq
    <3> QED
      BY <2>2, <3>1
  <2>5. ASSUME NEW i \in DOMAIN Tail(q), Tail(q)[i] = Null PROVE i = Len(Tail(q))
    <3>1. i + 1 = Len(q) /\ i \in Nat
      BY <1>1, <2>5 DEF LastCall
    <3>2. Len(Tail(q)) = Len(q) - 1 /\ Len(q) \in Nat
      BY <1>1
    <3> QED
      BY <3>1, <3>2
  <2> QED
    BY <1>4, <2>3, <2>4, <2>5 DEF LastCall
<1> QED
  BY <1>3, <1>4

\* A registered path that is kept stays so: the notice at hand goes, ...
LEMMA KeptNotice ==
    ASSUME NEW q, NEW n \in Seq(Notice), n # <<>>, NEW pend, NEW cur, NEW p,
           Kept(q, n, pend, cur, p), ~IsSuccess(Head(n))
    PROVE  /\ Kept(q, Tail(n), pend, cur, p)
           /\ Head(n).type = "result" /\ p # Null => Kept(q, Tail(n), pend \ {Head(n).path}, cur, p)
<1>1. /\ Head(n) = n[1] /\ 1 \in DOMAIN n
      /\ \A i \in DOMAIN Tail(n) : i \in Nat /\ i + 1 \in DOMAIN n /\ Tail(n)[i] = n[i + 1]
      /\ \A i \in DOMAIN n : i # 1 => i - 1 \in DOMAIN Tail(n) /\ Tail(n)[i - 1] = n[i]
  BY Tails
<1>2. DOMAIN n \subseteq Nat
  BY Elements
<1>3. \A i \in DOMAIN Tail(n) : IsResult(Tail(n)[i]) /\ Tail(n)[i].path = p => IsSuccess(Tail(n)[i])
  BY <1>1 DEF Kept
<1>4. Head(n).type = "result" /\ p # Null => Head(n).path # p
  BY <1>1 DEF Kept, IsResult
<1>5. ASSUME NEW i \in DOMAIN n, IsSuccess(n[i]), n[i].path = p, \A j \in DOMAIN n : IsSuccess(n[j]) => j <= i
      PROVE  \E k \in DOMAIN Tail(n) : /\ IsSuccess(Tail(n)[k]) /\ Tail(n)[k].path = p
                                       /\ \A j \in DOMAIN Tail(n) : IsSuccess(Tail(n)[j]) => j <= k
  <2>1. i # 1
    BY <1>1, <1>5
  <2>2. i - 1 \in DOMAIN Tail(n) /\ Tail(n)[i - 1] = n[i] /\ i \in Nat
    BY <1>1, <1>2, <2>1
  <2>3. ASSUME NEW j \in DOMAIN Tail(n), IsSuccess(Tail(n)[j]) PROVE j <= i - 1
    <3>1. j + 1 <= i /\ j \in Nat
      BY <1>1, <1>5, <2>3
    <3> QED
      BY <2>2, <3>1
  <2> QED
    BY <1>5, <2>2, <2>3
<1>6. (\A j \in DOMAIN n : ~IsSuccess(n[j])) => \A j \in DOMAIN Tail(n) : ~IsSuccess(Tail(n)[j])
  BY <1>1
<1> QED
  BY <1>3, <1>4, <1>5, <1>6 DEF Kept

\* ... the success at hand is taken note of, ...
LEMMA KeptSuccess ==
    ASSUME NEW q, NEW n \in Seq(Notice), n # <<>>, NEW pend, NEW cur, NEW p,
           Once(q, n), Kept(q, n, pend, cur, p), IsSuccess(Head(n))
    PROVE  Kept(q, Tail(n), pend \ {Head(n).path},
                IF Head(n).path \in pend THEN Head(n).path ELSE cur, p)
<1>1. /\ Head(n) = n[1] /\ 1 \in DOMAIN n
      /\ \A i \in DOMAIN Tail(n) : i \in Nat /\ i + 1 # 1 /\ i + 1 \in DOMAIN n /\ Tail(n)[i] = n[i + 1]
      /\ \A i \in DOMAIN n : i # 1 => i - 1 \in DOMAIN Tail(n) /\ Tail(n)[i - 1] = n[i]
  BY Tails
<1>2. DOMAIN n \subseteq Nat
  BY Elements
<1>3. \A i \in DOMAIN Tail(n) : IsResult(Tail(n)[i]) /\ Tail(n)[i].path = p => IsSuccess(Tail(n)[i])
  BY <1>1 DEF Kept
<1>4. p \in pend
  BY <1>1 DEF Kept
<1>5. PICK i \in DOMAIN n : /\ IsSuccess(n[i]) /\ n[i].path = p
                            /\ \A j \in DOMAIN n : IsSuccess(n[j]) => j <= i
  BY <1>1 DEF Kept
<1>6. \A j \in DOMAIN Tail(n) : IsSuccess(Tail(n)[j]) => j + 1 <= i /\ j \in Nat
  BY <1>1, <1>5
<1>7. CASE i = 1
  <2>1. \A j \in DOMAIN Tail(n) : ~IsSuccess(Tail(n)[j])
    <3> SUFFICES ASSUME NEW j \in DOMAIN Tail(n), IsSuccess(Tail(n)[j]) PROVE FALSE
      OBVIOUS
    <3>1. j + 1 <= 1 /\ j \in Nat /\ j + 1 # 1
      BY <1>1, <1>6, <1>7
    <3> QED
      BY <3>1
  <2>2. Head(n).path = p
    BY <1>1, <1>5, <1>7
  <2> QED
    BY <1>3, <1>4, <2>1, <2>2 DEF Kept
<1>8. CASE i # 1
  <2>1. i - 1 \in DOMAIN Tail(n) /\ Tail(n)[i - 1] = n[i] /\ i \in Nat
    BY <1>1, <1>2, <1>8
  <2>2. Head(n).path # p
    BY <1>1, <1>5, <1>8 DEF Once, IsSuccess
  <2>3. \A j \in DOMAIN Tail(n) : IsSuccess(Tail(n)[j]) => j <= i - 1
    <3> SUFFICES ASSUME NEW j \in DOMAIN Tail(n), IsSuccess(Tail(n)[j]) PROVE j <= i - 1
      OBVIOUS
    <3>1. j + 1 <= i /\ j \in Nat
      BY <1>6
    <3> QED
      BY <2>1, <3>1
  <2> QED
    BY <1>3, <1>4, <1>5, <2>1, <2>2, <2>3 DEF Kept
<1> QED
  BY <1>7, <1>8

\* ... another call is made, ...
LEMMA KeptCall ==
    ASSUME NEW q \in Queue, NEW n \in Seq(Notice), NEW pend, NEW more, NEW cur, NEW p,
           NEW x \in Paths \cup {Null}, x # p, Kept(q, n, pend, cur, p)
    PROVE  Kept(Append(q, x), n, pend \cup more, cur, p)
<1>1. \A i \in DOMAIN Append(q, x) : (i \in DOMAIN q /\ Append(q, x)[i] = q[i]) \/ Append(q, x)[i] = x
  BY Appended DEF Queue
<1> QED
  BY <1>1 DEF Kept

\* ... and a path whose announcement succeeds is kept from then on.
LEMMA KeptRegister ==
    ASSUME NEW q \in Queue, NEW n \in Seq(Notice), NEW pend, NEW cur,
           q # <<>>, Head(q) # Null, Head(q) \in pend, Once(q, n)
    PROVE  Kept(Tail(q), Append(n, Result(Head(q), FALSE)), pend, cur, Head(q))
<1>1. /\ Head(q) \in Paths \cup {Null} /\ Head(q) = q[1] /\ 1 \in DOMAIN q
      /\ \A i \in DOMAIN Tail(q) : i + 1 # 1 /\ i + 1 \in DOMAIN q /\ Tail(q)[i] = q[i + 1]
  BY Tails DEF Queue
<1>2. \A i \in DOMAIN Tail(q) : Tail(q)[i] # Head(q)
  BY <1>1 DEF Once
<1>3. \A j \in DOMAIN n : IsResult(n[j]) => n[j].path # Head(q)
  BY <1>1 DEF Once
<1>4. PICK r \in Notice : r = Result(Head(q), FALSE) /\ IsSuccess(r) /\ r.path = Head(q)
  BY <1>1, Notices DEF IsSuccess, IsResult
<1> DEFINE m == Append(n, r)
<1>5. /\ Len(n) + 1 \in DOMAIN m /\ m[Len(n) + 1] = r
      /\ \A i \in DOMAIN m : (i \in DOMAIN n /\ m[i] = n[i]) \/ i = Len(n) + 1
      /\ \A i \in DOMAIN n : i <= Len(n) + 1
      /\ Len(n) + 1 <= Len(n) + 1
  BY Appended, Elements
<1> HIDE DEF m
<1>6. Kept(Tail(q), m, pend, cur, Head(q))
  BY <1>2, <1>3, <1>4, <1>5 DEF Kept
<1> QED
  BY <1>4, <1>6 DEF m

-----------------------------------------------------------------------------
(* Types, the registry and the callers.                                    *)

LEMMA BaseInit == Init => BaseInv
<1> SUFFICES ASSUME Init PROVE BaseInv
  OBVIOUS
<1>1. inbox \in [Daemons -> Queue] /\ notices \in [Daemons -> Seq(Notice)]
  BY EmptySeq DEF Init, Queue
<1>2. runs \in 0..MaxRuns /\ counter \in [Daemons -> 0..MaxPaths]
  BY Constants DEF Init
<1>3. TypeOK
  BY <1>1, <1>2 DEF Init, TypeOK, Queue
<1>4. RegistryOK /\ CallersOK
  BY DEF Init, RegistryOK, CallersOK
<1> QED
  BY <1>3, <1>4 DEF BaseInv

\* A call of daemon d, and what the helper or the bus tells daemon d.
LEMMA Called ==
    ASSUME TypeOK, NEW d \in Daemons, NEW p \in Paths \cup {Null}, NEW left \in Seq(Notice),
           Call(d, p, left)
    PROVE  /\ inbox' \in [Daemons -> Queue] /\ notices' \in [Daemons -> Seq(Notice)]
           /\ \A e \in Daemons \ {d} : inbox'[e] = inbox[e] /\ notices'[e] = notices[e]
           /\ \/ helper = "gone" /\ inbox' = inbox /\ notices'[d] = Append(left, Result(p, TRUE))
              \/ helper # "gone" /\ inbox'[d] = Append(inbox[d], p) /\ notices'[d] = left
<1>1. inbox \in [Daemons -> Queue] /\ notices \in [Daemons -> Seq(Notice)]
  BY DEF TypeOK, Queue
<1>2. CASE helper = "gone"
  <2>1. PICK r \in Notice : r = Result(p, TRUE)
    BY Notices
  <2>2. Append(left, r) \in Seq(Notice)
    BY Appended
  <2>3. notices' = [notices EXCEPT ![d] = Append(left, r)] /\ inbox' = inbox
    BY <1>2, <2>1 DEF Call
  <2> QED
    BY <1>1, <1>2, <2>1, <2>2, <2>3
<1>3. CASE helper # "gone"
  <2>1. Append(inbox[d], p) \in Queue
    BY <1>1, Appended DEF Queue
  <2>2. inbox' = [inbox EXCEPT ![d] = Append(inbox[d], p)] /\ notices' = [notices EXCEPT ![d] = left]
    BY <1>3 DEF Call
  <2> QED
    BY <1>1, <1>3, <2>1, <2>2
<1> QED
  BY <1>2, <1>3

LEMMA Told ==
    ASSUME TypeOK, NEW d \in Daemons, NEW p \in Paths \cup {Null}, NEW e \in BOOLEAN,
           notices' = Answered(d, p, e)
    PROVE  /\ notices' \in [Daemons -> Seq(Notice)]
           /\ \A f \in Daemons \ {d} : notices'[f] = notices[f]
           /\ notices'[d] = IF Live(d) THEN Append(notices[d], Result(p, e)) ELSE notices[d]
<1>1. PICK r \in Notice : r = Result(p, e)
  BY Notices
<1>2. notices \in [Daemons -> Seq(Notice)]
  BY DEF TypeOK
<1>3. Append(notices[d], r) \in Seq(Notice)
  BY <1>2, Appended
<1> QED
  BY <1>1, <1>2, <1>3 DEF Answered

\* The steps of a daemon.
DaemonStep(d) ==
    \/ Create(d) \/ Start(d) \/ Watch(d) \/ GoesUnnoticed(d)
    \/ OnServiceRegistered(d) \/ OnResult(d) \/ End(d)
    \/ Withdraw(d) \/ WithdrawTimesOut(d) \/ Withdrawn(d)
    \/ \E p \in Paths : AnnouncementTimesOut(d, p)

\* An announcement, after the notices `left`.
LEMMA Announced ==
    ASSUME TypeOK, NEW d \in Daemons, NEW left \in Seq(Notice), Announce(d, left)
    PROVE  /\ counter[d] \in Paths /\ counter' = [counter EXCEPT ![d] = counter[d] + 1]
           /\ counter' \in [Daemons -> 0..MaxPaths] /\ counter'[d] = counter[d] + 1
           /\ pending' = [pending EXCEPT ![d] = pending[d] \cup {counter[d]}]
           /\ pending' \in [Daemons -> SUBSET Paths]
           /\ Call(d, counter[d], left)
           /\ late' = IF leaving[d] = "no" THEN late ELSE late \cup {d}
           /\ late' \subseteq Daemons /\ missed' \subseteq Daemons
           /\ UNCHANGED <<helper, runs, registry, leaving, caller>>
<1>1. counter \in [Daemons -> 0..MaxPaths] /\ counter[d] < MaxPaths /\ MaxPaths \in Nat
  BY Constants DEF TypeOK, Announce
<1>2. counter[d] \in Paths /\ counter[d] + 1 \in 0..MaxPaths
  BY <1>1 DEF Paths
<1> QED
  BY <1>1, <1>2 DEF Announce, TypeOK

\* The notice at hand.
LEMMA HeadNotice ==
    ASSUME TypeOK, NEW d \in Daemons, notices[d] # <<>>
    PROVE  /\ Head(notices[d]) \in Notice /\ Tail(notices[d]) \in Seq(Notice)
           /\ [notices EXCEPT ![d] = Tail(notices[d])] \in [Daemons -> Seq(Notice)]
<1>1. notices \in [Daemons -> Seq(Notice)]
  BY DEF TypeOK
<1>2. Head(notices[d]) \in Notice /\ Tail(notices[d]) \in Seq(Notice)
  BY <1>1, Tails
<1> QED
  BY <1>1, <1>2

LEMMA DaemonBase ==
    ASSUME BaseInv, NEW d \in Daemons, DaemonStep(d)
    PROVE  BaseInv'
<1> USE DEF BaseInv
<1>1. UNCHANGED <<helper, runs, registry, caller>>
  BY DEF DaemonStep, Create, Start, Watch, GoesUnnoticed, OnServiceRegistered, OnResult, End, Withdraw,
         WithdrawTimesOut, Withdrawn, AnnouncementTimesOut, Announce
<1>2. CallersOK'
  BY <1>1 DEF CallersOK, caller
<1>3. SUFFICES TypeOK' /\ (helper = "gone" => inbox' = inbox)
  BY <1>1, <1>2 DEF RegistryOK
<1>4. CASE Create(d) \/ Watch(d)
  BY <1>1, <1>4 DEF Create, Watch, TypeOK, bus, ghost, caller
<1>5. ASSUME NEW left \in Seq(Notice), Announce(d, left),
             phase' \in [Daemons -> {"new", "created", "announced", "watching", "gone"}], current' = current
      PROVE  TypeOK' /\ (helper = "gone" => inbox' = inbox)
  <2>1. /\ counter[d] \in Paths /\ counter' \in [Daemons -> 0..MaxPaths]
        /\ pending' \in [Daemons -> SUBSET Paths] /\ Call(d, counter[d], left)
        /\ late' \subseteq Daemons /\ missed' \subseteq Daemons /\ leaving' = leaving
    BY <1>5, Announced
  <2>2. /\ inbox' \in [Daemons -> Queue] /\ notices' \in [Daemons -> Seq(Notice)]
        /\ helper = "gone" => inbox' = inbox
    BY <2>1, Called
  <2> QED
    BY <1>1, <1>5, <2>1, <2>2 DEF TypeOK, Queue, caller
<1>6. CASE Start(d)
  BY <1>5, <1>6 DEF Start, TypeOK
<1>7. CASE OnServiceRegistered(d)
  <2>1. Tail(notices[d]) \in Seq(Notice) /\ Announce(d, Tail(notices[d])) /\ UNCHANGED <<phase, current>>
    BY <1>7, HeadNotice DEF OnServiceRegistered
  <2> QED
    BY <1>5, <2>1 DEF TypeOK
<1>8. CASE GoesUnnoticed(d)
  <2>1. notices' \in [Daemons -> Seq(Notice)]
    BY <1>8, HeadNotice DEF GoesUnnoticed
  <2> QED
    BY <1>1, <1>8, <2>1 DEF GoesUnnoticed, TypeOK, daemon, ghost, caller
<1>9. CASE OnResult(d)
  <2>1. notices' \in [Daemons -> Seq(Notice)]
    BY <1>9, HeadNotice DEF OnResult
  <2>2. Head(notices[d]).path \in Paths \cup {Null}
    BY <1>9, HeadNotice, Notices DEF OnResult
  <2>3. /\ pending' \in [Daemons -> SUBSET Paths] /\ current' \in [Daemons -> Paths \cup {Null}]
        /\ leaving' \in [Daemons -> {"no", "called", "ok", "failed", "left", "threw"}]
    BY <1>9, <2>2 DEF OnResult, TypeOK
  <2> QED
    BY <1>1, <1>9, <2>1, <2>3 DEF OnResult, TypeOK, ghost, caller
<1>10. CASE Withdraw(d)
  <2>1. notices[d] \in Seq(Notice) /\ Call(d, Null, notices[d])
    BY <1>10 DEF Withdraw, TypeOK
  <2>2. /\ inbox' \in [Daemons -> Queue] /\ notices' \in [Daemons -> Seq(Notice)]
        /\ helper = "gone" => inbox' = inbox
    BY <2>1, Called
  <2> QED
    BY <1>1, <1>10, <2>2 DEF Withdraw, TypeOK, Queue, ghost, caller
<1>11. CASE End(d)
  <2>1. notices' \in [Daemons -> Seq(Notice)] /\ counter' \in [Daemons -> 0..MaxPaths]
    BY <1>11, EmptySeq, Constants DEF End, TypeOK
  <2> QED
    BY <1>1, <1>11, <2>1 DEF End, TypeOK, caller
<1>12. CASE WithdrawTimesOut(d)
  BY <1>1, <1>12 DEF WithdrawTimesOut, TypeOK, bus, caller
<1>13. CASE Withdrawn(d)
  <2>1. /\ leaving' \in [Daemons -> {"no", "called", "ok", "failed", "left", "threw"}]
        /\ current' \in [Daemons -> Paths \cup {Null}]
    BY <1>13 DEF Withdrawn, TypeOK
  <2> QED
    BY <1>1, <1>13, <2>1 DEF Withdrawn, TypeOK, bus, ghost, caller
<1>14. ASSUME NEW p \in Paths, AnnouncementTimesOut(d, p)
       PROVE  TypeOK' /\ (helper = "gone" => inbox' = inbox)
  <2>1. /\ pending' \in [Daemons -> SUBSET Paths] /\ late' \subseteq Daemons
        /\ UNCHANGED <<bus, phase, counter, current, leaving, missed>>
    BY <1>14 DEF AnnouncementTimesOut, TypeOK
  <2> QED
    BY <1>1, <2>1 DEF TypeOK, bus, caller
<1> QED
  BY <1>4, <1>6, <1>7, <1>8, <1>9, <1>10, <1>11, <1>12, <1>13, <1>14 DEF DaemonStep

\* The helper takes up a call of daemon d, or has it refused.
CallTaken(d) == Refuse(d) \/ Register(d) \/ RegisterReplyFails(d) \/ Unregister(d)

LEMMA Taken ==
    ASSUME TypeOK, NEW d \in Daemons, CallTaken(d)
    PROVE  /\ UNCHANGED <<helper, runs, daemon, caller, late>>
           /\ helper # "gone" /\ inbox[d] # <<>> /\ inbox[d] \in Queue
           /\ Head(inbox[d]) \in Paths \cup {Null} /\ Tail(inbox[d]) \in Queue
           /\ inbox' \in [Daemons -> Queue] /\ inbox'[d] = Tail(inbox[d])
           /\ \A e \in Daemons \ {d} : inbox'[e] = inbox[e]
           /\ notices' \in [Daemons -> Seq(Notice)]
           /\ \A e \in Daemons \ {d} : notices'[e] = notices[e]
           /\ missed' \subseteq Daemons
<1>1. inbox \in [Daemons -> Queue] /\ notices \in [Daemons -> Seq(Notice)]
  BY DEF TypeOK, Queue
<1>2. /\ UNCHANGED <<helper, runs, daemon, caller, late>> /\ helper # "gone" /\ inbox[d] # <<>>
      /\ inbox' = [inbox EXCEPT ![d] = Tail(inbox[d])]
      /\ missed' \subseteq Daemons
  BY DEF CallTaken, Refuse, Register, RegisterReplyFails, Unregister, Receive, Erase, Running, TypeOK
<1>3. Head(inbox[d]) \in Paths \cup {Null} /\ Tail(inbox[d]) \in Queue
  BY <1>1, <1>2, Tails DEF Queue
<1>4. \/ notices' = notices
      \/ \E p \in Paths \cup {Null}, e \in BOOLEAN : notices' = Answered(d, p, e)
  BY <1>3 DEF CallTaken, Refuse, Register, RegisterReplyFails, Unregister
<1>5. notices' \in [Daemons -> Seq(Notice)] /\ \A e \in Daemons \ {d} : notices'[e] = notices[e]
  BY <1>1, <1>4, Told
<1> QED
  BY <1>1, <1>2, <1>3, <1>5

\* Who is registered afterwards.
LEMMA Registers ==
    ASSUME TypeOK, NEW d \in Daemons, CallTaken(d)
    PROVE  /\ registry' \in [Uids -> Address \cup {Null}]
           /\ \A u \in Uids : \/ registry'[u] = registry[u]
                              \/ u = UserOf[d] /\ registry'[u] = Null
                              \/ /\ u = UserOf[d] /\ registry'[u] = Agent(d) /\ Register(d)
                                 /\ Agent(d) \in Address
           /\ helper # "ready" => registry' = registry
<1>1. registry \in [Uids -> Address \cup {Null}] /\ UserOf[d] \in Uids
  BY Constants DEF TypeOK
<1>2. CASE Refuse(d)
  BY <1>1, <1>2 DEF Refuse
<1>3. CASE Register(d)
  <2>1. Head(inbox[d]) \in Paths
    BY <1>3, Taken DEF CallTaken, Register, Receive
  <2>2. Agent(d) \in Address
    BY <2>1 DEF Agent, Address
  <2>3. registry' = [registry EXCEPT ![UserOf[d]] = Agent(d)] /\ helper = "ready"
    BY <1>3 DEF Register, Receive
  <2> QED
    BY <1>1, <1>3, <2>2, <2>3
<1>4. CASE RegisterReplyFails(d) \/ Unregister(d)
  BY <1>1, <1>4 DEF RegisterReplyFails, Unregister, Erase, Receive
<1> QED
  BY <1>2, <1>3, <1>4 DEF CallTaken

LEMMA TakenBase ==
    ASSUME BaseInv, NEW d \in Daemons, CallTaken(d)
    PROVE  BaseInv'
<1> USE DEF BaseInv
<1>1. /\ UNCHANGED <<helper, runs, daemon, caller, late>> /\ helper # "gone"
      /\ inbox' \in [Daemons -> Queue] /\ notices' \in [Daemons -> Seq(Notice)] /\ missed' \subseteq Daemons
  BY Taken
<1>2. /\ registry' \in [Uids -> Address \cup {Null}]
      /\ \A u \in Uids : \/ registry'[u] = registry[u]
                         \/ registry'[u] = Null
                         \/ u = UserOf[d] /\ registry'[u] = Agent(d)
      /\ helper # "ready" => registry' = registry
  BY Registers
<1>3. TypeOK'
  BY <1>1, <1>2 DEF TypeOK, Queue, daemon, caller
<1>4. RegistryOK'
  BY <1>1, <1>2 DEF RegistryOK, Agent
<1>5. CallersOK'
  BY <1>1 DEF CallersOK, caller
<1> QED
  BY <1>3, <1>4, <1>5

\* The life of the helper.
LEMMA HelperBase ==
    ASSUME BaseInv, OwnName \/ InstallHandlers \/ HelperEnds
    PROVE  BaseInv'
<1> USE DEF BaseInv
<1>1. notices \in [Daemons -> Seq(Notice)] /\ inbox \in [Daemons -> Queue]
  BY DEF TypeOK, Queue
<1>2. CASE InstallHandlers
  BY <1>2 DEF InstallHandlers, TypeOK, RegistryOK, CallersOK, bus, daemon, caller, ghost
<1>3. CASE OwnName
  <2>1. PICK r \in Notice : r = Registered
    BY Notices
  <2>2. \A d \in Daemons : Append(notices[d], r) \in Seq(Notice)
    BY <1>1, Appended
  <2>3. notices' \in [Daemons -> Seq(Notice)]
    BY <1>1, <1>3, <2>1, <2>2 DEF OwnName
  <2>4. runs' \in 0..MaxRuns
    BY <1>3, Constants DEF OwnName, TypeOK
  <2>5. TypeOK'
    BY <1>3, <2>3, <2>4 DEF OwnName, TypeOK, daemon, caller
  <2>6. RegistryOK' /\ CallersOK'
    BY <1>3 DEF OwnName, RegistryOK, CallersOK, caller
  <2> QED
    BY <2>5, <2>6
<1>4. CASE HelperEnds
  <2>1. notices' = [d \in Daemons |-> IF Live(d) THEN notices[d] \o Errors(inbox[d]) ELSE notices[d]]
    BY <1>4 DEF HelperEnds, Errors
  <2>2. \A d \in Daemons : notices[d] \o Errors(inbox[d]) \in Seq(Notice)
    BY <1>1, ErrorsAfter
  <2>3. notices' \in [Daemons -> Seq(Notice)]
    BY <1>1, <2>1, <2>2
  <2>4. inbox' \in [Daemons -> Queue]
    BY <1>4, EmptySeq DEF HelperEnds, Queue
  <2>5. TypeOK'
    BY <1>4, <2>3, <2>4 DEF HelperEnds, TypeOK, Queue, daemon
  <2>6. RegistryOK' /\ CallersOK'
    BY <1>4 DEF HelperEnds, RegistryOK, CallersOK
  <2> QED
    BY <2>5, <2>6
<1> QED
  BY <1>2, <1>3, <1>4

\* Stub::send.
CallerStep(c) == (\E u \in Uids : Send(c, u)) \/ AgentForUser(c) \/ Answer(c) \/ SendThrows(c)

LEMMA CallerBase ==
    ASSUME BaseInv, NEW c \in Callers, CallerStep(c)
    PROVE  BaseInv' /\ UNCHANGED <<helper, runs, registry, bus, daemon, ghost>>
<1> USE DEF BaseInv
<1>1. UNCHANGED <<helper, runs, registry, bus, daemon, ghost>>
  BY DEF CallerStep, Send, AgentForUser, Answer, SendThrows, Throw
<1>2. RegistryOK'
  BY <1>1 DEF RegistryOK, bus
<1>3. SUFFICES /\ pc' \in [Callers -> {"idle", "known", "asking", "done", "denied", "thrown"}]
               /\ uid' \in [Callers -> Uids \cup {Null}]
               /\ agent' \in [Callers -> Address \cup {Null}]
               /\ by' \in [Callers -> Daemons \cup {Null}]
               /\ CallersOK'
  BY <1>1, <1>2 DEF TypeOK, bus, daemon, ghost
<1>4. ASSUME NEW u \in Uids, Send(c, u)
      PROVE  /\ pc' \in [Callers -> {"idle", "known", "asking", "done", "denied", "thrown"}]
             /\ uid' \in [Callers -> Uids \cup {Null}]
             /\ agent' \in [Callers -> Address \cup {Null}]
             /\ by' \in [Callers -> Daemons \cup {Null}]
             /\ CallersOK'
  <2>1. /\ agent[c] = Null /\ agent' = agent /\ by' = [by EXCEPT ![c] = Null]
        /\ agent \in [Callers -> Address \cup {Null}]
    BY <1>4 DEF Send, CallersOK, TypeOK
  <2>2. by' \in [Callers -> Daemons \cup {Null}] /\ by'[c] = Null
    BY <2>1 DEF TypeOK
  <2>3. PICK s \in {"denied", "known"}, v \in Uids \cup {Null} :
            /\ pc' = [pc EXCEPT ![c] = s] /\ uid' = [uid EXCEPT ![c] = v]
            /\ s = "known" => v \in Uids
    BY <1>4 DEF Send
  <2>4. /\ pc' \in [Callers -> {"idle", "known", "asking", "done", "denied", "thrown"}]
        /\ uid' \in [Callers -> Uids \cup {Null}]
    BY <2>3 DEF TypeOK
  <2>5. /\ pc'[c] = s /\ uid'[c] = v
        /\ \A x \in Callers \ {c} : pc'[x] = pc[x] /\ uid'[x] = uid[x] /\ by'[x] = by[x]
    BY <2>1, <2>3 DEF TypeOK
  <2>6. CallersOK'
    BY <2>1, <2>2, <2>3, <2>5 DEF CallersOK
  <2> QED
    BY <2>1, <2>2, <2>4, <2>6
<1>5. ASSUME NEW from \in {"known", "asking"}, Throw(c, from)
      PROVE  /\ pc' \in [Callers -> {"idle", "known", "asking", "done", "denied", "thrown"}]
             /\ uid' \in [Callers -> Uids \cup {Null}]
             /\ agent' \in [Callers -> Address \cup {Null}]
             /\ by' \in [Callers -> Daemons \cup {Null}]
             /\ CallersOK'
  BY <1>5 DEF Throw, Go, TypeOK, CallersOK
<1>6. CASE AgentForUser(c)
  <2>1. CASE Throw(c, "known")
    BY <1>5, <2>1
  <2>2. CASE /\ Go(c, "known", "asking") /\ registry[uid[c]] # Null
             /\ agent' = [agent EXCEPT ![c] = registry[uid[c]]] /\ UNCHANGED <<uid, by>>
    <3>1. uid[c] \in Uids /\ by[c] = Null
      BY <2>2 DEF Go, CallersOK
    <3>2. registry[uid[c]] \in Address /\ UserOf[registry[uid[c]].daemon] = uid[c]
      BY <2>2, <3>1 DEF TypeOK, RegistryOK
    <3> QED
      BY <2>2, <3>1, <3>2 DEF Go, TypeOK, CallersOK
  <2> QED
    BY <1>6, <2>1, <2>2 DEF AgentForUser
<1>7. CASE Answer(c)
  <2>1. agent[c] \in Address /\ UserOf[agent[c].daemon] = uid[c]
    BY <1>7 DEF Answer, TypeOK, CallersOK
  <2>2. agent[c].daemon \in Daemons
    BY <2>1 DEF Address
  <2> QED
    BY <1>7, <2>1, <2>2 DEF Answer, Go, TypeOK, CallersOK
<1>8. CASE SendThrows(c)
  BY <1>5, <1>8 DEF SendThrows
<1> QED
  BY <1>4, <1>6, <1>7, <1>8 DEF CallerStep

LEMMA BaseStep ==
    ASSUME BaseInv, [Next]_vars
    PROVE  BaseInv'
<1>1. CASE UNCHANGED vars
  BY <1>1 DEF BaseInv, TypeOK, RegistryOK, CallersOK, vars, bus, daemon, caller, ghost
<1>2. CASE Next
  BY <1>2, DaemonBase, TakenBase, HelperBase, CallerBase DEF Next, DaemonStep, CallTaken, CallerStep
<1> QED
  BY <1>1, <1>2

LEMMA BaseInvariant == Spec => []BaseInv
<1>1. BaseInv /\ [Next]_vars => BaseInv'
  BY BaseStep
<1> QED
  BY <1>1, BaseInit, PTL DEF Spec

\* Every variable of helper, daemons, bus and callers keeps its type: no reply,
\* withdrawal or restart leaves anything but an address or nothing in the
\* helper's registry.
THEOREM DBusTypeOK == Spec => []TypeOK
<1>1. BaseInv => TypeOK
  BY DEF BaseInv
<1> QED
  BY <1>1, BaseInvariant, PTL

\* What Stub::send returns was said by a daemon of the user it asked for: the
\* registry of the helper only has agents of daemons that registered for their
\* own user, and the answer comes from the agent that was looked up there.
THEOREM AnswersFromTheUsersDaemon == Spec => []AnswerIsFromTheUsersDaemon
<1>1. BaseInv => AnswerIsFromTheUsersDaemon
  BY DEF BaseInv, CallersOK, AnswerIsFromTheUsersDaemon
<1> QED
  BY <1>1, BaseInvariant, PTL

-----------------------------------------------------------------------------
(* What holds of each daemon: its own steps.                               *)

Phases == {"new", "created", "announced", "watching", "gone"}

\* The values of a daemon's variables.
LEMMA DaemonTypes ==
    ASSUME BaseInv, NEW d \in Daemons
    PROVE  /\ inbox[d] \in Queue /\ notices[d] \in Seq(Notice)
           /\ counter[d] \in Nat /\ pending[d] \subseteq Paths /\ phase[d] \in Phases
           /\ UserOf[d] \in Uids /\ registry[UserOf[d]] \in Address \cup {Null}
           /\ Leads(d) => registry[UserOf[d]].path \in Paths /\ helper = "ready"
           /\ helper = "gone" => inbox[d] = <<>>
<1>1. /\ inbox[d] \in Queue /\ notices[d] \in Seq(Notice)
      /\ counter[d] \in 0..MaxPaths /\ pending[d] \subseteq Paths /\ phase[d] \in Phases
      /\ UserOf[d] \in Uids /\ registry[UserOf[d]] \in Address \cup {Null}
  BY Constants DEF BaseInv, TypeOK, Queue, Phases
<1>2. counter[d] \in Nat
  BY <1>1
<1>3. Leads(d) => registry[UserOf[d]].path \in Paths
  BY <1>1 DEF Leads, Address
<1>4. /\ Leads(d) => helper = "ready"
      /\ helper = "gone" => inbox[d] = <<>>
  BY <1>1 DEF Leads, BaseInv, RegistryOK
<1> QED
  BY <1>1, <1>2, <1>3, <1>4

\* A step that leaves the daemon alone and does not make the registry lead to
\* it.
LEMMA LeftAlone ==
    ASSUME NEW e \in Daemons, DaemonOK(e),
           inbox'[e] = inbox[e], notices'[e] = notices[e], phase'[e] = phase[e],
           counter'[e] = counter[e], pending'[e] = pending[e], current'[e] = current[e],
           leaving'[e] = leaving[e], (e \in late') <=> (e \in late),
           Leads(e)' => registry'[UserOf[e]] = registry[UserOf[e]]
    PROVE  DaemonOK(e)'
<1>1. Leads(e)' => Leads(e) /\ registry'[UserOf[e]] = registry[UserOf[e]]
  BY DEF Leads
<1>2. Out(e) => Out(e)'
  BY <1>1 DEF Out
<1>3. Live(e)' <=> Live(e)
  BY DEF Live
<1>4. CASE phase[e] = "gone"
  BY <1>4 DEF DaemonOK
<1>5. CASE phase[e] # "gone"
  <2>1. (Once(inbox[e], notices[e]) /\ Counted(inbox[e], notices[e], counter[e]))'
    BY <1>5 DEF DaemonOK
  <2>2. Fresh(e)'
    BY <1>1, <1>3, <1>5 DEF DaemonOK, Fresh
  <2>3. Held(e)'
    BY <1>5 DEF DaemonOK, Held
  <2>4. Registration(e)'
    BY <1>1, <1>3, <1>5 DEF DaemonOK, Registration
  <2>5. Leaves(e)'
    BY <1>2, <1>5 DEF DaemonOK, Leaves
  <2> QED
    BY <1>5, <2>1, <2>2, <2>3, <2>4, <2>5 DEF DaemonOK
<1> QED
  BY <1>4, <1>5

LEMMA CreateOK ==
    ASSUME BaseInv, NEW d \in Daemons, DaemonOK(d), Create(d) \/ Watch(d)
    PROVE  DaemonOK(d)'
<1>1. phase'[d] \in {"created", "watching"} /\ phase[d] \in {"new", "announced"}
  BY DEF Create, Watch, BaseInv, TypeOK
<1>2. UNCHANGED <<registry, inbox, notices, counter, pending, current, leaving, late>>
  BY DEF Create, Watch, bus, ghost
<1>3. Live(d)' /\ (Live(d) \/ (phase[d] = "new" /\ ~Leads(d) /\ leaving[d] = "no"))
  BY <1>1 DEF Live, DaemonOK, Fresh
<1>4. /\ Once(inbox[d], notices[d]) /\ Counted(inbox[d], notices[d], counter[d])
      /\ Fresh(d) /\ Held(d) /\ Registration(d) /\ Leaves(d)
  BY <1>1 DEF DaemonOK
<1>5. (Leads(d)' <=> Leads(d)) /\ (Out(d)' <=> Out(d))
  BY <1>2 DEF Leads, Out
<1>6. Fresh(d)' /\ Held(d)'
  BY <1>1, <1>2, <1>3, <1>4 DEF Fresh, Held
<1>7. Registration(d)' /\ Leaves(d)'
  BY <1>2, <1>3, <1>4, <1>5 DEF Registration, Leaves
<1> QED
  BY <1>1, <1>2, <1>4, <1>6, <1>7 DEF DaemonOK

\* Without the notice that the helper is there.
Past(d, left) ==
    \/ left = notices[d]
    \/ notices[d] # <<>> /\ Head(notices[d]) = Registered /\ left = Tail(notices[d])

LEMMA PastOK ==
    ASSUME BaseInv, NEW d \in Daemons, DaemonOK(d), Live(d), NEW left, Past(d, left)
    PROVE  /\ left \in Seq(Notice)
           /\ Once(inbox[d], left) /\ Counted(inbox[d], left, counter[d])
           /\ leaving[d] = "no" => Stays(inbox[d], left)
           /\ Leads(d) /\ d \notin late =>
                 Kept(inbox[d], left, pending[d], current[d], registry[UserOf[d]].path)
           /\ leaving[d] # "no" /\ d \notin late =>
                 \A i \in DOMAIN left : IsUnregistered(left[i]) => Out(d)
<1>1. phase[d] # "gone"
  BY DEF Live
<1>2. /\ Once(inbox[d], notices[d]) /\ Counted(inbox[d], notices[d], counter[d])
      /\ Fresh(d) /\ Held(d) /\ Registration(d) /\ Leaves(d)
  BY <1>1 DEF DaemonOK
<1>3. inbox[d] \in Queue /\ notices[d] \in Seq(Notice) /\ counter[d] \in Nat
  BY DaemonTypes
<1>4. CASE left = notices[d]
  BY <1>2, <1>3, <1>4 DEF Fresh, Registration, Leaves
<1>5. CASE notices[d] # <<>> /\ Head(notices[d]) = Registered /\ left = Tail(notices[d])
  <2>1. left \in Seq(Notice) /\ \A i \in DOMAIN left : i + 1 \in DOMAIN notices[d] /\ left[i] = notices[d][i + 1]
    BY <1>3, <1>5, Tails
  <2>2. Once(inbox[d], left) /\ From(inbox[d], notices[d], {}, inbox[d], left)
    BY <1>2, <1>3, <1>5, OnceNotice, FromNotice
  <2>3. counter[d] <= counter[d] /\ \A p \in {} : p = Null \/ p < counter[d]
    BY <1>3
  <2>4. Counted(inbox[d], left, counter[d])
    BY <1>2, <1>3, <2>1, <2>2, <2>3, FromCounted
  <2>5. leaving[d] = "no" => Stays(inbox[d], left)
    BY <1>2, <2>2, FromStays DEF Fresh
  <2>6. ~IsSuccess(Head(notices[d]))
    BY <1>5, Notices DEF IsSuccess, IsResult
  <2>7. Leads(d) /\ d \notin late =>
           Kept(inbox[d], left, pending[d], current[d], registry[UserOf[d]].path)
    BY <1>2, <1>3, <1>5, <2>6, KeptNotice DEF Registration
  <2>8. leaving[d] # "no" /\ d \notin late => \A i \in DOMAIN left : IsUnregistered(left[i]) => Out(d)
    BY <1>2, <2>1 DEF Leaves
  <2> QED
    BY <2>1, <2>2, <2>4, <2>5, <2>7, <2>8
<1> QED
  BY <1>4, <1>5 DEF Past

LEMMA GoesUnnoticedOK ==
    ASSUME BaseInv, NEW d \in Daemons, DaemonOK(d), GoesUnnoticed(d)
    PROVE  DaemonOK(d)'
<1>1. /\ Live(d) /\ phase[d] \in {"created", "announced"} /\ Past(d, Tail(notices[d]))
      /\ notices'[d] = Tail(notices[d])
  BY DEF GoesUnnoticed, Live, Past, BaseInv, TypeOK
<1>2. UNCHANGED <<registry, inbox, phase, counter, pending, current, leaving, late>>
  BY DEF GoesUnnoticed, daemon, ghost
<1>3. PICK left : left = Tail(notices[d])
  OBVIOUS
<1>4. /\ Once(inbox[d], left) /\ Counted(inbox[d], left, counter[d])
      /\ leaving[d] = "no" => Stays(inbox[d], left)
      /\ Leads(d) /\ d \notin late =>
            Kept(inbox[d], left, pending[d], current[d], registry[UserOf[d]].path)
      /\ leaving[d] # "no" /\ d \notin late =>
            \A i \in DOMAIN left : IsUnregistered(left[i]) => Out(d)
  BY <1>1, <1>3, PastOK
<1>5. notices'[d] = left
  BY <1>1, <1>3
<1>6. Fresh(d) /\ Held(d) /\ Registration(d) /\ Leaves(d)
  BY <1>1 DEF DaemonOK
<1>7. Fresh(d)' /\ Held(d)'
  BY <1>1, <1>2, <1>4, <1>5, <1>6 DEF Fresh, Held, Live
<1>8. (Leads(d)' <=> Leads(d)) /\ (Out(d)' <=> Out(d))
  BY <1>2 DEF Leads, Out
<1>9. Registration(d)'
  BY <1>1, <1>2, <1>4, <1>5, <1>6, <1>8 DEF Registration
<1>10. Leaves(d)'
  BY <1>2, <1>4, <1>5, <1>6, <1>8 DEF Leaves
<1> QED
  BY <1>1, <1>2, <1>4, <1>5, <1>7, <1>9, <1>10 DEF DaemonOK

LEMMA AnnounceOK ==
    ASSUME BaseInv, NEW d \in Daemons, DaemonOK(d), Live(d), Live(d)',
           NEW left, Past(d, left), Announce(d, left), current' = current
    PROVE  DaemonOK(d)'
<1>1. /\ left \in Seq(Notice)
      /\ Once(inbox[d], left) /\ Counted(inbox[d], left, counter[d])
      /\ leaving[d] = "no" => Stays(inbox[d], left)
      /\ Leads(d) /\ d \notin late =>
            Kept(inbox[d], left, pending[d], current[d], registry[UserOf[d]].path)
  BY PastOK
<1>2. /\ counter[d] \in Paths /\ counter'[d] = counter[d] + 1
      /\ pending' = [pending EXCEPT ![d] = pending[d] \cup {counter[d]}]
      /\ Call(d, counter[d], left)
      /\ late' = IF leaving[d] = "no" THEN late ELSE late \cup {d}
      /\ UNCHANGED <<registry, leaving>>
  BY <1>1, Announced DEF BaseInv
<1>3. /\ inbox' \in [Daemons -> Queue] /\ notices' \in [Daemons -> Seq(Notice)]
      /\ \/ helper = "gone" /\ inbox' = inbox /\ notices'[d] = Append(left, Result(counter[d], TRUE))
         \/ helper # "gone" /\ inbox'[d] = Append(inbox[d], counter[d]) /\ notices'[d] = left
  BY <1>1, <1>2, Called DEF BaseInv
<1>4. /\ inbox[d] \in Queue /\ counter[d] \in Nat /\ Null # counter[d]
      /\ Leads(d) => registry[UserOf[d]].path \in Nat /\ helper = "ready"
      /\ helper = "gone" => inbox[d] = <<>>
      /\ pending'[d] = pending[d] \cup {counter[d]}
  BY <1>2, DaemonTypes, Constants DEF BaseInv, TypeOK
<1>5. /\ Once(inbox'[d], notices'[d])
      /\ From(inbox[d], left, {counter[d]}, inbox'[d], notices'[d])
  <2>1. /\ Once(Append(inbox[d], counter[d]), left)
        /\ Once(inbox[d], Append(left, Result(counter[d], TRUE)))
    BY <1>1, <1>2, <1>4, OnceCall
  <2>2. /\ From(inbox[d], left, {counter[d]}, Append(inbox[d], counter[d]), left)
        /\ From(inbox[d], left, {counter[d]}, inbox[d], Append(left, Result(counter[d], TRUE)))
    BY <1>1, <1>2, <1>4, FromCall
  <2> QED
    BY <1>3, <2>1, <2>2
<1>6. Counted(inbox'[d], notices'[d], counter'[d])
  <2>1. PICK m \in Nat : m = counter'[d] /\ counter[d] <= m /\ \A p \in {counter[d]} : p < m
    BY <1>2, <1>4
  <2>2. inbox'[d] \in Queue /\ notices'[d] \in Seq(Notice)
    BY <1>3
  <2> QED
    BY <1>1, <1>4, <1>5, <2>1, <2>2, FromCounted
<1>7. Live(d) => phase[d] # "gone"
  BY DEF Live
<1>8. Fresh(d) /\ Held(d) /\ Registration(d)
  BY <1>7 DEF DaemonOK
<1>9. leaving[d] = "no" => Stays(inbox'[d], notices'[d])
  BY <1>1, <1>4, <1>5, FromStays
<1>10. Fresh(d)'
  BY <1>2, <1>9 DEF Fresh, Live
<1>11. Held(d)'
  <2>1. \A i \in DOMAIN inbox'[d] : inbox'[d][i] = counter[d] \/ \E j \in DOMAIN inbox[d] : inbox'[d][i] = inbox[d][j]
    BY <1>5 DEF From
  <2> QED
    BY <1>2, <1>4, <1>8, <2>1 DEF Held
<1>12. Registration(d)'
  <2>1. Leads(d)' <=> Leads(d)
    BY <1>2 DEF Leads
  <2> SUFFICES ASSUME Leads(d)
               PROVE  /\ registry[UserOf[d]].path < counter'[d]
                      /\ d \notin late' =>
                            Kept(inbox'[d], notices'[d], pending'[d], current'[d], registry[UserOf[d]].path)
    BY <1>2, <2>1 DEF Registration
  <2>2. registry[UserOf[d]].path < counter[d] /\ registry[UserOf[d]].path \in Nat /\ helper = "ready"
    BY <1>4, <1>8 DEF Registration
  <2>3. registry[UserOf[d]].path < counter'[d] /\ counter[d] # registry[UserOf[d]].path
    BY <1>2, <1>4, <2>2
  <2>4. inbox'[d] = Append(inbox[d], counter[d]) /\ notices'[d] = left
    BY <1>3, <2>2
  <2>5. d \notin late' => Kept(inbox[d], left, pending[d], current[d], registry[UserOf[d]].path)
    BY <1>1, <1>2
  <2>6. d \notin late' => Kept(Append(inbox[d], counter[d]), left, pending[d] \cup {counter[d]},
                               current[d], registry[UserOf[d]].path)
    BY <1>1, <1>2, <1>4, <2>3, <2>5, KeptCall
  <2> QED
    BY <1>4, <2>3, <2>4, <2>6
<1>13. Leaves(d)'
  BY <1>2 DEF Leaves
<1>14. phase'[d] # "gone"
  BY DEF Live
<1> QED
  BY <1>5, <1>6, <1>10, <1>11, <1>12, <1>13, <1>14 DEF DaemonOK

LEMMA OnResultOK ==
    ASSUME BaseInv, NEW d \in Daemons, DaemonOK(d), OnResult(d)
    PROVE  DaemonOK(d)'
<1>1. /\ Live(d) /\ phase[d] # "gone" /\ notices[d] # <<>> /\ Head(notices[d]).type = "result"
      /\ UNCHANGED <<registry, inbox, phase, counter, late>>
      /\ notices'[d] = Tail(notices[d])
  BY DEF OnResult, Live, ghost, BaseInv, TypeOK
<1>2. inbox[d] \in Queue /\ notices[d] \in Seq(Notice) /\ counter[d] \in Nat
  BY DaemonTypes
<1>3. PICK n \in Notice : n = Head(notices[d]) /\ n = notices[d][1] /\ 1 \in DOMAIN notices[d]
  BY <1>1, <1>2, Tails
<1>4. n.type = "result" /\ n.path \in Paths \cup {Null} /\ n.error \in BOOLEAN
  BY <1>1, <1>3, Notices
<1>5. /\ pending'[d] = pending[d] \ {n.path}
      /\ current'[d] = IF n.path \in pending[d] /\ ~n.error THEN n.path ELSE current[d]
      /\ leaving'[d] = IF n.path = Null /\ leaving[d] = "called"
                       THEN IF n.error THEN "failed" ELSE "ok" ELSE leaving[d]
  <2>1. /\ pending \in [Daemons -> SUBSET Paths] /\ current \in [Daemons -> Paths \cup {Null}]
        /\ leaving \in [Daemons -> {"no", "called", "ok", "failed", "left", "threw"}]
    BY DEF BaseInv, TypeOK
  <2>2. /\ pending' = [pending EXCEPT ![d] = @ \ {n.path}]
        /\ current' = IF n.path \in pending[d] /\ ~n.error
                      THEN [current EXCEPT ![d] = n.path] ELSE current
        /\ leaving' = IF n.path = Null /\ leaving[d] = "called"
                      THEN [leaving EXCEPT ![d] = IF n.error THEN "failed" ELSE "ok"] ELSE leaving
    BY <1>3 DEF OnResult
  <2> QED
    BY <2>1, <2>2
<1>6. /\ Once(inbox[d], notices[d]) /\ Counted(inbox[d], notices[d], counter[d])
      /\ Fresh(d) /\ Held(d) /\ Registration(d) /\ Leaves(d)
  BY <1>1 DEF DaemonOK
<1>7. PICK left \in Seq(Notice) : left = Tail(notices[d])
  BY <1>1, <1>2, Tails
<1>8. \A i \in DOMAIN left : i + 1 \in DOMAIN notices[d] /\ left[i] = notices[d][i + 1]
  BY <1>1, <1>2, <1>7, Tails
<1>9. Once(inbox[d], left) /\ From(inbox[d], notices[d], {}, inbox[d], left)
  BY <1>1, <1>2, <1>6, <1>7, OnceNotice, FromNotice
<1>10. Counted(inbox[d], left, counter[d])
  <2>1. counter[d] <= counter[d] /\ \A p \in {} : p = Null \/ p < counter[d]
    BY <1>2
  <2> QED
    BY <1>2, <1>6, <1>9, <2>1, FromCounted
<1>11. leaving[d] = "no" => n.path # Null /\ Stays(inbox[d], left)
  BY <1>3, <1>4, <1>6, <1>9, FromStays DEF Fresh, Stays, IsUnregistered
<1>12. leaving'[d] = "no" <=> leaving[d] = "no"
  BY <1>5
<1>13. Fresh(d)'
  BY <1>1, <1>6, <1>7, <1>11, <1>12 DEF Fresh, Live
<1>14. Held(d)'
  <2>1. \A i \in DOMAIN inbox[d] : inbox[d][i] # Null => inbox[d][i] # n.path
    BY <1>3, <1>4, <1>6 DEF Once, IsResult
  <2> QED
    BY <1>1, <1>5, <1>6, <2>1 DEF Held
<1>15. (Leads(d)' <=> Leads(d)) /\ (Out(d)' <=> Out(d)) /\ Live(d)'
  BY <1>1 DEF Leads, Out, Live
<1>16. Registration(d)'
  <2> SUFFICES ASSUME Leads(d)
               PROVE  /\ registry[UserOf[d]].path < counter[d]
                      /\ d \notin late =>
                            Kept(inbox[d], left, pending'[d], current'[d], registry[UserOf[d]].path)
    BY <1>1, <1>7, <1>15 DEF Registration
  <2>1. PICK p \in Paths : p = registry[UserOf[d]].path
    BY DaemonTypes
  <2>2. p < counter[d] /\ (d \notin late => Kept(inbox[d], notices[d], pending[d], current[d], p))
    BY <1>1, <1>6, <2>1 DEF Registration
  <2>3. p # Null
    BY Constants
  <2>4. ASSUME d \notin late, ~IsSuccess(n) PROVE Kept(inbox[d], left, pending'[d], current'[d], p)
    <3>1. Kept(inbox[d], left, pending[d] \ {n.path}, current[d], p)
      BY <1>1, <1>2, <1>3, <1>7, <2>2, <2>3, <2>4, KeptNotice
    <3>2. current'[d] = current[d]
      <4>1. n.path = Null => n.path \notin pending[d]
        BY DaemonTypes, Constants
      <4> QED
        BY <1>4, <1>5, <2>4, <4>1 DEF IsSuccess, IsResult
    <3> QED
      BY <1>5, <3>1, <3>2
  <2>5. ASSUME d \notin late, IsSuccess(n) PROVE Kept(inbox[d], left, pending'[d], current'[d], p)
    <3>1. Kept(inbox[d], left, pending[d] \ {n.path}, IF n.path \in pending[d] THEN n.path ELSE current[d], p)
      BY <1>1, <1>2, <1>3, <1>6, <1>7, <2>2, <2>5, KeptSuccess
    <3>2. current'[d] = IF n.path \in pending[d] THEN n.path ELSE current[d]
      BY <1>5, <2>5 DEF IsSuccess
    <3> QED
      BY <1>5, <3>1, <3>2
  <2> QED
    BY <2>1, <2>2, <2>4, <2>5
<1>17. Leaves(d)'
  <2>1. leaving[d] # "no" /\ d \notin late /\ n.path = Null => Out(d)
    BY <1>3, <1>4, <1>6 DEF Leaves, IsUnregistered
  <2> QED
    BY <1>1, <1>5, <1>6, <1>7, <1>8, <1>12, <1>15, <2>1 DEF Leaves
<1> QED
  BY <1>1, <1>7, <1>9, <1>10, <1>13, <1>14, <1>16, <1>17 DEF DaemonOK

\* A call without a reply in time: what the daemon takes itself to be registered
\* as no longer binds.
LEMMA TimesOutOK ==
    ASSUME BaseInv, NEW d \in Daemons, DaemonOK(d),
           WithdrawTimesOut(d) \/ \E p \in Paths : AnnouncementTimesOut(d, p)
    PROVE  DaemonOK(d)'
<1>1. /\ Live(d) /\ phase[d] # "gone" /\ d \in late'
      /\ UNCHANGED <<registry, inbox, notices, phase, counter>>
      /\ leaving'[d] = leaving[d] \/ (leaving[d] # "no" /\ leaving'[d] # "no")
  <2>1. leaving \in [Daemons -> {"no", "called", "ok", "failed", "left", "threw"}]
    BY DEF BaseInv, TypeOK
  <2>2. CASE WithdrawTimesOut(d)
    BY <2>1, <2>2 DEF WithdrawTimesOut, Live, bus
  <2>3. CASE \E p \in Paths : AnnouncementTimesOut(d, p)
    <3>1. PICK p \in Paths : AnnouncementTimesOut(d, p)
      BY <2>3
    <3>2. Live(d) /\ late' = late \cup {d} /\ UNCHANGED <<registry, bus, phase, counter, leaving>>
      BY <3>1 DEF AnnouncementTimesOut
    <3> QED
      BY <3>2 DEF Live, bus
  <2> QED
    BY <2>2, <2>3
<1>2. /\ Once(inbox[d], notices[d]) /\ Counted(inbox[d], notices[d], counter[d])
      /\ Fresh(d) /\ Registration(d)
  BY <1>1 DEF DaemonOK
<1>3. Fresh(d)'
  BY <1>1, <1>2 DEF Fresh, Live, Leads
<1>4. Held(d)' /\ Registration(d)' /\ Leaves(d)'
  BY <1>1, <1>2 DEF Held, Registration, Leaves, Leads
<1> QED
  BY <1>1, <1>2, <1>3, <1>4 DEF DaemonOK

LEMMA WithdrawOK ==
    ASSUME BaseInv, NEW d \in Daemons, DaemonOK(d), Withdraw(d)
    PROVE  DaemonOK(d)'
<1>1. /\ phase[d] = "watching" /\ leaving[d] = "no" /\ leaving'[d] = "called"
      /\ Call(d, Null, notices[d])
      /\ UNCHANGED <<registry, phase, counter, pending, current, late>>
  BY DEF Withdraw, ghost, BaseInv, TypeOK
<1>2. inbox[d] \in Queue /\ notices[d] \in Seq(Notice) /\ counter[d] \in Nat
  BY DaemonTypes
<1>3. /\ inbox' \in [Daemons -> Queue] /\ notices' \in [Daemons -> Seq(Notice)]
      /\ \/ helper = "gone" /\ inbox' = inbox /\ notices'[d] = Append(notices[d], Result(Null, TRUE))
         \/ helper # "gone" /\ inbox'[d] = Append(inbox[d], Null) /\ notices'[d] = notices[d]
  BY <1>1, <1>2, Called DEF BaseInv
<1>4. /\ Once(inbox[d], notices[d]) /\ Counted(inbox[d], notices[d], counter[d])
      /\ Stays(inbox[d], notices[d]) /\ Held(d) /\ Registration(d)
  BY <1>1 DEF DaemonOK, Fresh
<1>5. /\ Once(inbox'[d], notices'[d])
      /\ From(inbox[d], notices[d], {Null}, inbox'[d], notices'[d])
  <2>1. /\ Once(Append(inbox[d], Null), notices[d])
        /\ Once(inbox[d], Append(notices[d], Result(Null, TRUE)))
    BY <1>2, <1>4, OnceCall
  <2>2. /\ From(inbox[d], notices[d], {Null}, Append(inbox[d], Null), notices[d])
        /\ From(inbox[d], notices[d], {Null}, inbox[d], Append(notices[d], Result(Null, TRUE)))
    BY <1>2, FromCall
  <2> QED
    BY <1>3, <2>1, <2>2
<1>6. Counted(inbox'[d], notices'[d], counter[d])
  <2>1. inbox'[d] \in Queue /\ notices'[d] \in Seq(Notice) /\ counter[d] <= counter[d]
    BY <1>2, <1>3
  <2> QED
    BY <1>2, <1>4, <1>5, <2>1, FromCounted
<1>7. Fresh(d)'
  BY <1>1 DEF Fresh, Live
<1>8. Held(d)'
  <2>1. \A i \in DOMAIN inbox'[d] : inbox'[d][i] = Null \/ \E j \in DOMAIN inbox[d] : inbox'[d][i] = inbox[d][j]
    BY <1>5 DEF From
  <2> QED
    BY <1>1, <1>4, <2>1 DEF Held
<1>9. Registration(d)'
  <2>1. (Leads(d)' <=> Leads(d)) /\ Live(d)
    BY <1>1 DEF Leads, Live
  <2> SUFFICES ASSUME Leads(d)
               PROVE  /\ registry[UserOf[d]].path < counter[d]
                      /\ d \notin late =>
                            Kept(inbox'[d], notices'[d], pending[d], current[d], registry[UserOf[d]].path)
    BY <1>1, <2>1 DEF Registration
  <2>2. registry[UserOf[d]].path # Null /\ helper = "ready"
    BY DaemonTypes, Constants
  <2>3. inbox'[d] = Append(inbox[d], Null) /\ notices'[d] = notices[d]
    BY <1>3, <2>2
  <2>4. d \notin late => Kept(inbox[d], notices[d], pending[d], current[d], registry[UserOf[d]].path)
    BY <1>4, <2>1 DEF Registration
  <2>5. d \notin late => Kept(Append(inbox[d], Null), notices[d], pending[d] \cup {}, current[d],
                              registry[UserOf[d]].path)
    BY <1>2, <2>2, <2>4, KeptCall
  <2>6. pending[d] \cup {} = pending[d]
    OBVIOUS
  <2> QED
    BY <1>4, <2>3, <2>5, <2>6 DEF Registration
<1>10. Leaves(d)'
  <2>1. CASE helper = "gone"
    <3>1. Out(d)'
      BY <1>1, <1>3, <2>1, DaemonTypes DEF Out, Leads
    <3> QED
      BY <3>1 DEF Leaves
  <2>2. CASE helper # "gone"
    <3>1. LastCall(inbox'[d])
      BY <1>2, <1>3, <1>4, <2>2, LastCallAppended DEF Stays
    <3> QED
      BY <1>1, <1>3, <1>4, <2>2, <3>1 DEF Leaves, Stays
  <2> QED
    BY <2>1, <2>2
<1> QED
  BY <1>1, <1>5, <1>6, <1>7, <1>8, <1>9, <1>10 DEF DaemonOK

LEMMA WithdrawnOK ==
    ASSUME BaseInv, NEW d \in Daemons, DaemonOK(d), Withdrawn(d) \/ End(d)
    PROVE  DaemonOK(d)'
<1>1. CASE Withdrawn(d)
  <2>1. /\ Live(d) /\ phase[d] # "gone" /\ leaving[d] \in {"ok", "failed"} /\ leaving'[d] \in {"left", "threw"}
        /\ UNCHANGED <<registry, inbox, notices, phase, counter, pending, late>>
    BY <1>1 DEF Withdrawn, Live, bus, ghost, BaseInv, TypeOK
  <2>2. /\ Once(inbox[d], notices[d]) /\ Counted(inbox[d], notices[d], counter[d])
        /\ Fresh(d) /\ Held(d) /\ Registration(d) /\ Leaves(d)
    BY <2>1 DEF DaemonOK
  <2>3. d \notin late => Out(d)
    BY <2>1, <2>2 DEF Leaves
  <2>4. (Leads(d)' <=> Leads(d)) /\ (Out(d)' <=> Out(d))
    BY <2>1 DEF Leads, Out
  <2>5. Fresh(d)' /\ Held(d)'
    BY <2>1, <2>2 DEF Fresh, Held, Live, Leads
  <2>6. Registration(d)' /\ Leaves(d)'
    BY <2>1, <2>2, <2>3, <2>4 DEF Registration, Leaves, Out
  <2> QED
    BY <2>1, <2>2, <2>5, <2>6 DEF DaemonOK
<1>2. CASE End(d)
  BY <1>2 DEF End, DaemonOK, BaseInv, TypeOK
<1> QED
  BY <1>1, <1>2

LEMMA DaemonStepOK ==
    ASSUME BaseInv, \A e \in Daemons : DaemonOK(e), NEW d \in Daemons, DaemonStep(d)
    PROVE  \A e \in Daemons : DaemonOK(e)'
<1>1. DaemonOK(d)'
  <2>1. CASE Create(d) \/ Watch(d)
    BY <2>1, CreateOK
  <2>2. CASE Start(d)
    <3>1. Live(d) /\ Live(d)' /\ Past(d, notices[d]) /\ Announce(d, notices[d]) /\ current' = current
      BY <2>2 DEF Start, Live, Past, BaseInv, TypeOK
    <3> QED
      BY <3>1, AnnounceOK
  <2>3. CASE OnServiceRegistered(d)
    <3>1. /\ Live(d) /\ Live(d)' /\ Past(d, Tail(notices[d])) /\ Announce(d, Tail(notices[d]))
          /\ current' = current
      BY <2>3 DEF OnServiceRegistered, Live, Past
    <3> QED
      BY <3>1, AnnounceOK
  <2> QED
    BY <2>1, <2>2, <2>3, GoesUnnoticedOK, OnResultOK, TimesOutOK, WithdrawOK, WithdrawnOK DEF DaemonStep
<1>2. ASSUME NEW e \in Daemons, e # d PROVE DaemonOK(e)'
  <2>1. /\ registry' = registry
        /\ phase'[e] = phase[e] /\ counter'[e] = counter[e] /\ pending'[e] = pending[e]
        /\ current'[e] = current[e] /\ leaving'[e] = leaving[e]
        /\ (e \in late') <=> (e \in late)
        /\ inbox'[e] = inbox[e] /\ notices'[e] = notices[e]
    <3>1. /\ phase \in [Daemons -> Phases] /\ counter \in [Daemons -> 0..MaxPaths]
          /\ pending \in [Daemons -> SUBSET Paths] /\ current \in [Daemons -> Paths \cup {Null}]
          /\ leaving \in [Daemons -> {"no", "called", "ok", "failed", "left", "threw"}]
          /\ inbox \in [Daemons -> Queue] /\ notices \in [Daemons -> Seq(Notice)]
      BY DEF BaseInv, TypeOK, Phases, Queue
    <3>2. CASE Create(d) \/ Watch(d)
      BY <1>2, <3>1, <3>2 DEF Create, Watch, bus, ghost
    <3>3. CASE GoesUnnoticed(d)
      BY <1>2, <3>1, <3>3 DEF GoesUnnoticed, daemon, ghost
    <3>4. CASE Start(d) \/ OnServiceRegistered(d) \/ Withdraw(d)
      <4>1. PICK p, left : Call(d, p, left)
        BY <3>4 DEF Start, OnServiceRegistered, Announce, Withdraw
      <4>2. inbox'[e] = inbox[e] /\ notices'[e] = notices[e]
        BY <1>2, <3>1, <4>1 DEF Call
      <4>3. CASE Start(d)
        BY <1>2, <3>1, <4>2, <4>3 DEF Start, Announce
      <4>4. CASE OnServiceRegistered(d)
        BY <1>2, <3>1, <4>2, <4>4 DEF OnServiceRegistered, Announce
      <4>5. CASE Withdraw(d)
        BY <1>2, <3>1, <4>2, <4>5 DEF Withdraw, ghost
      <4> QED
        BY <3>4, <4>3, <4>4, <4>5
    <3>5. CASE OnResult(d)
      BY <1>2, <3>1, <3>5 DEF OnResult, ghost
    <3>6. CASE End(d)
      BY <1>2, <3>1, <3>6 DEF End
    <3>7. CASE WithdrawTimesOut(d) \/ Withdrawn(d)
      BY <1>2, <3>1, <3>7 DEF WithdrawTimesOut, Withdrawn, bus, ghost
    <3>8. CASE \E p \in Paths : AnnouncementTimesOut(d, p)
      BY <1>2, <3>1, <3>8 DEF AnnouncementTimesOut, bus
    <3> QED
      BY <3>2, <3>3, <3>4, <3>5, <3>6, <3>7, <3>8 DEF DaemonStep
  <2> QED
    BY <2>1, LeftAlone
<1> QED
  BY <1>1, <1>2

-----------------------------------------------------------------------------
(* What holds of each daemon: the steps of the helper.                     *)

\* What a call that is taken up does to the daemon that made it.
LEMMA TakenOK ==
    ASSUME BaseInv, NEW d \in Daemons, DaemonOK(d), CallTaken(d)
    PROVE  DaemonOK(d)'
<1>1. CASE phase[d] = "gone"
  BY <1>1, Taken DEF DaemonOK, BaseInv, daemon
<1>2. CASE phase[d] # "gone"
  <2>1. /\ UNCHANGED <<phase, counter, pending, current, leaving, late>>
        /\ inbox[d] # <<>> /\ inbox[d] \in Queue /\ Tail(inbox[d]) \in Queue
        /\ Head(inbox[d]) \in Paths \cup {Null} /\ inbox'[d] = Tail(inbox[d])
        /\ notices' \in [Daemons -> Seq(Notice)]
    BY Taken DEF BaseInv, daemon
  <2>2. /\ Once(inbox[d], notices[d]) /\ Counted(inbox[d], notices[d], counter[d])
        /\ Fresh(d) /\ Held(d) /\ Registration(d) /\ Leaves(d)
    BY <1>2 DEF DaemonOK
  <2>3. notices[d] \in Seq(Notice) /\ counter[d] \in Nat /\ phase[d] \in Phases
    BY DaemonTypes
  <2>4. Live(d) /\ Live(d)'
    BY <1>2, <2>1, <2>2, <2>3 DEF Fresh, Live, Phases
  <2>5. /\ Head(inbox[d]) = inbox[d][1] /\ 1 \in DOMAIN inbox[d]
        /\ \A i \in DOMAIN Tail(inbox[d]) : i + 1 \in DOMAIN inbox[d] /\ Tail(inbox[d])[i] = inbox[d][i + 1]
    BY <2>1, Tails DEF Queue
  <2>6. \/ notices'[d] = notices[d] /\ ~Register(d)
        \/ \E e \in BOOLEAN : /\ notices'[d] = Append(notices[d], Result(Head(inbox[d]), e))
                              /\ Register(d) => e = FALSE
    <3>1. CASE Register(d)
      <4>1. notices' = Answered(d, Head(inbox[d]), FALSE)
        BY <3>1 DEF Register
      <4> QED
        BY <2>1, <2>4, <4>1, Told DEF BaseInv
    <3>2. CASE ~Register(d)
      <4>1. notices' = notices \/ \E e \in BOOLEAN : notices' = Answered(d, Head(inbox[d]), e)
        BY <3>2 DEF CallTaken, Refuse, RegisterReplyFails, Unregister, Receive
      <4> QED
        BY <2>1, <2>4, <3>2, <4>1, Told DEF BaseInv
    <3> QED
      BY <3>1, <3>2
  <2>7. /\ Once(Tail(inbox[d]), notices'[d])
        /\ From(inbox[d], notices[d], {}, Tail(inbox[d]), notices'[d])
    <3>1. \A e \in BOOLEAN :
             /\ Once(Tail(inbox[d]), notices[d])
             /\ Once(Tail(inbox[d]), Append(notices[d], Result(Head(inbox[d]), e)))
             /\ From(inbox[d], notices[d], {}, Tail(inbox[d]), notices[d])
             /\ From(inbox[d], notices[d], {}, Tail(inbox[d]), Append(notices[d], Result(Head(inbox[d]), e)))
      BY <2>1, <2>2, <2>3, OnceReceive, FromReceive
    <3> QED
      BY <2>6, <3>1
  <2>8. Counted(Tail(inbox[d]), notices'[d], counter[d])
    <3>1. /\ notices'[d] \in Seq(Notice) /\ counter[d] <= counter[d]
          /\ \A p \in {} : p = Null \/ p < counter[d]
      BY <2>1, <2>3
    <3> QED
      BY <2>1, <2>2, <2>3, <2>7, <3>1, FromCounted
  <2>9. Fresh(d)'
    <3>1. leaving[d] = "no" => Stays(Tail(inbox[d]), notices'[d])
      BY <2>2, <2>7, FromStays DEF Fresh
    <3> QED
      BY <2>1, <2>2, <2>4, <3>1 DEF Fresh, Live
  <2>10. Held(d)'
    BY <2>1, <2>2, <2>5 DEF Held
  <2>11. ~Leads(d)' \/ (Register(d) /\ registry'[UserOf[d]] = Agent(d))
    <3>1. registry \in [Uids -> Address \cup {Null}] /\ UserOf[d] \in Uids
      BY Constants DEF BaseInv, TypeOK
    <3>2. CASE Refuse(d)
      BY <3>1, <3>2 DEF Refuse, BaseInv, RegistryOK, Leads
    <3>3. CASE Register(d)
      BY <3>1, <3>3 DEF Register
    <3>4. CASE RegisterReplyFails(d) \/ Unregister(d)
      BY <3>1, <3>4 DEF RegisterReplyFails, Unregister, Erase, Leads
    <3> QED
      BY <3>2, <3>3, <3>4 DEF CallTaken
  <2>12. Registration(d)'
    <3>1. CASE ~Leads(d)'
      BY <3>1 DEF Registration
    <3>2. CASE Register(d) /\ registry'[UserOf[d]] = Agent(d)
      <4>1. registry'[UserOf[d]].path = Head(inbox[d]) /\ Head(inbox[d]) # Null
        BY <3>2 DEF Agent, Register, Receive
      <4>2. Head(inbox[d]) < counter[d]
        BY <2>2, <2>5, <4>1 DEF Counted
      <4>3. notices'[d] = Append(notices[d], Result(Head(inbox[d]), FALSE))
        BY <2>6, <3>2
      <4>4. d \notin late => Head(inbox[d]) \in pending[d]
        BY <2>2, <2>5, <4>1 DEF Held
      <4>5. d \notin late => Kept(Tail(inbox[d]), notices'[d], pending[d], current[d], Head(inbox[d]))
        BY <2>1, <2>2, <2>3, <4>1, <4>3, <4>4, KeptRegister
      <4> QED
        BY <2>1, <4>1, <4>2, <4>5 DEF Registration
    <3> QED
      BY <2>11, <3>1, <3>2
  <2>13. Leaves(d)'
    <3> SUFFICES ASSUME leaving[d] # "no", d \notin late
                 PROVE  /\ Out(d)' \/ (leaving[d] = "called" /\ LastCall(Tail(inbox[d])))
                        /\ \A i \in DOMAIN notices'[d] : IsUnregistered(notices'[d][i]) => Out(d)'
      BY <2>1 DEF Leaves
    <3>1. leaving[d] = "called" /\ LastCall(inbox[d])
      BY <2>1, <2>2 DEF Leaves, Out
    <3>2. CASE Head(inbox[d]) = Null
      <4>1. Tail(inbox[d]) = <<>>
        BY <2>1, <3>1, <3>2, LastCallTaken
      <4>2. ~Leads(d)'
        BY <2>11, <3>2 DEF Register, Receive
      <4> QED
        BY <2>1, <4>1, <4>2 DEF Out
    <3>3. CASE Head(inbox[d]) # Null
      <4>1. LastCall(Tail(inbox[d]))
        BY <2>1, <3>1, <3>3, LastCallTaken
      <4>2. \A i \in DOMAIN notices[d] : ~IsUnregistered(notices[d][i])
        BY <2>1, <2>2 DEF Leaves, Out
      <4>3. \A i \in DOMAIN notices'[d] : ~IsUnregistered(notices'[d][i])
        <5>1. CASE notices'[d] = notices[d]
          BY <4>2, <5>1
        <5>2. ASSUME NEW e \in BOOLEAN, notices'[d] = Append(notices[d], Result(Head(inbox[d]), e))
              PROVE  \A i \in DOMAIN notices'[d] : ~IsUnregistered(notices'[d][i])
          <6>1. PICK r \in Notice : r = Result(Head(inbox[d]), e) /\ r.path = Head(inbox[d])
            <7>1. e \in BOOLEAN /\ Head(inbox[d]) \in Paths \cup {Null}
              BY <2>1, <5>2
            <7> HIDE <5>2
            <7> QED
              BY <7>1, Notices
          <6>2. PICK n : n = notices'[d] /\ n = Append(notices[d], r)
            BY <5>2, <6>1
          <6>3. \A i \in DOMAIN n : (i \in DOMAIN notices[d] /\ n[i] = notices[d][i]) \/ n[i] = r
            BY <2>3, <6>2, Appended
          <6> QED
            BY <3>3, <4>2, <6>1, <6>2, <6>3 DEF IsUnregistered
        <5> QED
          BY <2>6, <5>1, <5>2
      <4> QED
        BY <3>1, <4>1, <4>3
    <3> QED
      BY <3>2, <3>3
  <2> QED
    BY <1>2, <2>1, <2>7, <2>8, <2>9, <2>10, <2>12, <2>13 DEF DaemonOK
<1> QED
  BY <1>1, <1>2

LEMMA TakenStepOK ==
    ASSUME BaseInv, \A e \in Daemons : DaemonOK(e), NEW d \in Daemons, CallTaken(d)
    PROVE  \A e \in Daemons : DaemonOK(e)'
<1>1. DaemonOK(d)'
  BY TakenOK
<1>2. ASSUME NEW e \in Daemons, e # d PROVE DaemonOK(e)'
  <2>1. /\ UNCHANGED <<phase, counter, pending, current, leaving, late>>
        /\ inbox'[e] = inbox[e] /\ notices'[e] = notices[e]
    BY <1>2, Taken DEF BaseInv, daemon
  <2>2. UserOf[e] \in Uids
    BY Constants
  <2>3. \/ registry'[UserOf[e]] = registry[UserOf[e]]
        \/ registry'[UserOf[e]] = Null
        \/ registry'[UserOf[e]] = Agent(d)
    BY <2>2, Registers DEF BaseInv
  <2>4. Leads(e)' => registry'[UserOf[e]] = registry[UserOf[e]]
    BY <1>2, <2>3 DEF Leads, Agent
  <2> QED
    BY <2>1, <2>4, LeftAlone
<1> QED
  BY <1>1, <1>2

\* The helper gets its name, installs its handlers, and ends.
LEMMA HelperStepOK ==
    ASSUME BaseInv, \A e \in Daemons : DaemonOK(e), OwnName \/ InstallHandlers \/ HelperEnds
    PROVE  \A e \in Daemons : DaemonOK(e)'
<1> SUFFICES ASSUME NEW d \in Daemons PROVE DaemonOK(d)'
  OBVIOUS
<1>1. CASE InstallHandlers
  BY <1>1, LeftAlone DEF InstallHandlers, bus, daemon, ghost
<1>2. CASE phase[d] = "gone" /\ (OwnName \/ HelperEnds)
  BY <1>2 DEF OwnName, HelperEnds, daemon, DaemonOK
<1>3. CASE phase[d] # "gone" /\ (OwnName \/ HelperEnds)
  <2>1. UNCHANGED <<phase, counter, pending, current, leaving, late>>
    BY <1>3 DEF OwnName, HelperEnds, daemon
  <2>2. /\ Once(inbox[d], notices[d]) /\ Counted(inbox[d], notices[d], counter[d])
        /\ Fresh(d) /\ Held(d) /\ Leaves(d)
    BY <1>3 DEF DaemonOK
  <2>3. /\ inbox[d] \in Queue /\ notices[d] \in Seq(Notice) /\ counter[d] \in Nat /\ phase[d] \in Phases
        /\ UserOf[d] \in Uids
    BY DaemonTypes
  <2>4. inbox'[d] = <<>> /\ ~Leads(d)'
    <3>1. CASE OwnName
      BY <2>3, <3>1, DaemonTypes DEF OwnName, Leads, BaseInv, RegistryOK
    <3>2. CASE HelperEnds
      BY <2>3, <3>2 DEF HelperEnds, Leads
    <3> QED
      BY <1>3, <3>1, <3>2
  <2>5. \/ phase[d] = "new" /\ notices'[d] = notices[d]
        \/ OwnName /\ notices'[d] = Append(notices[d], Registered) /\ inbox[d] = <<>>
        \/ HelperEnds /\ notices'[d] = notices[d] \o Errors(inbox[d])
    <3>1. CASE OwnName
      BY <1>3, <2>3, <3>1, DaemonTypes DEF OwnName, Live, Phases
    <3>2. CASE HelperEnds
      BY <1>3, <2>3, <3>2 DEF HelperEnds, Live, Phases, Errors
    <3> QED
      BY <1>3, <3>1, <3>2
  <2>6. /\ Once(<<>>, notices'[d]) /\ Counted(<<>>, notices'[d], counter[d])
        /\ (Stays(inbox[d], notices[d]) => Stays(<<>>, notices'[d]))
    <3>1. CASE phase[d] = "new" /\ notices'[d] = notices[d]
      BY <2>2, <3>1 DEF Fresh
    <3>2. PICK q \in Queue : q = <<>>
      BY EmptySeq DEF Queue
    <3>3. CASE \/ notices'[d] = Append(notices[d], Registered) /\ inbox[d] = <<>>
               \/ notices'[d] = notices[d] \o Errors(inbox[d])
      <4>1. Once(<<>>, notices'[d]) /\ From(inbox[d], notices[d], {}, <<>>, notices'[d])
        BY <2>2, <2>3, <3>3, OnceNotice, OnceErrors, FromNotice, FromErrors
      <4>2. notices'[d] \in Seq(Notice)
        BY HelperBase DEF BaseInv, TypeOK
      <4>3. counter[d] <= counter[d] /\ \A p \in {} : p = Null \/ p < counter[d]
        BY <2>3
      <4>4. Counted(<<>>, notices'[d], counter[d])
        BY <2>2, <2>3, <3>2, <4>1, <4>2, <4>3, FromCounted
      <4>5. Stays(inbox[d], notices[d]) => Stays(<<>>, notices'[d])
        BY <4>1, FromStays
      <4> QED
        BY <4>1, <4>4, <4>5
    <3> QED
      BY <2>5, <3>1, <3>3
  <2>7. Fresh(d)'
    <3>1. phase[d] = "new" => notices'[d] = <<>>
      <4>1. CASE phase[d] = "new"
        <5>1. ~Live(d)
          BY <4>1 DEF Live
        <5> QED
          BY <1>3, <2>2, <4>1, <5>1 DEF OwnName, HelperEnds, Fresh
      <4> QED
        BY <4>1
    <3> QED
      BY <2>1, <2>2, <2>4, <2>6, <3>1 DEF Fresh, Live
  <2>8. Held(d)'
    <3>1. DOMAIN <<>> = {}
      BY EmptySeq
    <3> QED
      BY <2>4, <3>1 DEF Held
  <2>9. Registration(d)' /\ Leaves(d)'
    BY <2>4 DEF Registration, Leaves, Out
  <2> QED
    BY <1>3, <2>1, <2>4, <2>6, <2>7, <2>8, <2>9 DEF DaemonOK
<1> QED
  BY <1>1, <1>2, <1>3

LEMMA InvInit == Init => Inv
<1> SUFFICES ASSUME Init PROVE Inv
  OBVIOUS
<1>1. BaseInv
  BY BaseInit
<1>2. ASSUME NEW d \in Daemons PROVE DaemonOK(d)
  <2>1. /\ inbox[d] = <<>> /\ notices[d] = <<>> /\ phase[d] = "new" /\ leaving[d] = "no" /\ ~Leads(d)
    BY Constants DEF Init, Leads
  <2>2. DOMAIN <<>> = {}
    BY EmptySeq
  <2>3. Once(<<>>, <<>>) /\ Counted(<<>>, <<>>, counter[d]) /\ Stays(<<>>, <<>>)
    BY <2>2 DEF Once, Counted, Stays
  <2> QED
    BY <2>1, <2>2, <2>3 DEF DaemonOK, Fresh, Held, Registration, Leaves
<1> QED
  BY <1>1, <1>2 DEF Inv

LEMMA InvStep == Inv /\ [Next]_vars => Inv'
<1> SUFFICES ASSUME Inv, [Next]_vars PROVE \A d \in Daemons : DaemonOK(d)'
  BY BaseStep DEF Inv
<1>1. BaseInv /\ \A d \in Daemons : DaemonOK(d)
  BY DEF Inv
<1>2. ASSUME UNCHANGED <<registry, bus, daemon, ghost>> PROVE \A d \in Daemons : DaemonOK(d)'
  BY <1>1, <1>2, LeftAlone DEF bus, daemon, ghost
<1>3. CASE UNCHANGED vars
  BY <1>2, <1>3 DEF vars
<1>4. CASE \E d \in Daemons : DaemonStep(d)
  BY <1>1, <1>4, DaemonStepOK
<1>5. CASE \E d \in Daemons : CallTaken(d)
  BY <1>1, <1>5, TakenStepOK
<1>6. CASE OwnName \/ InstallHandlers \/ HelperEnds
  BY <1>1, <1>6, HelperStepOK
<1>7. CASE \E c \in Callers : CallerStep(c)
  BY <1>1, <1>2, <1>7, CallerBase
<1> QED
  BY <1>3, <1>4, <1>5, <1>6, <1>7 DEF Next, DaemonStep, CallTaken, CallerStep

LEMMA DaemonsInvariant == Spec => []Inv
BY InvInit, InvStep, PTL DEF Spec

\* As long as a daemon got the replies to its announcements in time, the path the
\* helper's registry leads to is one it still exports: it is that of the last
\* announcement that succeeded, whose skeleton is either still held by its
\* callback or has replaced all others in the daemon's own registry.
THEOREM RegisteredAgentsExported == Spec => []RegisteredAgentIsExported
<1>1. ASSUME Inv PROVE RegisteredAgentIsExported
  <2> SUFFICES ASSUME NEW u \in Uids, registry[u] # Null, Live(registry[u].daemon),
                      registry[u].daemon \notin late
               PROVE  registry[u].path \in Exported(registry[u].daemon)
    BY DEF RegisteredAgentIsExported
  <2>1. registry[u] \in Address /\ UserOf[registry[u].daemon] = u
    BY <1>1 DEF Inv, BaseInv, TypeOK, RegistryOK
  <2>2. PICK d \in Daemons : d = registry[u].daemon
    BY <2>1 DEF Address
  <2>3. Leads(d) /\ registry[UserOf[d]] = registry[u] /\ phase[d] # "gone"
    BY <2>1, <2>2 DEF Leads, Live
  <2>4. Kept(inbox[d], notices[d], pending[d], current[d], registry[u].path)
    BY <1>1, <2>2, <2>3 DEF Inv, DaemonOK, Registration
  <2>5. registry[u].path # Null
    BY <2>1, Constants DEF Address
  <2> QED
    BY <2>2, <2>4, <2>5 DEF Kept, Exported
<1> QED
  BY <1>1, DaemonsInvariant, PTL

\* unregister_agent_for_user that returned without an error holds: as the call to
\* unregister is the daemon's last one and calls stay in order, nothing that was
\* under way can register it again.
THEOREM WithdrawnAgentsNotAsked == Spec => []WithdrawnAgentIsNotAsked
<1>1. ASSUME Inv PROVE WithdrawnAgentIsNotAsked
  <2> SUFFICES ASSUME NEW d \in Daemons, leaving[d] \in {"ok", "left"}, d \notin late
               PROVE  ~Leads(d)
    BY DEF WithdrawnAgentIsNotAsked, Leads
  <2>1. DaemonOK(d) /\ phase[d] # "gone"
    BY <1>1 DEF Inv, DaemonOK
  <2> QED
    BY <2>1 DEF DaemonOK, Leaves, Out
<1> QED
  BY <1>1, DaemonsInvariant, PTL
=============================================================================
