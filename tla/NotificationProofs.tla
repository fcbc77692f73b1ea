-------------------------- MODULE NotificationProofs --------------------------
(***************************************************************************)
(* What Notification promises, for every set of eUICCs, EUMs, ICCIDs and   *)
(* contents, and any number of signatures and downloads.                   *)
(*                                                                         *)
(* What the scan of profileManagementOperation ends with is proved first,  *)
(* of BIT STRINGs of any length; nothing behind that expands Operation.    *)
(***************************************************************************)
EXTENDS Notification, DataInduction

-----------------------------------------------------------------------------
(* The invariant *)

\* What the caller keeps for an ICCID is an eUICC that had the Profile.
KeptIsHolder ==
  /\ kept \in [Iccids -> Cards \cup {None}]
  /\ \A i \in Iccids : kept[i] # None => <<i, kept[i]>> \in held

\* The notification at hand carries a signature somebody made; what was read
\* in it is its own, and what was looked up for it held that Profile.
PendingIsRead ==
  pending # None =>
    /\ pending.message \in Messages(signed)
    /\ pending.ret = 0 =>
         /\ pending.message # Undecodable
         /\ pending.out = ReadOut(pending.message)
    /\ pending.given # None =>
         /\ pending.given \in Cards
         /\ pending.ret = 0
         /\ <<pending.out.iccid, pending.given>> \in held

NInv ==
  /\ KeptIsHolder
  /\ PendingIsRead
  /\ ToldIsSigned
  /\ FiledUnderHolder
  /\ ReadIsVerified
  /\ GenuineIsAccepted

-----------------------------------------------------------------------------
(* The scan *)

\* The bits of a BIT STRING that count: those in front of the unused ones.
Used(b) == {p \in b.set : p < b.size * OctetBits - b.bits_unused}

\* A bit of a BIT STRING is scanned exactly if it is in front of them.
LEMMA ScannedIsUsed ==
  ASSUME NEW b \in BitStrings, NEW p \in 0..(b.size * OctetBits - 1)
  PROVE  Scanned(b, p) <=> p < b.size * OctetBits - b.bits_unused
<1> DEFINE w == OctetBits
           q == p \div w
           r == p % w
           n == b.size
           u == b.bits_unused
<1>1. w \in Nat \ {0} /\ n \in Nat /\ u \in 0..(w - 1) /\ n * w \in Nat /\ p \in Nat
  BY NotificationAssumption DEF BitStrings
<1>2. q \in Nat /\ r \in 0..(w - 1) /\ p = q * w + r
  BY <1>1, Division
<1>3. Scanned(b, p) <=> ~(q + 1 = n /\ r >= w - u)
  BY DEF Scanned
<1> HIDE DEF q, r, n, u, w
<1>4. p < n * w
  BY <1>1 DEF n, w
<1>5. q < n
  <2>1. CASE q >= n
    <3>1. q * w >= n * w
      BY <1>1, <1>2, <2>1
    <3> QED BY <1>1, <1>2, <1>4, <3>1
  <2> QED BY <1>1, <1>2, <2>1
<1>6. CASE q + 1 = n
  <2>1. n * w = q * w + w
    BY <1>1, <1>2, <1>6
  <2>2. q * w \in Nat
    BY <1>1, <1>2
  <2> QED BY <1>1, <1>2, <1>3, <1>6, <2>1, <2>2 DEF n, u, w
<1>7. CASE q + 1 # n
  <2>1. (q + 2) * w <= n * w
    BY <1>1, <1>2, <1>5, <1>7
  <2>2. (q + 2) * w = q * w + w + w /\ q * w \in Nat
    BY <1>1, <1>2
  <2> QED BY <1>1, <1>2, <1>3, <1>7, <2>1, <2>2 DEF n, u, w
<1> QED BY <1>6, <1>7

Accumulators == [found : Int, done : BOOLEAN]

\* What the scan holds after the bits below p: no bit yet, the one there was,
\* or the knowledge that there were two.
Found(b, acc, p) ==
  LET seen == {q \in Used(b) : q < p}
  IN  \/ acc = [found |-> -1, done |-> FALSE] /\ seen = {}
      \/ acc.done = FALSE /\ acc.found \in Nat /\ seen = {acc.found}
      \/ /\ acc = [found |-> -1, done |-> TRUE]
         /\ \E q, r \in seen : q # r

\* A turn of the scan keeps that so.
LEMMA ScanStepFinds ==
  ASSUME NEW b \in BitStrings, NEW p \in 0..(b.size * OctetBits - 1),
         NEW acc \in Accumulators, Found(b, acc, p)
  PROVE  /\ ScanStep(b, acc, p) \in Accumulators
         /\ Found(b, ScanStep(b, acc, p), p + 1)
<1> DEFINE seen == {q \in Used(b) : q < p}
           next == {q \in Used(b) : q < p + 1}
           new == ScanStep(b, acc, p)
<1>1. /\ p \in Nat /\ b.set \subseteq Nat
      /\ b.size * OctetBits \in Nat /\ b.bits_unused \in Nat
  BY NotificationAssumption DEF BitStrings
<1>2. Used(b) \subseteq Nat
  BY <1>1 DEF Used
<1>3. p \in Used(b) <=> Scanned(b, p) /\ p \in b.set
  BY ScannedIsUsed DEF Used
<1>4. next = IF p \in Used(b) THEN seen \cup {p} ELSE seen
  BY <1>1, <1>2
<1>5. CASE acc.done \/ p \notin Used(b)
  <2>1. new = acc
    BY <1>3, <1>5 DEF ScanStep, Accumulators
  <2>2. seen \subseteq next
    BY <1>4
  <2>3. ~acc.done => next = seen
    BY <1>4, <1>5
  <2> QED BY <2>1, <2>2, <2>3 DEF Found, Accumulators
<1>6. CASE ~acc.done /\ p \in Used(b)
  <2>1. next = seen \cup {p} /\ p \notin seen
    BY <1>1, <1>4, <1>6
  <2>2. CASE acc.found >= 0
    <3>1. new = [found |-> -1, done |-> TRUE]
      BY <1>3, <1>6, <2>2 DEF ScanStep
    <3>2. acc.found \in seen
      BY <1>6, <2>2 DEF Found
    <3>3. \E q, r \in next : q # r
      BY <2>1, <3>2
    <3> QED BY <3>1, <3>3 DEF Found, Accumulators
  <2>3. CASE ~(acc.found >= 0)
    <3>1. new = [found |-> p, done |-> FALSE]
      BY <1>3, <1>6, <2>3 DEF ScanStep, Accumulators
    <3>2. seen = {}
      BY <1>6, <2>3 DEF Found
    <3> QED BY <1>1, <2>1, <3>1, <3>2 DEF Found, Accumulators
  <2> QED BY <2>2, <2>3
<1> QED BY <1>5, <1>6

\* The scan goes over all bits, so it ends with the one bit that is set, or
\* with none where there is none or more than one.
LEMMA OperationFinds ==
  ASSUME NEW b \in BitStrings
  PROVE  \E done \in BOOLEAN :
           /\ Operation(b) \in Int
           /\ Found(b, [found |-> Operation(b), done |-> done], b.size * OctetBits)
<1> DEFINE n == b.size * OctetBits
           start == [found |-> -1, done |-> FALSE]
           V == Accumulators
           turn == [p \in 1..n |-> [acc \in V |-> ScanStep(b, acc, p - 1)]]
           Scan(g) == [p \in 0..n |-> IF p = 0 THEN start ELSE ScanStep(b, g[p - 1], p - 1)]
           scan == CHOOSE g : g = Scan(g)
<1>1. n \in Nat /\ start \in V
  BY NotificationAssumption DEF BitStrings, Accumulators
<1>2. \A p \in 1..n, acc \in V : ScanStep(b, acc, p - 1) \in V
  <2> SUFFICES ASSUME NEW p \in 1..n, NEW acc \in V
               PROVE  ScanStep(b, acc, p - 1) \in V
    OBVIOUS
  <2>1. p - 1 \in Int
    BY <1>1
  <2> QED BY <2>1 DEF ScanStep, Accumulators
<1> HIDE DEF n
<1>3. turn \in Turns(n, V)
  BY <1>2 DEF Turns
<1>4. PICK g : IsTrace(g, n, V, start, turn)
  <2> HIDE DEF V, start, turn
  <2> QED BY <1>1, <1>3, Traced
<1>5. g \in [0..n -> V] /\ g[0] = start /\ \A p \in 1..n : g[p] = turn[p][g[p - 1]]
  BY <1>4 DEF IsTrace
<1>6. \A p \in 1..n : g[p] = ScanStep(b, g[p - 1], p - 1)
  <2> SUFFICES ASSUME NEW p \in 1..n PROVE g[p] = ScanStep(b, g[p - 1], p - 1)
    OBVIOUS
  <2>1. p - 1 \in 0..n
    BY <1>1
  <2>2. g[p - 1] \in V
    BY <1>5, <2>1
  <2>3. turn[p][g[p - 1]] = ScanStep(b, g[p - 1], p - 1)
    BY <2>2
  <2> QED BY <1>5, <2>3
<1>7. g = Scan(g)
  <2>1. \A p \in 0..n : g[p] = IF p = 0 THEN start ELSE ScanStep(b, g[p - 1], p - 1)
    BY <1>5, <1>6
  <2>2. g = [p \in 0..n |-> g[p]]
    BY <1>5
  <2> QED BY <2>1, <2>2, Zenon
<1>8. scan = Scan(scan)
  <2> HIDE DEF Scan
  <2> QED BY <1>7
<1>9. scan[n].found = Operation(b)
  BY DEF Operation, n
<1> HIDE DEF scan
<1>10. /\ scan[0] = start
       /\ \A p \in 1..n : scan[p] = ScanStep(b, scan[p - 1], p - 1)
  <2>1. \A p \in 0..n : scan[p] = IF p = 0 THEN start ELSE ScanStep(b, scan[p - 1], p - 1)
    BY <1>8
  <2> QED BY <1>1, <2>1
<1> DEFINE S == {p \in 0..n : scan[p] \in V /\ Found(b, scan[p], p)}
<1>11. 0 \in S
  <2>1. {q \in Used(b) : q < 0} = {}
    BY DEF Used, BitStrings
  <2> QED BY <1>1, <1>10, <2>1 DEF Found
<1>12. \A p \in 0..(n - 1) : p \in S => p + 1 \in S
  <2> SUFFICES ASSUME NEW p \in 0..(n - 1), scan[p] \in V, Found(b, scan[p], p)
               PROVE  p + 1 \in S
    OBVIOUS
  <2>1. p + 1 \in 0..n /\ p + 1 \in 1..n /\ (p + 1) - 1 = p
    BY <1>1
  <2>2. scan[p + 1] = ScanStep(b, scan[p], p)
    BY <1>10, <2>1
  <2>3. scan[p + 1] \in V /\ Found(b, scan[p + 1], p + 1)
    BY <2>2, ScanStepFinds DEF n
  <2> QED BY <2>1, <2>3
<1>13. n \in S
  <2>1. \A p \in 0..n : p \in S
    <3> HIDE DEF S
    <3> QED BY <1>1, <1>11, <1>12, BoundedInduction
  <2> QED BY <1>1, <2>1
<1>14. scan[n] \in V /\ Found(b, scan[n], n)
  BY <1>13
<1>15. scan[n] = [found |-> Operation(b), done |-> scan[n].done]
  BY <1>9, <1>14 DEF Accumulators
<1> QED BY <1>9, <1>14, <1>15 DEF Accumulators, n

\* In other words.
LEMMA OperationIs ==
  ASSUME NEW b \in BitStrings
  PROVE  /\ Operation(b) \in Int
         /\ IF Cardinality(Used(b)) = 1 THEN Used(b) = {Operation(b)}
            ELSE Operation(b) = -1
<1> DEFINE n == b.size * OctetBits
<1>1. PICK done \in BOOLEAN :
        /\ Operation(b) \in Int
        /\ Found(b, [found |-> Operation(b), done |-> done], n)
  BY OperationFinds
<1>2. n \in Nat /\ b.set \subseteq Nat /\ b.bits_unused \in Nat
  BY NotificationAssumption DEF BitStrings
<1>3. {q \in Used(b) : q < n} = Used(b)
  BY <1>2 DEF Used
<1>4. IsFiniteSet(Used(b))
  <2>1. Used(b) \subseteq 0..n
    BY <1>2 DEF Used
  <2>2. IsFiniteSet(0..n)
    BY <1>2, FS_Interval
  <2> QED BY <2>1, <2>2, FS_Subset
<1>5. Cardinality(Used(b)) = 1 <=> \E x : Used(b) = {x}
  BY <1>4, FS_Singleton
<1>6. \/ Operation(b) = -1 /\ Used(b) = {}
      \/ Used(b) = {Operation(b)}
      \/ Operation(b) = -1 /\ \E q, r \in Used(b) : q # r
  BY <1>1, <1>3 DEF Found
<1> QED BY <1>1, <1>5, <1>6

-----------------------------------------------------------------------------
(* Messages and what is told of them *)

\* What is in a message that could be decoded.
LEMMA MessageShape ==
  ASSUME NEW S, NEW m \in Messages(S), m # Undecodable
  PROVE  /\ m.metadata \in Metas
         /\ m.signature \in S \cup {None}
         /\ \/ m.arm = "result" /\ m.success \in BOOLEAN
            \/ m.arm = "other"
BY DEF Messages

\* Signatures are never taken back, so neither are messages.
LEMMA MessagesGrow ==
  ASSUME NEW S, NEW T, S \subseteq T
  PROVE  Messages(S) \subseteq Messages(T)
BY DEF Messages

\* notification_meta never touches installed, and tells an ICCID only of ten
\* octets.
LEMMA MetaTold ==
  ASSUME NEW d
  PROVE  LET r == NotificationMeta(d, Cleared)
         IN  /\ r.out = [is_installation_result |-> 0,
                         seq_number |-> r.out.seq_number,
                         operation |-> r.out.operation,
                         iccid |-> r.out.iccid,
                         installed |-> 0]
             /\ r.ok = (d.seqNumber # TooWide /\ d.iccid # NotTen)
BY DEF NotificationMeta, Cleared

\* The signed part of a message is what some card could have signed.
LEMMA TbsShape ==
  ASSUME NEW S, NEW m \in Messages(S), m # Undecodable
  PROVE  Tbs(m) \in ResultContents \cup OtherContents
<1>1. /\ m.metadata \in NotificationMetadata
      /\ (m.arm = "result" /\ m.success \in BOOLEAN) \/ m.arm = "other"
  BY MessageShape, NotificationAssumption
<1> QED BY <1>1 DEF Tbs, ResultContents, OtherContents

\* What the two functions tell of one message is the same but for installed.
LEMMA ReadAlike ==
  ASSUME NEW S, NEW m \in Messages(S), m # Undecodable,
         NotificationMeta(m.metadata, Cleared).ok
  PROVE  /\ [VerdictOf(m) EXCEPT !.installed = 0] = ReadOut(m)
         /\ VerdictOf(m).iccid = ReadOut(m).iccid
         /\ VerdictOf(m).installed = 1 => m.arm = "result" /\ m.success
<1> DEFINE r == NotificationMeta(m.metadata, Cleared)
           Told(arm, done) == [is_installation_result |-> arm,
                               seq_number |-> r.out.seq_number,
                               operation |-> r.out.operation,
                               iccid |-> r.out.iccid, installed |-> done]
<1>1. r.out = Told(0, 0)
  BY MetaTold
<1>2. (m.arm = "result" /\ m.success \in BOOLEAN) \/ m.arm = "other"
  BY MessageShape
<1>3. \A arm, done : [Told(arm, done) EXCEPT !.installed = 0] = Told(arm, 0)
  <2> HIDE DEF r
  <2> QED OBVIOUS
<1>4. CASE m.arm = "result"
  <2>1. ReadOut(m) = [Told(0, 0) EXCEPT !.is_installation_result = 1]
    BY <1>1, <1>4 DEF ReadOut
  <2>2. VerdictOf(m) = [Told(0, 0) EXCEPT !.is_installation_result = 1,
                                          !.installed = IF m.success THEN 1 ELSE 0]
    BY <1>1, <1>4 DEF VerdictOf
  <2> HIDE DEF r
  <2>3. ReadOut(m) = Told(1, 0)
    BY <2>1
  <2>4. VerdictOf(m) = Told(1, IF m.success THEN 1 ELSE 0)
    BY <2>2
  <2> QED BY <1>2, <1>3, <1>4, <2>3, <2>4
<1>5. CASE m.arm = "other"
  <2>1. ReadOut(m) = Told(0, 0)
    BY <1>1, <1>5 DEF ReadOut
  <2>2. VerdictOf(m) = [Told(0, 0) EXCEPT !.is_installation_result = 0]
    BY <1>1, <1>5 DEF VerdictOf
  <2> HIDE DEF r
  <2>3. VerdictOf(m) = Told(0, 0)
    BY <2>2
  <2> QED BY <1>3, <2>1, <2>3
<1> QED BY <1>2, <1>4, <1>5

\* A message the library takes for genuine carries a signature made over it
\* by the eUICC it names or is held against, and by the one that is asked for.
LEMMA GenuineIsSigned ==
  ASSUME NEW S, NEW m \in Messages(S), NEW given \in Cards \cup {None},
         Asked(m, given), Genuine(m, given)
  PROVE  /\ [key |-> Signer(m, given), over |-> Tbs(m)] \in S
         /\ m.arm = "result" => Signer(m, given) = given
         /\ given # None => Signer(m, given) = given
<1>1. /\ m.signature \in S
      /\ m.arm = "result" \/ m.arm = "other"
  BY MessageShape DEF Asked
<1>2. m.signature = [key |-> Signer(m, given), over |-> Tbs(m)]
  BY DEF Genuine, SignedBy
<1> QED BY <1>1, <1>2 DEF Signer, Genuine, OtherEuicc

-----------------------------------------------------------------------------
(* One lemma per action *)

\* A step that makes no verification leaves nothing to show of one.
LEMMA NoVerdict ==
  ASSUME KeptIsHolder', PendingIsRead', last' = None \/ last'.fn = "read"
  PROVE  NInv'
BY DEF NInv, ToldIsSigned, FiledUnderHolder, ReadIsVerified, GenuineIsAccepted

\* Nothing has been downloaded, kept or signed.
LEMMA InitHolds == NotifInit => NInv
BY DEF NotifInit, NInv, KeptIsHolder, PendingIsRead, ToldIsSigned,
       FiledUnderHolder, ReadIsVerified, GenuineIsAccepted

\* A download replaces what is kept and is remembered by the card.
LEMMA DownloadsKeeps ==
  ASSUME NInv, NEW i \in Iccids, NEW c \in Cards, Downloads(i, c)
  PROVE  NInv'
<1>1. KeptIsHolder'
  <2>1. /\ kept \in [Iccids -> Cards \cup {None}]
        /\ \A j \in Iccids : kept[j] # None => <<j, kept[j]>> \in held
    BY DEF NInv, KeptIsHolder
  <2>2. kept' = [kept EXCEPT ![i] = c] /\ held' = held \cup {<<i, c>>}
    BY DEF Downloads
  <2> QED BY <2>1, <2>2 DEF KeptIsHolder
<1>2. PendingIsRead'
  BY DEF NInv, PendingIsRead, Downloads
<1> QED BY <1>1, <1>2, NoVerdict DEF Downloads

\* A signature can only add to what a message may carry.
LEMMA SignsKeeps ==
  ASSUME NInv, NEW c \in Cards, Signs(c)
  PROVE  NInv'
<1>1. signed \subseteq signed'
  BY DEF Signs
<1>2. Messages(signed) \subseteq Messages(signed')
  BY <1>1, MessagesGrow
<1>3. KeptIsHolder' /\ PendingIsRead'
  BY <1>2 DEF NInv, KeptIsHolder, PendingIsRead, Signs
<1> QED BY <1>3, NoVerdict DEF Signs

\* Without a notification at hand there is nothing to say of one.
LEMMA FinishesKeeps == NInv /\ Finishes => NInv'
<1> SUFFICES ASSUME NInv, Finishes PROVE NInv'
  OBVIOUS
<1>1. KeptIsHolder' /\ PendingIsRead'
  BY DEF NInv, KeptIsHolder, PendingIsRead, Finishes
<1> QED BY <1>1, NoVerdict DEF Finishes

\* What is looked up is looked up under the ICCID that was told.
LEMMA ReadKeeps ==
  ASSUME NInv, NEW m \in Messages(signed), ReadMetadata(m)
  PROVE  NInv'
<1>1. PICK ret, out, short :
        /\ Read(m, ret, out, short)
        /\ ret = 0 => m # Undecodable /\ out = ReadOut(m)
  <2>1. CASE Read(m, -2, Cleared, TRUE)
    <3>1. -2 = 0 => m # Undecodable /\ Cleared = ReadOut(m)
      OBVIOUS
    <3> QED BY <2>1, <3>1
  <2>2. CASE Read(m, -2, Cleared, FALSE)
    <3>1. -2 = 0 => m # Undecodable /\ Cleared = ReadOut(m)
      OBVIOUS
    <3> QED BY <2>2, <3>1
  <2>3. ASSUME m # Undecodable, NEW ret, Read(m, ret, ReadOut(m), FALSE)
        PROVE  \E r, out, short : /\ Read(m, r, out, short)
                                  /\ r = 0 => m # Undecodable /\ out = ReadOut(m)
    BY <2>3
  <2> QED BY <2>1, <2>2, <2>3 DEF ReadMetadata
<1>2. /\ pending' = [message |-> m, given |-> LookedUp(ret, out), ret |-> ret, out |-> out]
      /\ last'.fn = "read"
      /\ UNCHANGED <<held, kept, signed>>
  BY <1>1 DEF Read, Returns
<1>3. KeptIsHolder'
  BY <1>2 DEF NInv, KeptIsHolder
<1>4. LookedUp(ret, out) # None =>
        /\ ret = 0
        /\ LookedUp(ret, out) \in Cards
        /\ <<out.iccid, LookedUp(ret, out)>> \in held
  BY DEF NInv, KeptIsHolder, LookedUp
<1>5. PendingIsRead'
  BY <1>1, <1>2, <1>4 DEF PendingIsRead
<1> QED BY <1>2, <1>3, <1>5, NoVerdict

\* A verification is of the notification at hand, with the certificate that
\* was looked up for it or with none, and ends in one of three ways.
LEMMA VerdictShape ==
  ASSUME NEW given \in Cards \cup {None}, VerifyNotification(given)
  PROVE  LET m == pending.message
             ok == NotificationMeta(m.metadata, Cleared).ok
         IN  /\ pending # None
             /\ given \in {pending.given, None}
             /\ UNCHANGED <<held, kept, signed, pending>>
             /\ last'.fn = "verify"
             /\ last'.message = m /\ last'.given = given
             /\ \/ last'.out_of_memory /\ last'.ret # 0 /\ last'.out = Cleared
                \/ /\ ~Asked(m, given) \/ ~Genuine(m, given)
                   /\ last'.ret # 0 /\ last'.out = Cleared
                \/ /\ Asked(m, given) /\ Genuine(m, given)
                   /\ last'.ret = (IF ok THEN 0 ELSE -2)
                   /\ last'.out = VerdictOf(m)
BY DEF VerifyNotification, Returns, Written

\* A verdict is told only over a signature, and no genuine notification is
\* refused with the right certificate.
LEMMA VerifyKeeps ==
  ASSUME NInv, NEW given \in Cards \cup {None}, VerifyNotification(given)
  PROVE  NInv'
<1> DEFINE m == pending.message
           ok == NotificationMeta(m.metadata, Cleared).ok
           accepted == Asked(m, given) /\ Genuine(m, given)
<1>1. /\ pending # None
      /\ given \in {pending.given, None}
      /\ UNCHANGED <<held, kept, signed, pending>>
      /\ last'.message = m /\ last'.given = given
      /\ \/ last'.out_of_memory /\ last'.ret # 0 /\ last'.out = Cleared
         \/ ~accepted /\ last'.ret # 0 /\ last'.out = Cleared
         \/ /\ accepted
            /\ last'.ret = (IF ok THEN 0 ELSE -2)
            /\ last'.out = VerdictOf(m)
  BY VerdictShape
<1>2. /\ m \in Messages(signed)
      /\ pending.ret = 0 => m # Undecodable /\ pending.out = ReadOut(m)
      /\ pending.given # None =>
           /\ pending.given \in Cards
           /\ pending.ret = 0
           /\ <<pending.out.iccid, pending.given>> \in held
  BY <1>1 DEF NInv, PendingIsRead
<1>3. KeptIsHolder' /\ PendingIsRead'
  BY <1>1 DEF NInv, KeptIsHolder, PendingIsRead
<1>4. ASSUME accepted
      PROVE  /\ m # Undecodable
             /\ [key |-> Signer(m, given), over |-> Tbs(m)] \in signed
             /\ m.arm = "result" => Signer(m, given) = given
             /\ given # None => Signer(m, given) = given
             /\ given = None => m.arm = "other"
  <2>1. m # Undecodable /\ (m.arm = "result" => given # None)
    BY <1>4 DEF Asked
  <2> QED BY <1>2, <1>4, <2>1, GenuineIsSigned, MessageShape
<1>5. ASSUME accepted, ok
      PROVE  /\ [VerdictOf(m) EXCEPT !.installed = 0] = ReadOut(m)
             /\ VerdictOf(m).iccid = ReadOut(m).iccid
             /\ VerdictOf(m).installed = 1 => m.arm = "result" /\ m.success
  BY <1>2, <1>4, <1>5, ReadAlike
<1>6. ASSUME accepted, ~ok PROVE VerdictOf(m).installed = 0
  <2> DEFINE r == NotificationMeta(m.metadata, Cleared)
  <2>1. VerdictOf(m) = r.out
    BY <1>6 DEF VerdictOf
  <2>2. r.out = [is_installation_result |-> 0, seq_number |-> r.out.seq_number,
                 operation |-> r.out.operation, iccid |-> r.out.iccid,
                 installed |-> 0]
    BY MetaTold
  <2> HIDE DEF r
  <2>3. r.out.installed = 0
    BY <2>2
  <2> QED BY <2>1, <2>3
<1> HIDE DEF ok
<1>7. ToldIsSigned'
  <2> SUFFICES ASSUME last'.out # Cleared
               PROVE  /\ \E s \in signed :
                           /\ s.over = Tbs(m)
                           /\ m.arm = "result" => s.key = given
                      /\ last'.out.installed = 1 =>
                           /\ last'.ret = 0
                           /\ [key |-> given,
                               over |-> [arm |-> "result", metadata |-> m.metadata,
                                         success |-> TRUE]] \in signed
    BY <1>1 DEF ToldIsSigned
  <2>1. accepted /\ last'.out = VerdictOf(m) /\ last'.ret = (IF ok THEN 0 ELSE -2)
    BY <1>1
  <2>2. \E s \in signed : s.over = Tbs(m) /\ (m.arm = "result" => s.key = given)
    <3>1. [key |-> Signer(m, given), over |-> Tbs(m)] \in signed
      BY <1>4, <2>1
    <3>2. m.arm = "result" => Signer(m, given) = given
      BY <1>4, <2>1
    <3> QED BY <3>1, <3>2
  <2>3. ASSUME last'.out.installed = 1
        PROVE  /\ last'.ret = 0
               /\ [key |-> given,
                   over |-> [arm |-> "result", metadata |-> m.metadata,
                             success |-> TRUE]] \in signed
    <3>1. ok /\ m.arm = "result" /\ m.success
      BY <1>5, <1>6, <2>1, <2>3
    <3>2. m.success \in BOOLEAN
      BY <1>2, <1>4, <2>1, <3>1, MessageShape
    <3>3. m.success = TRUE
      BY <3>1, <3>2
    <3>4. Tbs(m) = [arm |-> "result", metadata |-> m.metadata, success |-> TRUE]
      BY <3>1, <3>3 DEF Tbs
    <3> QED BY <1>4, <2>1, <3>1, <3>4
  <2> QED BY <2>2, <2>3
<1>8. FiledUnderHolder'
  <2> SUFFICES ASSUME last'.ret = 0, given # None
               PROVE  /\ given \in Cards
                      /\ <<last'.out.iccid, given>> \in held
                      /\ [key |-> given, over |-> Tbs(m)] \in signed
    BY <1>1 DEF FiledUnderHolder
  <2>1. accepted /\ ok /\ last'.out = VerdictOf(m)
    BY <1>1
  <2>2. pending.given = given /\ pending.out = ReadOut(m)
    BY <1>1, <1>2
  <2> QED BY <1>2, <1>4, <1>5, <2>1, <2>2
<1>9. ReadIsVerified'
  <2> SUFFICES ASSUME last'.ret = 0
               PROVE  IF pending.ret = 0
                      THEN [last'.out EXCEPT !.installed = 0] = pending.out
                      ELSE m.arm = "other" /\ given = None
    BY <1>1 DEF ReadIsVerified
  <2>1. accepted /\ ok /\ last'.out = VerdictOf(m)
    BY <1>1
  <2>2. CASE pending.ret = 0
    BY <1>2, <1>5, <2>1, <2>2
  <2>3. CASE pending.ret # 0
    BY <1>1, <1>2, <1>4, <2>1, <2>3
  <2> QED BY <2>2, <2>3
<1>10. GenuineIsAccepted'
  <2> SUFFICES ASSUME ~last'.out_of_memory, last'.ret # 0, m # Undecodable,
                      m.metadata.seqNumber # TooWide, m.metadata.iccid # NotTen,
                      NEW c \in Cards, SignedBy(m, c)
               PROVE  \/ m.arm = "result" /\ given # c
                      \/ /\ m.arm = "other"
                         /\ \/ m.euiccCertificate # c \/ ~Chains(m)
                            \/ given \notin {c, None}
    BY <1>1 DEF GenuineIsAccepted
  <2>1. ok
    BY MetaTold DEF ok
  <2>2. ~accepted
    BY <1>1, <2>1
  <2>3. m.signature # None
    <3>1. Tbs(m) \in ResultContents \cup OtherContents
      BY <1>2, TbsShape
    <3> QED BY <3>1, NotificationAssumption DEF SignedBy
  <2>4. m.arm = "result" \/ m.arm = "other"
    BY <1>2, MessageShape
  <2>5. None # c
    BY NotificationAssumption
  <2> QED BY <2>2, <2>3, <2>4, <2>5 DEF Asked, Genuine, OtherEuicc, Signer
<1> QED BY <1>3, <1>7, <1>8, <1>9, <1>10 DEF NInv

-----------------------------------------------------------------------------
(* Types, and the operation *)

\* What is told and to whom has its type, and the operation told is the one of
\* the scan.
TInv == NotifTypeOK /\ OperationIsTheOneBit

\* notification_meta fills in values of the right types.
LEMMA MetaType ==
  ASSUME NEW d \in Metas
  PROVE  LET r == NotificationMeta(d, Cleared)
         IN  /\ r.out \in Verdicts
             /\ r.ok => r.out.operation = Operation(d.profileManagementOperation)
<1> DEFINE b == d.profileManagementOperation
           r == NotificationMeta(d, Cleared)
<1>1. /\ d.seqNumber \in Int \cup {TooWide} /\ b \in BitStrings
      /\ d.iccid \in Iccids \cup {None, NotTen}
  BY NotificationAssumption DEF NotificationMetadata
<1>2. Operation(b) \in Int
  BY <1>1, OperationIs
<1> HIDE DEF b
<1>3. CASE d.seqNumber = TooWide
  <2>1. r.out = Cleared /\ ~r.ok
    BY <1>3 DEF NotificationMeta
  <2> QED BY <2>1 DEF Cleared, Verdicts
<1>4. CASE d.seqNumber # TooWide
  <2>1. r.out = [is_installation_result |-> 0, seq_number |-> d.seqNumber,
                 operation |-> Operation(b),
                 iccid |-> IF d.iccid \in Iccids THEN d.iccid ELSE None,
                 installed |-> 0]
    BY <1>4 DEF NotificationMeta, Cleared, b
  <2> HIDE DEF r
  <2>2. d.seqNumber \in Int
    BY <1>1, <1>4
  <2>3. r.out \in Verdicts
    BY <1>2, <2>1, <2>2 DEF Verdicts
  <2>4. r.out.operation = Operation(b)
    BY <2>1
  <2> QED BY <2>3, <2>4 DEF b, r
<1> QED BY <1>3, <1>4

\* So do both functions that call it.
LEMMA OutType ==
  ASSUME NEW S, NEW m \in Messages(S), m # Undecodable
  PROVE  LET b == m.metadata.profileManagementOperation
         IN  /\ ReadOut(m) \in Verdicts /\ VerdictOf(m) \in Verdicts
             /\ NotificationMeta(m.metadata, Cleared).ok =>
                  /\ b \in BitStrings
                  /\ ReadOut(m).operation = Operation(b)
                  /\ VerdictOf(m).operation = Operation(b)
<1> DEFINE r == NotificationMeta(m.metadata, Cleared)
           b == m.metadata.profileManagementOperation
<1>1. m.metadata \in Metas
  BY MessageShape
<1>2. b \in BitStrings
  BY <1>1, NotificationAssumption DEF NotificationMetadata
<1>3. r.out \in Verdicts /\ (r.ok => r.out.operation = Operation(b))
  BY <1>1, MetaType
<1>4. \/ ReadOut(m) = r.out
      \/ ReadOut(m) = [r.out EXCEPT !.is_installation_result = 1]
  BY DEF ReadOut
<1>5. \/ VerdictOf(m) = r.out
      \/ VerdictOf(m) = [r.out EXCEPT !.is_installation_result = 0]
      \/ VerdictOf(m) = [r.out EXCEPT !.is_installation_result = 1, !.installed = 1]
      \/ VerdictOf(m) = [r.out EXCEPT !.is_installation_result = 1, !.installed = 0]
  BY DEF VerdictOf
<1> HIDE DEF r, b
<1>6. /\ ReadOut(m) \in Verdicts
      /\ r.ok => ReadOut(m).operation = Operation(b)
  BY <1>3, <1>4 DEF Verdicts
<1>7. /\ VerdictOf(m) \in Verdicts
      /\ r.ok => VerdictOf(m).operation = Operation(b)
  BY <1>3, <1>5 DEF Verdicts
<1> QED BY <1>2, <1>6, <1>7 DEF r, b

\* Nothing has happened.
LEMMA InitTypes == NotifInit => TInv
BY DEF NotifInit, TInv, NotifTypeOK, OperationIsTheOneBit

\* A call that returns 0 tells the operation of the message it was given.
LEMMA ToldOperation ==
  ASSUME NEW b \in BitStrings, NEW told, told = Operation(b)
  PROVE  LET bits == {p \in b.set : p < b.size * OctetBits - b.bits_unused}
         IN  IF Cardinality(bits) = 1 THEN bits = {told} ELSE told = -1
BY OperationIs DEF Used

\* Every notification was signed by cards, or by nobody.
LEMMA SignedMessages ==
  ASSUME NotifTypeOK
  PROVE  Messages(signed) \subseteq Messages(Signatures)
BY MessagesGrow DEF NotifTypeOK

\* Reading tells a verdict.
LEMMA ReadTypes ==
  ASSUME TInv, NEW m \in Messages(signed), ReadMetadata(m)
  PROVE  TInv'
<1>1. m \in Messages(Signatures)
  BY SignedMessages DEF TInv
<1>2. Cleared \in Verdicts
  BY DEF Cleared, Verdicts
<1>3. ASSUME NEW ret \in {0, -2}, NEW out \in Verdicts, NEW short \in BOOLEAN,
             Read(m, ret, out, short),
             ret = 0 => /\ m.metadata.profileManagementOperation \in BitStrings
                        /\ out.operation = Operation(m.metadata.profileManagementOperation)
      PROVE  TInv'
  <2>1. /\ last' = [fn |-> "read", message |-> m, given |-> None, ret |-> ret,
                    out |-> out, out_of_memory |-> short]
        /\ pending' = [message |-> m, given |-> LookedUp(ret, out), ret |-> ret, out |-> out]
        /\ UNCHANGED <<held, kept, signed>>
    BY <1>3 DEF Read, Returns
  <2>2. LookedUp(ret, out) \in Cards \cup {None}
    BY DEF LookedUp, TInv, NotifTypeOK
  <2>3. last' \in Calls
    BY <1>1, <2>1 DEF Calls
  <2>4. pending' \in Pendings
    BY <1>1, <2>1, <2>2 DEF Pendings
  <2>5. NotifTypeOK'
    BY <2>1, <2>3, <2>4 DEF TInv, NotifTypeOK
  <2>6. /\ last'.ret = ret /\ last'.message = m /\ last'.out = out
    BY <2>1
  <2>7. OperationIsTheOneBit'
    BY <1>3, <2>6, ToldOperation DEF OperationIsTheOneBit
  <2> QED BY <2>5, <2>7 DEF TInv
<1>4. CASE Read(m, -2, Cleared, TRUE) \/ Read(m, -2, Cleared, FALSE)
  <2>1. -2 \in {0, -2} /\ -2 # 0 /\ TRUE \in BOOLEAN /\ FALSE \in BOOLEAN
    OBVIOUS
  <2> QED BY <1>2, <1>3, <1>4, <2>1, ZenonT(30)
<1>5. CASE m # Undecodable
  <2> DEFINE ok == NotificationMeta(m.metadata, Cleared).ok
  <2>1. /\ ReadOut(m) \in Verdicts
        /\ ok => /\ m.metadata.profileManagementOperation \in BitStrings
                 /\ ReadOut(m).operation =
                      Operation(m.metadata.profileManagementOperation)
    BY <1>5, OutType
  <2> DEFINE ret == IF ok THEN 0 ELSE -2
  <2>2. CASE Read(m, ret, ReadOut(m), FALSE)
    <3>1. ret \in {0, -2} /\ (ret = 0 => ok)
      OBVIOUS
    <3> HIDE DEF ok, ret
    <3> QED BY <1>3, <2>1, <2>2, <3>1
  <2> QED BY <1>4, <1>5, <2>2 DEF ReadMetadata
<1> QED BY <1>4, <1>5 DEF ReadMetadata

\* So does verifying.
LEMMA VerifyTypes ==
  ASSUME TInv, NEW given \in Cards \cup {None}, VerifyNotification(given)
  PROVE  TInv'
<1> DEFINE m == pending.message
           ok == NotificationMeta(m.metadata, Cleared).ok
<1>1. pending \in Pendings /\ UNCHANGED <<held, kept, signed, pending>>
  BY DEF TInv, NotifTypeOK, VerifyNotification
<1>2. m \in Messages(Signatures)
  BY <1>1 DEF Pendings
<1>3. Cleared \in Verdicts
  BY DEF Cleared, Verdicts
<1>4. ASSUME NEW ret \in {0, -1, -2}, NEW out \in Verdicts, NEW short \in BOOLEAN,
             Returns("verify", m, given, ret, out, short),
             ret = 0 => /\ m.metadata.profileManagementOperation \in BitStrings
                        /\ out.operation = Operation(m.metadata.profileManagementOperation)
      PROVE  TInv'
  <2> HIDE DEF m
  <2>1. last' = [fn |-> "verify", message |-> m, given |-> given, ret |-> ret,
                 out |-> out, out_of_memory |-> short]
    BY <1>4 DEF Returns
  <2>2. last' \in Calls
    BY <1>2, <2>1 DEF Calls
  <2>3. NotifTypeOK'
    BY <1>1, <2>2 DEF TInv, NotifTypeOK
  <2>4. last'.ret = ret /\ last'.message = m /\ last'.out = out
    BY <2>1
  <2>5. OperationIsTheOneBit'
    BY <1>4, <2>4, ToldOperation DEF OperationIsTheOneBit
  <2> QED BY <2>3, <2>5 DEF TInv
<1> DEFINE ret == IF ok THEN 0 ELSE -2
<1>5. \/ Returns("verify", m, given, -2, Cleared, TRUE)
      \/ Returns("verify", m, given, -1, Cleared, TRUE)
      \/ Returns("verify", m, given, -2, Cleared, FALSE)
      \/ Returns("verify", m, given, -1, Cleared, FALSE)
      \/ Asked(m, given) /\ Returns("verify", m, given, ret, VerdictOf(m), FALSE)
  BY DEF VerifyNotification, Written
<1>6. CASE Asked(m, given) /\ Returns("verify", m, given, ret, VerdictOf(m), FALSE)
  <2>1. m # Undecodable
    BY <1>6 DEF Asked
  <2>2. /\ VerdictOf(m) \in Verdicts
        /\ ok => /\ m.metadata.profileManagementOperation \in BitStrings
                 /\ VerdictOf(m).operation =
                      Operation(m.metadata.profileManagementOperation)
    BY <1>2, <2>1, OutType
  <2>3. ret \in {0, -1, -2} /\ (ret = 0 => ok)
    OBVIOUS
  <2> HIDE DEF ok, ret, m
  <2> QED BY <1>4, <1>6, <2>2, <2>3
<1>7. /\ -1 \in {0, -1, -2} /\ -2 \in {0, -1, -2} /\ -1 # 0 /\ -2 # 0
      /\ TRUE \in BOOLEAN /\ FALSE \in BOOLEAN
  OBVIOUS
<1> HIDE DEF m, ok, ret
<1> QED BY <1>3, <1>4, <1>5, <1>6, <1>7, ZenonT(30)

\* No step leaves the types.
LEMMA StepTypes == TInv /\ [NotifNext]_nvars => TInv'
<1> SUFFICES ASSUME TInv, [NotifNext]_nvars PROVE TInv'
  OBVIOUS
<1>1. ASSUME NEW i \in Iccids, NEW c \in Cards, Downloads(i, c) PROVE TInv'
  BY <1>1 DEF Downloads, TInv, NotifTypeOK, OperationIsTheOneBit
<1>2. ASSUME NEW c \in Cards, Signs(c) PROVE TInv'
  <2>1. PICK d \in Contents : signed' = signed \cup {[key |-> c, over |-> d]}
    BY <1>2 DEF Signs
  <2>2. signed' \subseteq Signatures
    BY <2>1 DEF TInv, NotifTypeOK, Signatures
  <2> QED BY <1>2, <2>2 DEF Signs, TInv, NotifTypeOK, OperationIsTheOneBit
<1>3. CASE \E m \in Messages(signed) : ReadMetadata(m)
  BY <1>3, ReadTypes
<1>4. CASE \E given \in Cards \cup {None} : VerifyNotification(given)
  BY <1>4, VerifyTypes
<1>5. CASE Finishes
  BY <1>5 DEF Finishes, TInv, NotifTypeOK, OperationIsTheOneBit
<1>6. CASE UNCHANGED nvars
  BY <1>6 DEF nvars, TInv, NotifTypeOK, OperationIsTheOneBit
<1> QED BY <1>1, <1>2, <1>3, <1>4, <1>5, <1>6 DEF NotifNext

\* The types of the specification.
LEMMA TInvariant == NotifSpec => []TInv
BY InitTypes, StepTypes, PTL DEF NotifSpec

-----------------------------------------------------------------------------
(* Theorems *)

\* No step leaves the invariant.
LEMMA StepKeeps == NInv /\ [NotifNext]_nvars => NInv'
<1> SUFFICES ASSUME NInv, [NotifNext]_nvars PROVE NInv'
  OBVIOUS
<1>1. CASE \E i \in Iccids, c \in Cards : Downloads(i, c)
  BY <1>1, DownloadsKeeps
<1>2. CASE \E c \in Cards : Signs(c)
  BY <1>2, SignsKeeps
<1>3. CASE \E m \in Messages(signed) : ReadMetadata(m)
  BY <1>3, ReadKeeps
<1>4. CASE \E given \in Cards \cup {None} : VerifyNotification(given)
  BY <1>4, VerifyKeeps
<1>5. CASE Finishes
  BY <1>5, FinishesKeeps
<1>6. CASE UNCHANGED nvars
  BY <1>6 DEF nvars, NInv, KeptIsHolder, PendingIsRead, ToldIsSigned,
              FiledUnderHolder, ReadIsVerified, GenuineIsAccepted
<1> QED BY <1>1, <1>2, <1>3, <1>4, <1>5, <1>6 DEF NotifNext

\* The invariant of the specification.
LEMMA NInvariant == NotifSpec => []NInv
BY InitHolds, StepKeeps, PTL DEF NotifSpec

\* Whatever rsp_dp_verify_notification returns, *out tells nothing that was
\* not signed, by the eUICC whose certificate was given for a result.
THEOREM ToldSigned == NotifSpec => []ToldIsSigned
<1>1. NInv => ToldIsSigned
  BY DEF NInv
<1> QED BY <1>1, NInvariant, PTL

\* A notification verified with the certificate that was looked up under its
\* unverified ICCID comes from an eUICC that had this Profile, however often
\* the Profile is downloaded elsewhere in between.
THEOREM FiledSafely == NotifSpec => []FiledUnderHolder
<1>1. NInv => FiledUnderHolder
  BY DEF NInv
<1> QED BY <1>1, NInvariant, PTL

\* rsp_dp_notification_metadata and rsp_dp_verify_notification describe every
\* notification alike.
THEOREM ReadVerified == NotifSpec => []ReadIsVerified
<1>1. NInv => ReadIsVerified
  BY DEF NInv
<1> QED BY <1>1, NInvariant, PTL

\* No genuine notification is refused for any reason but a wrong certificate,
\* a value that cannot be described, or memory.
THEOREM GenuineAccepted == NotifSpec => []GenuineIsAccepted
<1>1. NInv => GenuineIsAccepted
  BY DEF NInv
<1> QED BY <1>1, NInvariant, PTL

\* What is kept, signed, pending and told has its type.
THEOREM NotifTypeCorrect == NotifSpec => []NotifTypeOK
<1>1. TInv => NotifTypeOK
  BY DEF TInv
<1> QED BY <1>1, TInvariant, PTL

\* For BIT STRINGs of any length with any bits set, unused ones included,
\* notification_meta tells the one bit that is set among those that count, and
\* -1 where there is none or more than one.
THEOREM OperationTold == NotifSpec => []OperationIsTheOneBit
<1>1. TInv => OperationIsTheOneBit
  BY DEF TInv
<1> QED BY <1>1, TInvariant, PTL
=============================================================================
