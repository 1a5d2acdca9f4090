----------------------- MODULE RecordIntegrityProofs ------------------------
(***************************************************************************)
(* Tamper detection for any keys, contents, timestamps and key IDs, any    *)
(* number of alterations and of verifier runs.                             *)
(*                                                                         *)
(* Both results rest on what a hash says about its row.  A row that the    *)
(* writer stored verifies under the key its key ID names, because MySQL's  *)
(* rounding and the canonical form agree; and a row that verifies reads as *)
(* the columns its hash was computed from, so a hash that the writer made  *)
(* leads back to the row it was made for, as far as a text of labelled     *)
(* lines can tell: where no column has a line break, column by column.     *)
(***************************************************************************)
EXTENDS RecordIntegrity, SequenceTheorems, TLAPS

Messages ==
  [table : Tables, key : Keys, second : Int, suffix : BOOLEAN, content : Seq(Lines),
   key_id : KeyIds \cup {None}]
Hashes == [secret : KeyIds \cup {"legacy"}, message : Messages]

(* The value of a DATETIME column: no fraction, no zone.                   *)
Stored(ts) ==
  /\ ts \in [wall : Int, offset : {Naive}]
  /\ \E n \in Int : ts.wall = 4 * n

(* A row as the table can hold it.  Quarantined records have no datetime   *)
(* that the hash would cover.                                              *)
RowShape(t, row) ==
  /\ row \in [key : Keys, timestamp : [wall : Int, offset : {Naive}], content : Contents,
              hash : Hashes \cup {None}, key_id : KeyIds \cup {None}]
  /\ Stored(row.timestamp)
  /\ t = "quarantined_audit_events" => row.timestamp = [wall |-> 0, offset |-> Naive]

(* The secret that _selected_key looks for.                                *)
SecretOf(row) == IF row.key_id = None THEN "legacy" ELSE row.key_id

(* What a hash that verifies says of its row.                              *)
Attests(t, row) ==
  /\ row.hash.message.key = row.key /\ row.hash.message.content = joined(row.content)
  /\ row.hash.message.key_id = row.key_id
  /\ t = "audit_events" => row.hash.message.second = canonical_timestamp(row.timestamp)

(* The rows as the writer stored them.                                     *)
OriginVerifies ==
  \A t \in Tables : \A row \in origin[t] :
    RowShape(t, row) /\ (row.hash = None \/ verify_hash(t, row, SecretOf(row), row.key_id))

(* A row that is in a table has no hash, or one that the writer made.      *)
Traced(t, row) ==
  RowShape(t, row) /\ (row.hash = None \/ \E o \in origin[t] : o.hash = row.hash)

HashesAreTheWriters ==
  \A t \in Tables :
    /\ \A row \in rows[t] : Traced(t, row)
    /\ \A row \in scanned[t] : Traced(t, row)

(* A run that is about to say pass has found nothing to object to.         *)
VerdictIsPassed ==
  pc = "exit0" \/ (pc = "replace" /\ tmp = "pass") \/ (pc = "finish" /\ statusFile = "pass")
    => passed

(* The tables are functions; what a row is, the invariants above say.      *)
Shape ==
  /\ release \in Releases /\ workerKey \in KeyIds
  /\ rows = [t \in Tables |-> rows[t]] /\ origin = [t \in Tables |-> origin[t]]
  /\ scanned = [t \in Tables |-> scanned[t]]

IntegrityInv == Shape /\ OriginVerifies /\ HashesAreTheWriters /\ VerdictIsPassed

-----------------------------------------------------------------------------
(* MySQL's rounding and the canonical form agree: what the hash covered    *)
(* before the row was written is what the verifier computes from the       *)
(* column, for every fraction of a second and every offset.                *)
LEMMA RoundingAgrees ==
  ASSUME NEW ts \in [wall : Int, offset : Int \cup {Naive}]
  PROVE  /\ Stored(stored_timestamp(ts))
         /\ canonical_timestamp(stored_timestamp(ts)) = canonical_timestamp(ts)
         /\ canonical_timestamp(ts) \in Int
<1> DEFINE w == to_naive_utc(ts).wall
           n == (w + 2) \div 4
<1>1. w \in Int
  <2>1. CASE ts.offset = Naive
    BY <2>1 DEF to_naive_utc
  <2>2. CASE ts.offset # Naive
    BY <2>2 DEF to_naive_utc
  <2> QED  BY <2>1, <2>2
<1>2. stored_timestamp(ts) = [wall |-> 4 * n, offset |-> Naive]
  BY DEF stored_timestamp, mysql_datetime
<1>3. canonical_timestamp(ts) = n
  BY DEF canonical_timestamp
<1> HIDE DEF w
<1>4. n \in Int /\ 4 * n \in Int /\ (4 * n + 2) \div 4 = n
  BY <1>1
<1> HIDE DEF n
<1>5. Stored(stored_timestamp(ts))
  BY <1>2, <1>4 DEF Stored
<1>6. to_naive_utc(stored_timestamp(ts)) = [wall |-> 4 * n, offset |-> Naive]
  BY <1>2 DEF to_naive_utc
<1>7. canonical_timestamp(stored_timestamp(ts)) = n
  BY <1>4, <1>6 DEF canonical_timestamp
<1> QED  BY <1>3, <1>4, <1>5, <1>7

(* Two column values with the same canonical form are the same.            *)
LEMMA StoredIsCanonical ==
  ASSUME NEW a, NEW b, Stored(a), Stored(b), canonical_timestamp(a) = canonical_timestamp(b)
  PROVE  a = b
<1>1. PICK m \in Int : a.wall = 4 * m
  BY DEF Stored
<1>2. PICK n \in Int : b.wall = 4 * n
  BY DEF Stored
<1>3. a.offset = Naive /\ b.offset = Naive
  BY DEF Stored
<1>4. (4 * m + 2) \div 4 = (4 * n + 2) \div 4
  BY <1>1, <1>2, <1>3 DEF canonical_timestamp, to_naive_utc
<1>5. m = n
  BY <1>4
<1> QED  BY <1>1, <1>2, <1>3, <1>5 DEF Stored

(* A hash that verifies attests the columns of its row.                    *)
LEMMA VerifiedAttests ==
  ASSUME NEW t \in Tables, NEW row, NEW secret, verify_hash(t, row, secret, row.key_id)
  PROVE  Attests(t, row)
<1>1. CASE row.hash = compute_hash(t, row, secret, row.key_id)
  BY <1>1 DEF compute_hash, canonical_message, Attests
<1>2. CASE t = "audit_events" /\ row.key_id = None /\ matches_legacy_utc_form(t, row, secret)
  BY <1>2 DEF matches_legacy_utc_form, canonical_message, Attests
<1> QED  BY <1>1, <1>2 DEF verify_hash

-----------------------------------------------------------------------------
(* What a column is shown as is a text, of one line when it is NULL.       *)
LEMMA ShownIsText ==
  ASSUME NEW f \in Columns, NEW v \in Texts \cup {None}
  PROVE  /\ shown(f, v) \in Seq(Lines) /\ Len(shown(f, v)) \in Nat /\ Len(shown(f, v)) >= 1
         /\ v = None => Len(shown(f, v)) = 1
         /\ v # None => shown(f, v) = v
<1> DEFINE word == IF f = "json" THEN "{}" ELSE "None"
<1>0. word \in Words
  BY ConstantsAssumption
<1> HIDE DEF word
<1>1. <<word>> \in Lines
  BY <1>0 DEF Lines
<1>2. << <<word>> >> \in Seq(Lines) /\ Len(<< <<word>> >>) = 1
  BY <1>1
<1>3. CASE v = None
  <2>1. shown(f, v) = << <<word>> >>
    BY <1>3 DEF shown, word
  <2> QED  BY <1>2, <1>3, <2>1
<1>4. CASE v # None
  <2>1. shown(f, v) = v /\ v \in Seq(Lines) /\ v # <<>>
    BY <1>4 DEF shown, Texts
  <2>2. Len(v) \in Nat /\ Len(v) # 0
    BY <2>1, EmptySeq, LenProperties
  <2> QED  BY <1>4, <2>1, <2>2
<1> QED  BY <1>3, <1>4

(* A part has the lines of its column, the first with the name before it.  *)
LEMMA PartLines ==
  ASSUME NEW f \in Columns, NEW v \in Texts \cup {None}
  PROVE  /\ part(f, v) \in Seq(Lines) /\ Len(part(f, v)) = Len(shown(f, v))
         /\ Len(part(f, v)) \in Nat /\ Len(part(f, v)) >= 1
         /\ part(f, v)[1] = <<f>> \o shown(f, v)[1]
<1> DEFINE lines == shown(f, v)
           first == <<f>> \o Head(lines)
<1>1. lines \in Seq(Lines) /\ Len(lines) \in Nat /\ Len(lines) >= 1
  BY ShownIsText
<1>2. part(f, v) = <<first>> \o Tail(lines)
  BY DEF part
<1> HIDE DEF lines
<1>3. lines # <<>>
  BY <1>1
<1>4. /\ Head(lines) = lines[1] /\ Head(lines) \in Lines
      /\ Tail(lines) \in Seq(Lines) /\ Len(Tail(lines)) = Len(lines) - 1
  BY <1>1, <1>3, HeadTailProperties
<1>5. first \in Lines
  <2>0. f \in Words
    BY ConstantsAssumption
  <2>1. <<f>> \in Seq(Words)
    BY <2>0
  <2> QED  BY <1>4, <2>1, ConcatProperties DEF Lines
<1>6. first = <<f>> \o lines[1]
  BY <1>4
<1> HIDE DEF first
<1>7. <<first>> \in Seq(Lines) /\ Len(<<first>>) = 1 /\ <<first>>[1] = first
  BY <1>5
<1>8. /\ <<first>> \o Tail(lines) \in Seq(Lines)
      /\ Len(<<first>> \o Tail(lines)) = 1 + Len(Tail(lines))
      /\ (<<first>> \o Tail(lines))[1] = first
  BY <1>4, <1>7, ConcatProperties
<1>9. part(f, v)[1] = <<f>> \o lines[1] /\ Len(part(f, v)) = Len(lines)
  BY <1>1, <1>2, <1>4, <1>6, <1>8
<1>10. Len(part(f, v)) \in Nat /\ Len(part(f, v)) >= 1
  BY <1>1, <1>9
<1> QED  BY <1>2, <1>8, <1>9, <1>10 DEF lines

(* Where the elements of s1 \o s2 come from.                               *)
LEMMA Concatenated ==
  ASSUME NEW S, NEW s1 \in Seq(S), NEW s2 \in Seq(S), Len(s2) >= 1
  PROVE  /\ s1 \o s2 \in Seq(S) /\ Len(s1 \o s2) = Len(s1) + Len(s2)
         /\ \A i \in 1..Len(s1) : (s1 \o s2)[i] = s1[i]
         /\ (s1 \o s2)[Len(s1) + 1] = s2[1]
<1>1. Len(s1) \in Nat /\ Len(s2) \in Nat
  BY LenProperties
<1>2. /\ s1 \o s2 \in Seq(S) /\ Len(s1 \o s2) = Len(s1) + Len(s2)
      /\ \A i \in 1..Len(s1) + Len(s2) :
           (s1 \o s2)[i] = IF i <= Len(s1) THEN s1[i] ELSE s2[i - Len(s1)]
  BY ConcatProperties
<1>3. Len(s1) + 1 \in 1..Len(s1) + Len(s2) /\ ~(Len(s1) + 1 <= Len(s1))
      /\ (Len(s1) + 1) - Len(s1) = 1
  BY <1>1
<1>4. (s1 \o s2)[Len(s1) + 1] = s2[(Len(s1) + 1) - Len(s1)]
  BY <1>2, <1>3
<1>5. (s1 \o s2)[Len(s1) + 1] = s2[1]
  BY <1>3, <1>4
<1>6. \A i \in 1..Len(s1) : i \in 1..Len(s1) + Len(s2) /\ i <= Len(s1)
  BY <1>1
<1> QED  BY <1>2, <1>5, <1>6

(* The joined text of three parts has the lines of each, in order.         *)
LEMMA JoinedLines ==
  ASSUME NEW c \in [Columns -> Texts \cup {None}]
  PROVE  LET R == part("required", c.required)
             T == part("text", c.text)
             J == part("json", c.json)
         IN /\ joined(c) \in Seq(Lines)
            /\ Len(joined(c)) = Len(R) + Len(T) + Len(J)
            /\ joined(c)[1] = R[1]
            /\ joined(c)[Len(R) + 1] = T[1]
            /\ joined(c)[Len(R) + Len(T) + 1] = J[1]
<1> DEFINE R == part("required", c.required)
           T == part("text", c.text)
           J == part("json", c.json)
<1>1. /\ c.required \in Texts \cup {None} /\ c.text \in Texts \cup {None}
      /\ c.json \in Texts \cup {None}
      /\ "required" \in Columns /\ "text" \in Columns /\ "json" \in Columns
  BY DEF Columns
<1>2. /\ R \in Seq(Lines) /\ Len(R) \in Nat /\ Len(R) >= 1
      /\ T \in Seq(Lines) /\ Len(T) \in Nat /\ Len(T) >= 1
      /\ J \in Seq(Lines) /\ Len(J) \in Nat /\ Len(J) >= 1
  <2>1. R \in Seq(Lines) /\ Len(R) \in Nat /\ Len(R) >= 1
    BY ONLY <1>1, PartLines
  <2>2. T \in Seq(Lines) /\ Len(T) \in Nat /\ Len(T) >= 1
    BY ONLY <1>1, PartLines
  <2>3. J \in Seq(Lines) /\ Len(J) \in Nat /\ Len(J) >= 1
    BY ONLY <1>1, PartLines
  <2> QED  BY <2>1, <2>2, <2>3
<1>3. joined(c) = R \o T \o J
  BY DEF joined
<1> HIDE DEF R, T, J
<1>4. /\ R \o T \in Seq(Lines) /\ Len(R \o T) = Len(R) + Len(T)
      /\ (R \o T)[1] = R[1] /\ (R \o T)[Len(R) + 1] = T[1]
  <2>1. 1 \in 1..Len(R)
    BY <1>2
  <2> QED  BY <1>2, <2>1, Concatenated
<1> DEFINE RT == R \o T
<1> HIDE DEF RT
<1>5. /\ RT \in Seq(Lines) /\ Len(RT) = Len(R) + Len(T)
      /\ RT[1] = R[1] /\ RT[Len(R) + 1] = T[1]
  BY <1>4 DEF RT
<1>6. /\ RT \o J \in Seq(Lines) /\ Len(RT \o J) = Len(RT) + Len(J)
      /\ (RT \o J)[1] = RT[1] /\ (RT \o J)[Len(R) + 1] = RT[Len(R) + 1]
      /\ (RT \o J)[Len(RT) + 1] = J[1]
  <2>1. 1 \in 1..Len(RT) /\ Len(R) + 1 \in 1..Len(RT)
    BY <1>2, <1>5
  <2>2. /\ RT \o J \in Seq(Lines) /\ Len(RT \o J) = Len(RT) + Len(J)
        /\ \A i \in 1..Len(RT) : (RT \o J)[i] = RT[i]
        /\ (RT \o J)[Len(RT) + 1] = J[1]
    <3>1. RT \in Seq(Lines) /\ J \in Seq(Lines) /\ Len(J) >= 1
      BY <1>2, <1>5
    <3> QED  BY ONLY <3>1, Concatenated
  <2> QED  BY <2>1, <2>2
<1>7. joined(c) = RT \o J
  BY <1>3 DEF RT
<1>8. /\ joined(c) \in Seq(Lines) /\ Len(joined(c)) = Len(R) + Len(T) + Len(J)
      /\ joined(c)[1] = R[1] /\ joined(c)[Len(R) + 1] = T[1]
      /\ joined(c)[Len(R) + Len(T) + 1] = J[1]
  BY <1>5, <1>6, <1>7
<1> QED  BY <1>8 DEF R, T, J

(* A name before a line does not hide the line.                            *)
LEMMA NameCancels ==
  ASSUME NEW f \in Words, NEW a \in Lines, NEW b \in Lines, <<f>> \o a = <<f>> \o b
  PROVE  a = b
<1>1. <<f>> \in Seq(Words) /\ Len(<<f>>) = 1
  OBVIOUS
<1>2. a \in Seq(Words) /\ b \in Seq(Words)
  BY DEF Lines
<1>3. ASSUME NEW s \in Seq(Words)
      PROVE  /\ Len(<<f>> \o s) = Len(s) + 1
             /\ \A i \in 1..Len(s) : (<<f>> \o s)[i + 1] = s[i]
  BY <1>1, <1>3, ConcatProperties, LenProperties
<1>4. Len(a) = Len(b)
  BY <1>2, <1>3, LenProperties
<1>5. \A i \in 1..Len(a) : a[i] = b[i]
  BY <1>2, <1>3, <1>4
<1> QED  BY <1>2, <1>4, <1>5, SeqEqual

(* Where no column of c has a line break, a text tells which column each   *)
(* of its lines is: another row with that text reads the same, and has no  *)
(* line break either.                                                      *)
LEMMA UnbrokenReads ==
  ASSUME NEW c \in [Columns -> Texts \cup {None}], NEW d \in [Columns -> Texts \cup {None}],
         ~HasLineBreak(c), joined(c) = joined(d)
  PROVE  SameReading(c, d)
<1> DEFINE L(x, f) == Len(shown(f, x[f]))
<1>1. \A f \in Columns : c[f] \in Texts \cup {None} /\ d[f] \in Texts \cup {None}
  OBVIOUS
<1>2. ASSUME NEW f \in Columns
      PROVE  L(c, f) = 1
  <2>1. CASE c[f] = None
    BY <1>1, <2>1, ShownIsText
  <2>2. CASE c[f] # None
    <3>1. /\ shown(f, c[f]) = c[f] /\ L(c, f) \in Nat /\ L(c, f) >= 1
      BY <1>1, <2>2, ShownIsText
    <3>2. ~(Len(c[f]) > 1)
      BY <2>2 DEF HasLineBreak
    <3>3. Len(c[f]) \in Nat /\ Len(c[f]) >= 1 /\ L(c, f) = Len(c[f])
      BY <3>1
    <3> HIDE DEF L
    <3> QED  BY <3>2, <3>3
  <2> QED  BY <2>1, <2>2
<1>3. \A f \in Columns : L(d, f) \in Nat /\ L(d, f) >= 1
  BY <1>1, ShownIsText
<1>4. \A f \in Columns : /\ Len(part(f, c[f])) = L(c, f) /\ Len(part(f, d[f])) = L(d, f)
                         /\ part(f, c[f])[1] = <<f>> \o shown(f, c[f])[1]
                         /\ part(f, d[f])[1] = <<f>> \o shown(f, d[f])[1]
  BY <1>1, PartLines
<1> HIDE DEF L
<1>0. "required" \in Columns /\ "text" \in Columns /\ "json" \in Columns
  BY DEF Columns
<1>5. /\ Len(joined(c)) = L(c, "required") + L(c, "text") + L(c, "json")
      /\ Len(joined(d)) = L(d, "required") + L(d, "text") + L(d, "json")
  BY <1>0, <1>4, JoinedLines
<1>6. L(d, "required") = 1 /\ L(d, "text") = 1 /\ L(d, "json") = 1
  BY <1>0, <1>2, <1>3, <1>5
<1>7. ASSUME NEW x \in {c, d}
      PROVE  /\ joined(x)[1] = part("required", x.required)[1]
             /\ joined(x)[2] = part("text", x.text)[1]
             /\ joined(x)[3] = part("json", x.json)[1]
  <2>1. x \in [Columns -> Texts \cup {None}]
    OBVIOUS
  <2>2. Len(part("required", x.required)) = 1 /\ Len(part("text", x.text)) = 1
    BY <1>0, <1>2, <1>4, <1>6
  <2>3. /\ joined(x)[1] = part("required", x.required)[1]
        /\ joined(x)[1 + 1] = part("text", x.text)[1]
        /\ joined(x)[1 + 1 + 1] = part("json", x.json)[1]
    BY <2>1, <2>2, JoinedLines
  <2> QED  BY <2>3
<1>8. /\ part("required", c.required)[1] = part("required", d.required)[1]
      /\ part("text", c.text)[1] = part("text", d.text)[1]
      /\ part("json", c.json)[1] = part("json", d.json)[1]
  BY <1>7
<1>9. ASSUME NEW f \in Columns
      PROVE  shown(f, c[f]) = shown(f, d[f])
  <2>1. part(f, c[f])[1] = part(f, d[f])[1]
    BY <1>8 DEF Columns
  <2>2. /\ shown(f, c[f]) \in Seq(Lines) /\ shown(f, d[f]) \in Seq(Lines)
        /\ Len(shown(f, c[f])) = 1 /\ Len(shown(f, d[f])) = 1
    BY <1>1, <1>2, <1>6, ShownIsText DEF L, Columns
  <2>3. shown(f, c[f])[1] \in Lines /\ shown(f, d[f])[1] \in Lines
    <3>1. ASSUME NEW s \in Seq(Lines), Len(s) = 1
          PROVE  s[1] \in Lines
      <4>1. s \in [1..1 -> Lines]
        BY <3>1, LenProperties
      <4> QED  BY <4>1
    <3> QED  BY <2>2, <3>1
  <2>4. shown(f, c[f])[1] = shown(f, d[f])[1]
    <3>1. f \in Words
      BY ConstantsAssumption
    <3>2. <<f>> \o shown(f, c[f])[1] = <<f>> \o shown(f, d[f])[1]
      BY <1>4, <2>1
    <3> QED  BY <2>3, <3>1, <3>2, NameCancels
  <2>5. \A i \in 1..1 : shown(f, c[f])[i] = shown(f, d[f])[i]
    BY <2>4
  <2> QED  BY <2>2, <2>5, SeqEqual
<1> QED  BY <1>9 DEF SameReading

(* Two rows of a table that carry the same hash, and whose columns it      *)
(* attests, differ at most in what the HMAC cannot tell apart.             *)
LEMMA OneRowPerHash ==
  ASSUME NEW t \in Tables, NEW a, NEW b, RowShape(t, a), RowShape(t, b),
         Attests(t, a), Attests(t, b), a.hash = b.hash
  PROVE  Alike(a, b)
<1>1. /\ a.key = b.key /\ a.key_id = b.key_id
      /\ joined(a.content) = joined(b.content)
  BY DEF Attests
<1>2. a.timestamp = b.timestamp
  <2>1. CASE t = "audit_events"
    BY <2>1, StoredIsCanonical DEF Attests, RowShape
  <2>2. CASE t = "quarantined_audit_events"
    BY <2>2 DEF RowShape
  <2> QED  BY <2>1, <2>2 DEF Tables
<1>3. /\ a.content \in [Columns -> Texts \cup {None}]
      /\ b.content \in [Columns -> Texts \cup {None}]
  BY ConstantsAssumption DEF RowShape
<1>4. ~HasLineBreak(a.content) => SameReading(a.content, b.content)
  BY <1>1, <1>3, UnbrokenReads
<1>5. ~HasLineBreak(b.content) => SameReading(a.content, b.content)
  BY <1>1, <1>3, UnbrokenReads DEF SameReading
<1> QED  BY <1>1, <1>2, <1>4, <1>5 DEF Alike

(* Every row that a writer stores, of whatever release, verifies under the *)
(* key its key ID names, or has no hash.                                   *)
LEMMA WrittenVerifies ==
  ASSUME Shape, NEW t \in Tables, NEW key \in Keys, NEW ts \in TimestampsOf(t),
         NEW c \in ContentsOf(t), NEW row,
         row = [key |-> key, timestamp |-> stored_timestamp(ts), content |-> c,
                hash |-> Hash(t, key, ts, c),
                key_id |-> IF release = "current" THEN workerKey ELSE None]
  PROVE  /\ RowShape(t, row)
         /\ row.hash = None \/ verify_hash(t, row, SecretOf(row), row.key_id)
<1> DEFINE before == [key |-> key, timestamp |-> ts, content |-> c]
<1>1. ts \in [wall : Int, offset : Int \cup {Naive}] /\ c \in Contents
  <2>1. Timestamps \subseteq [wall : Int, offset : Int \cup {Naive}]
    BY ConstantsAssumption
  <2>2. ts \in [wall : Int, offset : Int \cup {Naive}]
    BY <2>1 DEF TimestampsOf
  <2> QED  BY <2>2 DEF ContentsOf, ColumnsOf
<1>2. /\ Stored(row.timestamp) /\ canonical_timestamp(ts) \in Int
      /\ canonical_timestamp(row.timestamp) = canonical_timestamp(ts)
  BY <1>1, RoundingAgrees
<1>3. t = "quarantined_audit_events" => row.timestamp = [wall |-> 0, offset |-> Naive]
  BY DEF TimestampsOf, stored_timestamp, mysql_datetime, to_naive_utc
<1>4. \A suffix, id : canonical_message(t, before, suffix, id) = canonical_message(t, row, suffix, id)
  BY <1>2 DEF canonical_message
<1>5. \A suffix \in BOOLEAN, id \in KeyIds \cup {None} :
        canonical_message(t, row, suffix, id) \in Messages
  <2>1. joined(row.content) \in Seq(Lines)
    BY <1>1, JoinedLines, ConstantsAssumption
  <2> QED  BY <1>1, <1>2, <2>1 DEF canonical_message, Messages
<1>6. CASE release = "unhashed"
  <2>1. row.hash = None /\ row.key_id = None
    BY <1>6 DEF Hash
  <2> QED  BY <1>1, <1>2, <1>3, <2>1 DEF RowShape, Stored
<1>7. CASE release = "utcForm"
  <2> DEFINE suffix == t = "audit_events" /\ ts.offset # Naive
  <2>1. /\ row.hash = [secret |-> "legacy", message |-> canonical_message(t, before, suffix, None)]
        /\ row.key_id = None
    BY <1>7 DEF Hash
  <2>2. row.hash \in Hashes
    <3>1. suffix \in BOOLEAN
      OBVIOUS
    <3> HIDE DEF suffix
    <3>2. canonical_message(t, row, suffix, None) \in Messages
      BY <1>5, <3>1
    <3> QED  BY <1>4, <2>1, <3>2 DEF Hashes
  <2>3. RowShape(t, row)
    BY <1>1, <1>2, <1>3, <2>1, <2>2 DEF RowShape, Stored
  <2>4. row.hash = [secret |-> "legacy", message |-> canonical_message(t, row, suffix, None)]
    BY <1>4, <2>1
  <2>5. CASE suffix
    BY <2>1, <2>3, <2>4, <2>5 DEF verify_hash, matches_legacy_utc_form, SecretOf
  <2>6. CASE ~suffix
    <3>1. suffix = FALSE
      BY <2>6
    <3> QED  BY <2>1, <2>3, <2>4, <3>1 DEF verify_hash, compute_hash, SecretOf
  <2> QED  BY <2>5, <2>6
<1>8. CASE release = "current"
  <2>1. row.hash = compute_hash(t, before, workerKey, workerKey) /\ row.key_id = workerKey
    BY <1>8 DEF Hash
  <2>2. row.hash = compute_hash(t, row, workerKey, workerKey)
    BY <1>4, <2>1 DEF compute_hash
  <2>3. row.hash \in Hashes /\ workerKey \in KeyIds
    <3>1. workerKey \in KeyIds
      BY DEF Shape
    <3>2. canonical_message(t, row, FALSE, workerKey) \in Messages
      BY <1>5, <3>1
    <3>3. row.hash = [secret |-> workerKey,
                      message |-> canonical_message(t, row, FALSE, workerKey)]
      BY <2>2 DEF compute_hash
    <3>4. \A secret \in KeyIds, message \in Messages :
            [secret |-> secret, message |-> message] \in Hashes
      BY DEF Hashes
    <3> QED  BY <3>1, <3>2, <3>3, <3>4
  <2>4. RowShape(t, row)
    BY <1>1, <1>2, <1>3, <2>1, <2>3 DEF RowShape, Stored
  <2>5. SecretOf(row) = workerKey
    BY <2>1, <2>3, ConstantsAssumption DEF SecretOf
  <2> QED  BY <2>1, <2>2, <2>4, <2>5 DEF verify_hash
<1> QED  BY <1>6, <1>7, <1>8 DEF Shape, Releases

-----------------------------------------------------------------------------
(* A row that was changed behind the writer's back still has the shape of  *)
(* a row, and no other hash than it had.                                   *)
LEMMA AlteredShape ==
  ASSUME NEW t \in Tables, NEW row, RowShape(t, row), NEW new \in Altered(t, row)
  PROVE  RowShape(t, new) /\ new.hash \in {row.hash, None}
<1>1. PICK n \in Int : row.timestamp.wall = 4 * n
  BY DEF RowShape, Stored
<1>2. CASE \E c \in ColumnsOf(t) : new = [row EXCEPT !.content = c]
  BY <1>2 DEF RowShape, ColumnsOf
<1>3. CASE \E k \in KeyIds \cup {None} : new = [row EXCEPT !.key_id = k]
  BY <1>3 DEF RowShape
<1>4. CASE new = [row EXCEPT !.hash = None]
  BY <1>4 DEF RowShape
<1>5. CASE t = "audit_events" /\ new = [row EXCEPT !.timestamp.wall = @ + 4]
  <2> DEFINE ts == [row.timestamp EXCEPT !.wall = @ + 4]
  <2>1. ts \in [wall : Int, offset : {Naive}] /\ ts.wall = 4 * (n + 1)
    BY <1>1 DEF RowShape
  <2>2. Stored(ts)
    BY <2>1 DEF Stored
  <2>3. new = [row EXCEPT !.timestamp = ts]
    BY <1>5
  <2> HIDE DEF ts
  <2> QED  BY <1>5, <2>1, <2>2, <2>3 DEF RowShape
<1> QED  BY <1>2, <1>3, <1>4, <1>5 DEF Altered

(* Only a write changes what the writer stored, and it only adds to it.    *)
LEMMA OriginNext ==
  ASSUME IntegrityInv, [Next]_vars
  PROVE  /\ Shape' /\ OriginVerifies'
         /\ \A t \in Tables : origin[t] \subseteq origin'[t]
<1> USE DEF IntegrityInv
<1>1. CASE UNCHANGED origin
  <2>1. OriginVerifies'
    BY <1>1 DEF OriginVerifies
  <2>2. release' \in Releases /\ workerKey' \in KeyIds
    BY <1>1
    DEF Shape, Releases, Next, vars, deployment, Write, Upgrade, RotateWorkerKey,
        Alter, ResolveKeyring, ScanEvents, ScanQuarantine, Scan, Raise, WriteStatus,
        ReplaceStatus, Finish
  <2>3. rows' = [t \in Tables |-> rows'[t]]
    <3>1. CASE rows' = rows
      BY <3>1 DEF Shape
    <3>2. ASSUME NEW t \in Tables, NEW S, rows' = [rows EXCEPT ![t] = S]
          PROVE  rows' = [u \in Tables |-> rows'[u]]
      BY <3>2 DEF Shape
    <3>3. ASSUME NEW t \in Tables, NEW row \in rows[t], Alter(t, row)
          PROVE  rows' = [u \in Tables |-> rows'[u]]
      BY <3>2, <3>3 DEF Alter
    <3>4. ASSUME NEW t \in Tables, NEW k \in Keys, NEW ts \in TimestampsOf(t),
                 NEW c \in ContentsOf(t), Write(t, k, ts, c)
          PROVE  rows' = [u \in Tables |-> rows'[u]]
      BY <3>2, <3>4 DEF Write
    <3> QED
      BY <3>1, <3>3, <3>4
      DEF Next, vars, Upgrade, RotateWorkerKey, ResolveKeyring, ScanEvents,
          ScanQuarantine, Scan, Raise, WriteStatus, ReplaceStatus, Finish
  <2>4. scanned' = [t \in Tables |-> scanned'[t]]
    <3>1. \/ scanned' \in {scanned, NoRows}
          \/ \E t \in Tables : \E S : scanned' = [scanned EXCEPT ![t] = S]
      BY DEF Next, vars, deployment, Write, Upgrade, RotateWorkerKey,
             Alter, ResolveKeyring, ScanEvents, ScanQuarantine, Scan, Raise, WriteStatus,
             ReplaceStatus, Finish, Tables
    <3> QED  BY <3>1 DEF Shape, NoRows
  <2> QED  BY <1>1, <2>1, <2>2, <2>3, <2>4 DEF Shape
<1>2. ASSUME NEW t \in Tables, NEW k \in Keys, NEW ts \in TimestampsOf(t),
             NEW c \in ContentsOf(t), Write(t, k, ts, c)
      PROVE  /\ Shape' /\ OriginVerifies'
             /\ \A u \in Tables : origin[u] \subseteq origin'[u]
  <2> DEFINE row == [key |-> k, timestamp |-> stored_timestamp(ts), content |-> c,
                     hash |-> Hash(t, k, ts, c),
                     key_id |-> IF release = "current" THEN workerKey ELSE None]
  <2>1. /\ rows' = [rows EXCEPT ![t] = @ \cup {row}]
        /\ origin' = [origin EXCEPT ![t] = @ \cup {row}]
        /\ UNCHANGED <<release, workerKey, scanned>>
    BY <1>2 DEF Write, deployment
  <2>2. /\ RowShape(t, row)
        /\ row.hash = None \/ verify_hash(t, row, SecretOf(row), row.key_id)
    BY WrittenVerifies
  <2> HIDE DEF row
  <2>3. Shape' /\ \A u \in Tables : origin[u] \subseteq origin'[u]
    BY <2>1 DEF Shape
  <2>4. OriginVerifies'
    BY <2>1, <2>2 DEF OriginVerifies, Shape
  <2> QED  BY <2>3, <2>4
<1> QED
  BY <1>1, <1>2
  DEF Next, vars, Upgrade, RotateWorkerKey, Alter, ResolveKeyring, ScanEvents,
      ScanQuarantine, Scan, Raise, WriteStatus, ReplaceStatus, Finish

(* A row keeps a hash of the writer's, or none: a write brings its own, an *)
(* alteration changes no hash but to drop it, and a scan reads rows.       *)
LEMMA TracedNext ==
  ASSUME IntegrityInv, [Next]_vars
  PROVE  HashesAreTheWriters'
<1> USE DEF IntegrityInv
<1>0. /\ \A t \in Tables : origin[t] \subseteq origin'[t]
      /\ OriginVerifies' /\ Shape'
  BY OriginNext
<1>1. ASSUME NEW t \in Tables, NEW row, Traced(t, row)
      PROVE  Traced(t, row)'
  BY <1>0, <1>1 DEF Traced, RowShape, Stored
<1>2. ASSUME NEW t \in Tables, NEW row \in rows[t] \cup scanned[t]
      PROVE  Traced(t, row)'
  BY <1>1 DEF HashesAreTheWriters
<1>3. ASSUME NEW t \in Tables, NEW row \in rows'[t]
      PROVE  Traced(t, row)'
  <2>1. CASE row \in rows[t]
    BY <1>2, <2>1
  <2>2. CASE row \in origin'[t]
    BY <1>0, <2>2 DEF OriginVerifies, Traced
  <2>3. CASE row \notin rows[t] /\ row \notin origin'[t]
    <3>1. PICK u \in Tables : \E old \in rows[u] : Alter(u, old)
      <4>1. ASSUME NEW u \in Tables, NEW k \in Keys, NEW ts \in TimestampsOf(u),
                   NEW c \in ContentsOf(u), Write(u, k, ts, c)
            PROVE  FALSE
        <5>1. PICK new : /\ rows' = [rows EXCEPT ![u] = @ \cup {new}]
                         /\ origin' = [origin EXCEPT ![u] = @ \cup {new}]
          BY <4>1 DEF Write
        <5> QED  BY <2>3, <5>1 DEF Shape
      <4>2. rows' # rows
        BY <2>3
      <4> QED
        BY <4>1, <4>2
        DEF Next, vars, Upgrade, RotateWorkerKey, ResolveKeyring, ScanEvents,
            ScanQuarantine, Scan, Raise, WriteStatus, ReplaceStatus, Finish
    <3> PICK old \in rows[u] : Alter(u, old)
      BY <3>1
    <3>2. PICK new \in Altered(u, old) : rows' = [rows EXCEPT ![u] = (@ \ {old}) \cup {new}]
      BY DEF Alter
    <3>3. u = t /\ row = new
      BY <2>3, <3>2 DEF Shape
    <3>4. Traced(u, old) /\ Traced(u, old)'
      BY <1>2 DEF HashesAreTheWriters
    <3>5. RowShape(t, row) /\ row.hash \in {old.hash, None}
      BY <3>3, <3>4, AlteredShape DEF Traced
    <3> QED  BY <3>3, <3>4, <3>5 DEF Traced, RowShape, Stored
  <2> QED  BY <2>1, <2>2, <2>3
<1>4. ASSUME NEW t \in Tables, NEW row \in scanned'[t]
      PROVE  Traced(t, row)'
  <2>1. row \in rows[t] \cup scanned[t]
    <3>1. CASE scanned' \in {scanned, NoRows}
      BY <3>1 DEF NoRows
    <3>2. ASSUME NEW u \in Tables, scanned' = [scanned EXCEPT ![u] = rows[u]]
          PROVE  row \in rows[t] \cup scanned[t]
      BY <3>2 DEF Shape
    <3> QED
      BY <3>1, <3>2
      DEF Next, vars, Write, Upgrade, RotateWorkerKey, Alter, ResolveKeyring,
          ScanEvents, ScanQuarantine, Scan, Raise, WriteStatus, ReplaceStatus, Finish, Tables
  <2> QED  BY <1>2, <2>1
<1> QED  BY <1>3, <1>4 DEF HashesAreTheWriters

(* What _report says of a table depends on what was read and on the        *)
(* keyring only.                                                           *)
LEMMA SameReport ==
  ASSUME UNCHANGED <<scanned, keyring>>
  PROVE  passed' <=> passed
BY DEF passed, report_ok, invalid, structural, unverifiable, no_baseline, selected_key,
       verify_hash, compute_hash, matches_legacy_utc_form

(* The verdict that is published, and the exit status, are those of the    *)
(* rows that were read.                                                    *)
LEMMA VerdictNext ==
  ASSUME IntegrityInv, [Next]_vars
  PROVE  VerdictIsPassed'
<1> USE DEF IntegrityInv, VerdictIsPassed
<1>1. CASE UNCHANGED <<pc, tmp, statusFile, scanned, keyring>>
  BY <1>1, SameReport
<1>2. CASE ResolveKeyring
  BY <1>2 DEF ResolveKeyring
<1>3. CASE ScanEvents \/ ScanQuarantine \/ Raise
  BY <1>3 DEF ScanEvents, ScanQuarantine, Scan, Raise
<1>4. CASE WriteStatus \/ ReplaceStatus \/ Finish
  <2>1. passed' <=> passed
    BY <1>4, SameReport DEF WriteStatus, ReplaceStatus, Finish
  <2> QED  BY <1>4, <2>1 DEF WriteStatus, ReplaceStatus, Finish
<1> QED
  BY <1>1, <1>2, <1>3, <1>4
  DEF Next, vars, files, Write, Upgrade, RotateWorkerKey, Alter

(* The invariant holds in every reachable state.                           *)
LEMMA IntegrityAlways == Spec => []IntegrityInv
<1>1. Init => IntegrityInv
  BY DEF Init, IntegrityInv, Shape, Releases, OriginVerifies, HashesAreTheWriters,
         VerdictIsPassed, NoRows
<1>2. IntegrityInv /\ [Next]_vars => IntegrityInv'
  BY OriginNext, TracedNext, VerdictNext DEF IntegrityInv
<1> QED  BY <1>1, <1>2, PTL DEF Spec

(* "A mismatch means the row's columns have changed since it was written": *)
(* no row that is as the writer stored it is ever reported as tampered,    *)
(* whatever its offset and its fraction of a second, whichever release     *)
(* wrote it and however the keys were rotated and configured since.        *)
THEOREM GenuineRowsPass == Spec => []NoFalseAlarm
<1>1. IntegrityInv => NoFalseAlarm
  <2> SUFFICES ASSUME IntegrityInv, NEW t \in Tables, NEW row \in origin[t],
                      row \in invalid(t)
               PROVE  FALSE
    BY DEF NoFalseAlarm
  <2>1. PICK secret \in selected_key(row) : ~verify_hash(t, row, secret, row.key_id)
    BY DEF invalid
  <2>2. secret = SecretOf(row) /\ row.hash # None
    BY <2>1 DEF selected_key, SecretOf, invalid, no_baseline
  <2> QED  BY <2>1, <2>2 DEF IntegrityInv, OriginVerifies
<1> QED  BY <1>1, IntegrityAlways, PTL

(* A row that was read, has its hash and stands the verification with the  *)
(* key that its key ID selects is one that the writer stored, up to what   *)
(* the HMAC cannot tell apart.                                             *)
LEMMA VerifiedIsGenuine ==
  ASSUME IntegrityInv, NEW t \in Tables, NEW row \in scanned[t], row.hash # None,
         NEW secret, verify_hash(t, row, secret, row.key_id)
  PROVE  \E o \in origin[t] : Alike(row, o)
<1>1. RowShape(t, row) /\ Attests(t, row)
  BY VerifiedAttests DEF IntegrityInv, HashesAreTheWriters, Traced
<1>2. PICK o \in origin[t] : o.hash = row.hash
  BY DEF IntegrityInv, HashesAreTheWriters, Traced
<1>3. RowShape(t, o) /\ Attests(t, o)
  BY <1>2, VerifiedAttests DEF IntegrityInv, OriginVerifies
<1>4. Alike(row, o)
  BY <1>1, <1>2, <1>3, OneRowPerHash
<1> QED  BY <1>2, <1>4

(* The report names every row that is not as the writer stored it, as      *)
(* tampered or as one it cannot vouch for, except where the newline-joined *)
(* text of _canonical_message is the same: NULL and the text None, a NULL  *)
(* context and {}, or columns with line breaks whose lines, put together,  *)
(* are the stored ones.  There is no other exception, for any texts, keys, *)
(* releases and rotations; in particular none for the time, the key, the   *)
(* key ID or the hash.                                                     *)
THEOREM NothingAlteredPasses == Spec => []AlteredRowsShow
<1>1. IntegrityInv => AlteredRowsShow
  <2> SUFFICES ASSUME IntegrityInv, NEW t \in Tables,
                      NEW row \in scanned[t] \ (invalid(t) \cup unverifiable(t) \cup no_baseline(t))
               PROVE  \E o \in origin[t] : Alike(row, o)
    BY DEF AlteredRowsShow
  <2>1. row \in scanned[t] /\ row.hash # None
    BY DEF no_baseline
  <2>2. PICK secret : verify_hash(t, row, secret, row.key_id)
    BY DEF invalid, unverifiable
  <2> QED  BY <2>1, <2>2, VerifiedIsGenuine
<1> QED  BY <1>1, IntegrityAlways, PTL

(* The verifier "never silently reports clean when it couldn't actually    *)
(* check": whenever a run exits with 0 or has published pass, every row it *)
(* read has a hash and is one that the writer stored, with the same key,   *)
(* time, hash and key ID, and columns that make the same canonical text.   *)
(* Without line breaks these are the same columns, but for NULL.           *)
THEOREM PassIsProof == Spec => []PassMeansIntact
<1>1. IntegrityInv => PassMeansIntact
  <2> SUFFICES ASSUME IntegrityInv, pc = "exit0" \/ (pc = "finish" /\ statusFile = "pass"),
                      NEW t \in Tables, NEW row \in scanned[t]
               PROVE  row.hash # None /\ \E o \in origin[t] : Alike(row, o)
    BY DEF PassMeansIntact
  <2>1. invalid(t) = {} /\ unverifiable(t) = {} /\ no_baseline(t) = {}
    BY DEF IntegrityInv, VerdictIsPassed, passed, report_ok
  <2>2. row.hash # None
    BY <2>1 DEF no_baseline
  <2>3. PICK secret : verify_hash(t, row, secret, row.key_id)
    BY <2>1 DEF invalid, unverifiable
  <2> QED  BY <2>2, <2>3, VerifiedIsGenuine
<1> QED  BY <1>1, IntegrityAlways, PTL
=============================================================================
