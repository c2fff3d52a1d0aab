------------------------- MODULE SessionTableProofs -------------------------
(***************************************************************************)
(* What each statement on the Session table returns and leaves alone.      *)
(* These lemmas are all that the proofs about Sessions use of the          *)
(* statements' definitions.                                                *)
(***************************************************************************)
EXTENDS SessionTable, TLAPS

\* session.create adds a live row for its id and touches no other row.
LEMMA InsertRows ==
    ASSUME NEW table \in Table, NEW s \in SessionIds, NEW u \in Users,
           NEW tok \in Token, NEW time \in Nat
    PROVE  LET after == Insert(table, s, u, tok, time)
           IN  /\ after \in Table
               /\ Live(after, s)
               /\ after[s].userId = u
               /\ after[s].token = tok
               /\ after[s].updatedAt = time
               /\ \A x \in SessionIds \ {s} : after[x] = table[x]
  <1> DEFINE row == [userId |-> u, valid |-> TRUE, token |-> tok, updatedAt |-> time]
  <1>1. row \in Row
    BY DEF Row
  <1>2. row # NoRow
    BY <1>1, NoRowAssumption
  <1> QED
    BY <1>1, <1>2 DEF Insert, Table, Live, Exists

\* session.update of the token keeps the owner and the validity of its row.
LEMMA SetTokenRows ==
    ASSUME NEW table \in Table, NEW s \in SessionIds, Exists(table, s),
           NEW tok \in Token, NEW time \in Nat
    PROVE  LET after == SetToken(table, s, tok, time)
           IN  /\ after \in Table
               /\ Exists(after, s)
               /\ after[s].userId = table[s].userId
               /\ after[s].valid = table[s].valid
               /\ after[s].token = tok
               /\ after[s].updatedAt = time
               /\ \A x \in SessionIds \ {s} : after[x] = table[x]
  <1> DEFINE row == [table[s] EXCEPT !.token = tok, !.updatedAt = time]
  <1>1. table[s] \in Row
    BY DEF Table, Exists
  <1>2. /\ row \in Row
        /\ row.userId = table[s].userId
        /\ row.valid = table[s].valid
        /\ row.token = tok
        /\ row.updatedAt = time
    BY <1>1 DEF Row
  <1>3. row # NoRow
    BY <1>2, NoRowAssumption
  <1> HIDE DEF row
  <1>4. SetToken(table, s, tok, time) = [table EXCEPT ![s] = row]
    BY DEF SetToken, row
  <1> QED
    BY <1>2, <1>3, <1>4 DEF Table, Exists

\* The revoking updateMany creates and deletes no row, changes no owner, and
\* leaves live exactly the rows it did not select, unchanged.
LEMMA InvalidateRows ==
    ASSUME NEW table \in Table, NEW S, NEW time \in Nat
    PROVE  LET after == Invalidate(table, S, time)
           IN  /\ after \in Table
               /\ \A s \in SessionIds :
                     /\ Exists(after, s) <=> Exists(table, s)
                     /\ Exists(table, s) => after[s].userId = table[s].userId
                     /\ Live(after, s) <=> Live(table, s) /\ s \notin S
                     /\ s \notin S => after[s] = table[s]
  <1> DEFINE after == Invalidate(table, S, time)
  <1>1. ASSUME NEW s \in SessionIds, s \in S, Exists(table, s)
        PROVE  /\ after[s] \in Row
               /\ after[s].userId = table[s].userId
               /\ after[s].valid = FALSE
    <2>1. table[s] \in Row
      BY <1>1 DEF Table, Exists
    <2>2. after[s] = [table[s] EXCEPT !.valid = FALSE, !.token = NoToken, !.updatedAt = time]
      BY <1>1 DEF Invalidate
    <2> QED
      BY <2>1, <2>2 DEF Row
  <1>2. ASSUME NEW s \in SessionIds, ~(s \in S /\ Exists(table, s))
        PROVE  after[s] = table[s]
    BY <1>2 DEF Invalidate
  <1>3. after = [s \in SessionIds |-> after[s]]
    BY DEF Invalidate
  <1>4. \A s \in SessionIds : after[s] \in Row \cup {NoRow}
    BY <1>1, <1>2 DEF Table
  <1>5. after \in Table
    <2> HIDE DEF after
    <2> QED
      BY <1>3, <1>4 DEF Table
  <1>6. ASSUME NEW s \in SessionIds
        PROVE  /\ Exists(after, s) <=> Exists(table, s)
               /\ Exists(table, s) => after[s].userId = table[s].userId
               /\ Live(after, s) <=> Live(table, s) /\ s \notin S
               /\ s \notin S => after[s] = table[s]
    <2> HIDE DEF after
    <2>1. CASE s \in S /\ Exists(table, s)
      BY <1>1, <2>1, NoRowAssumption DEF Exists, Live
    <2>2. CASE ~(s \in S /\ Exists(table, s))
      BY <1>2, <2>2 DEF Exists, Live
    <2> QED
      BY <2>1, <2>2
  <1> QED
    BY <1>5, <1>6

\* deleteMany removes the rows it selects and touches no other row.
LEMMA DeleteManyRows ==
    ASSUME NEW table \in Table, NEW S
    PROVE  LET after == DeleteMany(table, S)
           IN  /\ after \in Table
               /\ \A s \in SessionIds :
                     /\ s \in S => ~Exists(after, s)
                     /\ s \notin S => after[s] = table[s]
  BY DEF DeleteMany, Table, Exists
=============================================================================
