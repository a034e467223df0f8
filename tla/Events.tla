------------------------------- MODULE Events -------------------------------
(***************************************************************************)
(* The set of src/lib/set.lua and the emission of src/lib/emitter.lua, as  *)
(* operators.  A set keeps its members in an array and their places in a   *)
(* table; deleting one moves the last member to its place.  An emission    *)
(* walks through the array it found when it began, up to the size it       *)
(* found, while the handlers it calls change the set.                      *)
(***************************************************************************)
EXTENDS Naturals, Sequences

CONSTANT Handlers  \* the functions the program registers

\* keys[v] = 0 stands for nil.
EmptySet == [values |-> <<>>, keys |-> [v \in Handlers |-> 0], size |-> 0]
Sets == [values : Seq(Handlers), keys : [Handlers -> Nat], size : Nat]

\* Set:add
Add(s, v) ==
  IF s.keys[v] # 0 THEN s
  ELSE [values |-> Append(s.values, v), keys |-> [s.keys EXCEPT ![v] = s.size + 1], size |-> s.size + 1]

\* Mutant: the member that is moved keeps its old place in the table.
ForgetsMoved(keys, v, top) == [keys EXCEPT ![v] = 0]

\* The places after v is gone and top is where it was.
Moved(keys, v, top) == [[keys EXCEPT ![v] = 0] EXCEPT ![top] = IF top = v THEN 0 ELSE keys[v]]

\* Set:delete
Delete(s, v) ==
  IF s.keys[v] = 0 THEN s
  ELSE LET top == s.values[Len(s.values)]
           short == SubSeq(s.values, 1, Len(s.values) - 1)
       IN [values |-> IF top = v THEN short ELSE [short EXCEPT ![s.keys[v]] = top],
           keys |-> Moved(s.keys, v, top),
           size |-> s.size - 1]

\* The members and their places agree.
Consistent(s) ==
  /\ s.size = Len(s.values)
  /\ \A v \in Handlers : \A i \in 1 .. s.size : s.values[i] = v <=> s.keys[v] = i
  /\ \A v \in Handlers : s.keys[v] <= s.size

\* emit(name): `values` is the array of the set as long as it is `shared` with it;
\* `from` and `deleted` remember what the array was and whether the program has
\* deleted a handler from it since, `called` the handlers that have been called.
Emission(name, s) ==
  [name |-> name, i |-> 0, size |-> s.size, values |-> s.values, shared |-> TRUE,
   from |-> s.values, deleted |-> FALSE, called |-> <<>>]

\* Mutant: the loop reads the array of the set again each time.
ReadsValues(e, s) == s.values

\* The array it walks through.
Walked(e, s) == IF e.shared THEN s.values ELSE e.values

\* The program has deleted v from the set s, or cleared it: then the set has a new
\* array and the emission keeps the old one.
AfterDelete(e, s, v) == IF e.shared /\ s.keys[v] # 0 THEN [e EXCEPT !.deleted = TRUE] ELSE e
AfterClear(e, s) == IF e.shared /\ s.size # 0 THEN [e EXCEPT !.values = s.values, !.shared = FALSE] ELSE e

\* It calls the next handler.
Called(e, v) == [e EXCEPT !.i = @ + 1, !.called = Append(@, v)]

=============================================================================
