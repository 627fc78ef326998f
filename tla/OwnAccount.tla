------------------------------ MODULE OwnAccount ------------------------------
(***************************************************************************)
(* What people do to their own accounts: their profile, their password,    *)
(* with a temporary one or with an emailed code, and a guest's visit.      *)
(*                                                                         *)
(* Codes are compared, not spelled; mail is not modelled.  What a new      *)
(* password ends is in SessionTx.                                          *)
(***************************************************************************)
EXTENDS Admin

CONSTANTS
    OneTimeCodes,       \* otp_log
    MaxTries, MaxSends, \* MAX_ATTEMPTS, MAX_SENDS_PER_WINDOW
    Throttle, Allowed,  \* request_throttle: the row of each bucket, and how many requests it allows
    Guests,             \* accounts that are a guest's, or may become one
    GuestDesk,          \* the advisory lock 'guest-sign-in', as a row
    GuestRole, GuestCap \* GUEST_ROLE, GUEST_ACTIVE_CAP

Buckets == {"send", "forgot", "reset", "first", "guest"}
OwnRows == OneTimeCodes \cup {Throttle[b] : b \in Buckets} \cup {GuestDesk}

ASSUME OwnAccountAssumption ==
    /\ Guests \subseteq Accounts /\ IsFiniteSet(Guests) /\ IsFiniteSet(OneTimeCodes)
    /\ GuestRole \in Roles \ {Owner} /\ GuestCap \in Nat
    /\ MaxTries \in Nat /\ MaxSends \in Nat /\ Allowed \in Nat
    /\ OwnRows \subseteq Rows /\ OwnRows \cap AdminRows = {}
    /\ GuestDesk \notin OneTimeCodes /\ \A b \in Buckets : Throttle[b] \notin OneTimeCodes \cup {GuestDesk}

\* A code is an account's, the at-th that was sent, and wrong codes are counted with it.
CodeType == [is : {"None", "Active", "Inactive"}, of : Accounts, at : Nat, live : BOOLEAN, tries : Nat]

OwnRowType(r) ==
    CASE r \in OneTimeCodes -> CodeType
      [] OTHER -> Nat       \* requests a bucket counts; the advisory lock

\* check_rate_limit counts the bucket's requests in one statement and records this one in another.
check_rate_limit(t, bucket, next) ==
    \/ At(t, "begin") /\ IF db[Throttle[bucket]] >= Allowed THEN Leave(t, "failed") ELSE Look(t, To(t, "record"))
    \/ At(t, "record") /\ Once(t, Version(Throttle[bucket], db[Throttle[bucket]] + 1), To(t, next))

update_profile_info(t) ==
    /\ Asks(t, "profile", Accounts) /\ At(t, "begin")
    /\ Press(t, {"Active"}, "Active", To(t, "commit"))

\* The temporary password was set by someone else; the person's own replaces it.
set_first_password(t) ==
    /\ Do(t) = "first"
    /\ \/ check_rate_limit(t, "first", "own_row")
       \/ /\ At(t, "own_row")
          /\ IF Own(t).must /\ Sent(t).current = Own(t).password /\ Sent(t).password # Own(t).password
             THEN Change(t, Version(Row(t), Updated(Own(t), [must |-> FALSE, password |-> Sent(t).password])), To(t, "commit"))
             ELSE Free(t, Row(t)) /\ OursAlone(t, {Row(t)}) /\ Refuse(t)

-----------------------------------------------------------------------------
(* Emailed codes *)

Sent_(a) == {c \in OneTimeCodes : db[c].is # "None" /\ db[c].of = a}
Live(t, a) == {c \in OneTimeCodes : View(t, c).is = "Active" /\ View(t, c).of = a}

\* save_generated_otp: the live codes are spent by one statement, the new one stored by another.
save_generated_otp(t) ==
    \/ /\ At(t, "spend_all")
       /\ Once(t, [c \in Live(t, Row(t)) |-> [db[c] EXCEPT !.is = "Inactive"]], To(t, "store"))
    \/ /\ At(t, "store") /\ IsNew(t, Sent(t).code)
       /\ Once(t, Version(Sent(t).code, [is |-> "Active", of |-> Row(t), at |-> Cardinality(Sent_(Row(t))),
                                         live |-> TRUE, tries |-> 0]), Blank("done"))

change_password(t) ==
    /\ Do(t) = "send"
    /\ \/ check_rate_limit(t, "send", "current")
       \/ /\ At(t, "current")
          /\ IF Sent(t).current = Own(t).password /\ Sent(t).password # Own(t).password
             THEN Look(t, To(t, "spend_all")) ELSE Leave(t, "failed")
       \/ save_generated_otp(t)

forgot_password(t) ==
    /\ Do(t) = "forgot"
    /\ \/ check_rate_limit(t, "forgot", "user")
       \/ /\ At(t, "user")
          /\ IF Own(t).is # "None" /\ Cardinality(Sent_(Row(t))) < MaxSends THEN Look(t, To(t, "spend_all")) ELSE Leave(t, "failed")
       \/ save_generated_otp(t)

\* The statement that spends every live code of the account finds them, and waits for each.
FindLive(t) == At(t, "find_live") /\ Look(t, [To(t, "spend") EXCEPT !.todo = Live(t, Row(t))])

Spend(t) ==
    /\ At(t, "spend") /\ tx[t].todo # {}
    /\ \E c \in tx[t].todo :
        Change(t, Version(c, [View(t, c) EXCEPT !.is = "Inactive"]), [tx[t] EXCEPT !.todo = @ \ {c}])

AllSpent(t, next) == At(t, "spend") /\ tx[t].todo = {} /\ Look(t, To(t, next))

\* A wrong code is counted after the transaction that found it wrong was given up.
CountWrong(t, c) == At(t, "wrong") /\ Once(t, Version(c, [db[c] EXCEPT !.tries = @ + 1]), Blank("failed"))

\* Faulty form of LockCode: the code is read and not locked.
ReadCode(t) ==
    /\ At(t, "begin") /\ Do(t) = "verify"
    /\ IF db[Sent(t).code].is = "Active" /\ db[Sent(t).code].live /\ db[Sent(t).code].tries < MaxTries
       THEN Look(t, To(t, "compare")) ELSE Refuse(t)

\* The code the page names is locked until it is spent.
LockCode(t) ==
    LET code == db[Sent(t).code]
    IN  /\ At(t, "begin") /\ Do(t) = "verify"
        /\ IF code.is = "Active" /\ code.of = Row(t) /\ code.live /\ code.tries < MaxTries
           THEN Change(t, Version(Sent(t).code, code), To(t, "compare"))
           ELSE Free(t, Sent(t).code) /\ Refuse(t)

verify_otp_for_password_change(t) ==
    /\ Do(t) = "verify"
    /\ \/ LockCode(t)
       \/ At(t, "compare") /\ Sent(t).password = Own(t).password /\ Refuse(t)
       \/ At(t, "compare") /\ Sent(t).password # Own(t).password /\ Sent(t).typed # Sent(t).code /\ Leave(t, "wrong")
       \/ At(t, "compare") /\ Sent(t).password # Own(t).password /\ Sent(t).typed = Sent(t).code /\ Look(t, To(t, "find_live"))
       \/ FindLive(t) \/ Spend(t) \/ AllSpent(t, "write")
       \/ At(t, "write") /\ Change(t, Version(Row(t), Updated(Own(t), [password |-> Sent(t).password])), To(t, "commit"))
       \/ CountWrong(t, Sent(t).code)

\* The newest live code of the account, if it still counts.
Good(t) ==
    LET live == Live(t, Row(t))
    IN  {c \in live : (\A other \in live : db[other].at <= db[c].at) /\ db[c].live /\ db[c].tries < MaxTries}

\* A forgotten password: the newest live code is read, and not locked.  edited_on stays as it is.
reset_password(t) ==
    /\ Do(t) = "reset"
    /\ \/ check_rate_limit(t, "reset", "newest")
       \/ At(t, "newest") /\ Good(t) = {} /\ Refuse(t)
       \/ /\ At(t, "newest") /\ Sent(t).typed \notin Good(t)
          /\ \E c \in Good(t) : Look(t, [Blank("wrong") EXCEPT !.fit = c])
       \/ At(t, "newest") /\ Sent(t).typed \in Good(t) /\ Look(t, To(t, "write"))
       \/ At(t, "write") /\ Change(t, Version(Row(t), [Own(t) EXCEPT !.password = Sent(t).password]), To(t, "find_live"))
       \/ FindLive(t) \/ Spend(t) \/ AllSpent(t, "commit")
       \/ CountWrong(t, tx[t].fit)

PasswordStep(t) ==
    \/ update_profile_info(t) \/ set_first_password(t) \/ change_password(t) \/ forgot_password(t)
    \/ verify_otp_for_password_change(t) \/ reset_password(t)

-----------------------------------------------------------------------------
(* Guests *)

Visiting(t) == {g \in Guests : View(t, g).is = "Active"}

\* Visits whose time is over end, each guest's row being waited for.
EndVisits(t) ==
    \/ At(t, "visits") /\ Look(t, [To(t, "end_visit") EXCEPT !.todo = {g \in Visiting(t) : db[g].past}])
    \/ /\ At(t, "end_visit") /\ tx[t].todo # {}
       /\ \E g \in tx[t].todo :
            Change(t, Version(g, IF View(t, g).is = "Active" THEN Updated(View(t, g), [is |-> "Inactive"]) ELSE View(t, g)),
                   [tx[t] EXCEPT !.todo = @ \ {g}])
    \/ At(t, "end_visit") /\ tx[t].todo = {} /\ Look(t, To(t, "desk"))

\* Faulty form of TakeDesk: visitors do not wait for each other.
PassDesk(t) == At(t, "desk") /\ Look(t, To(t, "count"))

\* pg_advisory_xact_lock.
TakeDesk(t) == At(t, "desk") /\ Change(t, Version(GuestDesk, 0), To(t, "count"))

\* free_name: the base name, or its first number that no active guest has.
Taken(t) == {db[g].guest : g \in Visiting(t)}
\* Faulty form of IsFreeName: the active guests are numbered by how many there are.
IsNextName(t, n) == n = Cardinality(Visiting(t)) + 1

IsFreeName(t, n) == \A k \in 1 .. n : k \in Taken(t) <=> k < n

guest_sign_in(t) ==
    /\ Asks(t, "guest", Guests)
    /\ \/ check_rate_limit(t, "guest", "visits")
       \/ EndVisits(t) \/ TakeDesk(t)
       \/ At(t, "count") /\ IF Cardinality(Visiting(t)) >= GuestCap THEN Refuse(t) ELSE Look(t, To(t, "role"))
       \/ At(t, "role") /\ IF db[GuestRole].is = "Active" THEN Look(t, To(t, "name")) ELSE Refuse(t)
       \/ At(t, "name") /\ \E n \in 1 .. Cardinality(Guests) + 1 : IsFreeName(t, n) /\ Look(t, [To(t, "write") EXCEPT !.fit = n])
       \/ /\ At(t, "write") /\ IsNew(t, Row(t))
          /\ Change(t, Version(Row(t), [is |-> "Active", role |-> GuestRole, guest |-> tx[t].fit, past |-> FALSE,
                                        must |-> FALSE, password |-> 0, version |-> 0]), To(t, "commit"))

OwnStep(t) == PasswordStep(t) \/ guest_sign_in(t)

OwnNeeds(t) ==
    CASE At(t, "begin") /\ Do(t) = "profile" -> {Row(t)}
      [] At(t, "begin") /\ Do(t) = "verify" -> {Sent(t).code}
      [] At(t, "own_row") -> {Row(t)}
      [] At(t, "spend") -> tx[t].todo
      [] At(t, "write") /\ Do(t) \in {"verify", "reset"} -> {Row(t)}
      [] At(t, "end_visit") -> tx[t].todo
      [] At(t, "desk") -> {GuestDesk}
      [] OTHER -> {}
=============================================================================
