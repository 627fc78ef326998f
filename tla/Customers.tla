------------------------------- MODULE Customers -------------------------------
(***************************************************************************)
(* Customers and where their parcels go: a phone belongs to one customer,  *)
(* a customer has many addresses and one of them is the default.           *)
(*                                                                         *)
(* Phones are the entries of a unique index, so a customer who is being    *)
(* saved keeps the next one with that phone waiting.  Places, names and    *)
(* gender are left out.                                                    *)
(***************************************************************************)
EXTENDS Forms

CONSTANTS
    Phones, Customers, Addresses,   \* uq_customers_phone_normalized, customers, customer_address
    Nobody                          \* what a phone nobody has leads to

CustomerRows == Phones \cup Customers \cup Addresses

ASSUME CustomersAssumption ==
    /\ Nobody \notin CustomerRows /\ CustomerRows \subseteq Rows
    /\ Phones \cap (Customers \cup Addresses) = {} /\ Customers \cap Addresses = {}

\* `filled` is whether the first order has filled in what describes the buyer; `at` orders a customer's
\* addresses by age.
CustomerRowType(r) ==
    CASE r \in Phones -> Customers \cup {Nobody}
      [] r \in Customers -> [is : {"None", "Active", "Inactive"}, phone : Phones, flag : {"None", "Watch", "Blocked"},
                             filled : BOOLEAN, version : Nat]
      [] OTHER -> [is : {"None", "Active", "Inactive"}, of : Customers, default : BOOLEAN, label : Nat, at : Nat, version : Nat]

\* The customer a request has come to act on.
Customer(t) == tx[t].fit
For(t, c, pc) == [To(t, pc) EXCEPT !.fit = c]

NewCustomer(phone) == [is |-> "Active", phone |-> phone, flag |-> "None", filled |-> FALSE, version |-> 1]

\* INSERT of a customer: the unique index waits for whoever is about to take, or give up, the phone.
Register(t, next) ==
    Change(t, Version(Sent(t).phone, Sent(t).new) ++ Version(Sent(t).new, NewCustomer(Sent(t).phone)), For(t, Sent(t).new, next))

PhoneFree(t) == Free(t, Sent(t).phone) /\ View(t, Sent(t).phone) = Nobody
PhoneTaken(t) == Free(t, Sent(t).phone) /\ View(t, Sent(t).phone) # Nobody

\* The customer behind a sale's phone: the one who has it, or a new one if a name was given; whoever loses
\* the race to add one goes by the other's, and fails if that one has given up the phone by then.
find_or_create_customer(t, from, next) ==
    LET has == View(t, Sent(t).phone)
    IN  \/ /\ At(t, from)
           /\ IF has # Nobody THEN Look(t, For(t, has, next))
              ELSE IF Sent(t).new = Nobody THEN Refuse(t) ELSE Look(t, To(t, "register"))
        \/ At(t, "register") /\ PhoneFree(t) /\ Register(t, next)
        \/ At(t, "register") /\ PhoneTaken(t) /\ Look(t, To(t, "find again"))
        \/ At(t, "find again") /\ IF has # Nobody THEN Look(t, For(t, has, next)) ELSE Refuse(t)

-----------------------------------------------------------------------------
(* Addresses *)

Saved(t, c) == {a \in Addresses : View(t, a).is = "Active" /\ View(t, a).of = c}
Defaults(t, c) == {a \in Saved(t, c) : View(t, a).default}

StepsDown(t, A) == [a \in A |-> Updated(View(t, a), [default |-> FALSE])]

\* Faulty form of LockCustomer: the customer is read and not locked.
ReadCustomer(t, c, next) == Look(t, For(t, c, next))

\* Every address write waits for the customer first.
LockCustomer(t, c, next) == Change(t, Version(c, View(t, c)), For(t, c, next))

\* insert_address: the first address is the default, and a new default makes the old one step down; the
\* partial unique index refuses a second.
insert_address(t, next) ==
    LET c == Customer(t)
        address(default) == [is |-> "Active", of |-> c, default |-> default, label |-> 0,
                             at |-> Cardinality({a \in Addresses : View(t, a).is # "None" /\ View(t, a).of = c}), version |-> 1]
        Insert_(default) ==
            IF default /\ Defaults(t, c) # {}
            THEN Refuse(t)
            ELSE Change(t, Version(Sent(t).address, address(default)), To(t, next))
    IN  \/ /\ At(t, "address")
           /\ Look(t, To(t, IF Sent(t).default \/ Defaults(t, c) = {} THEN "step down" ELSE "beside"))
        \/ At(t, "step down") /\ Change(t, StepsDown(t, Defaults(t, c)), To(t, "in front"))
        \/ At(t, "in front") /\ Insert_(TRUE)
        \/ At(t, "beside") /\ Insert_(FALSE)

create_customer(t) ==
    /\ Do(t) = "register"
    /\ \/ At(t, "begin") /\ PhoneTaken(t) /\ Refuse(t)
       \/ At(t, "begin") /\ PhoneFree(t) /\ Register(t, IF Sent(t).address = Nobody THEN "commit" ELSE "address")
       \/ insert_address(t, "commit")

create_customer_address(t) ==
    /\ Asks(t, "address", Customers)
    /\ \/ At(t, "begin") /\ LockCustomer(t, Row(t), "address")
       \/ insert_address(t, "commit")

\* The newest of the other addresses becomes the default when the default is removed.
Heirs(t) ==
    LET others == Saved(t, Own(t).of) \ {Row(t)}
    IN  {a \in others : \A b \in others : View(t, b).at <= View(t, a).at}

\* The owner of an address never changes, so it is read along with the lock.
retire_customer_address(t) ==
    LET c == Own(t).of
        others == Saved(t, c) \ {Row(t)}
    IN  /\ Asks(t, "retire", Addresses)
        /\ \/ At(t, "begin") /\ LockCustomer(t, c, "retire")
           \/ At(t, "retire") /\ Own(t).is # "Active" /\ Free(t, Row(t)) /\ Refuse(t)
           \/ /\ At(t, "retire") /\ Own(t).is = "Active"
              /\ Change(t, Version(Row(t), Updated(Own(t), [is |-> "Inactive", default |-> FALSE])),
                        To(t, IF Own(t).default THEN "heir" ELSE "commit"))
           \/ At(t, "heir") /\ others = {} /\ Look(t, To(t, "commit"))
           \/ /\ At(t, "heir")
              /\ \E heir \in Heirs(t) : Change(t, Version(heir, Updated(View(t, heir), [default |-> TRUE])), To(t, "commit"))

\* A form opened on an address: the default moves by making another the default, never by leaving none.
update_customer_address(t) ==
    LET c == View(t, Row(t)).of
        new == [label |-> Sent(t).label, default |-> Own(t).default \/ Sent(t).default]
        same == \A column \in DOMAIN new : new[column] = Own(t)[column]
    IN  /\ Asks(t, "redirect", Addresses)
        /\ \/ At(t, "begin") /\ Look(t, [To(t, "owner") EXCEPT !.seen = db[Row(t)].version])
           \/ At(t, "owner") /\ LockCustomer(t, c, "form")
           \/ At(t, "form") /\ db[Row(t)].version = tx[t].seen /\ Change(t, Version(Row(t), db[Row(t)]), To(t, "compare"))
           \/ At(t, "form") /\ db[Row(t)].version # tx[t].seen /\ Free(t, Row(t)) /\ Refuse(t)
           \/ At(t, "compare") /\ Own(t).is # "Active" /\ Refuse(t)
           \/ At(t, "compare") /\ Own(t).is = "Active" /\ Look(t, To(t, IF same THEN "commit" ELSE "step aside"))
           \/ /\ At(t, "step aside")
              /\ Change(t, IF new.default THEN StepsDown(t, Defaults(t, c) \ {Row(t)}) ELSE << >>, To(t, "write"))
           \/ At(t, "write") /\ Change(t, Version(Row(t), Updated(Own(t), new)), To(t, "commit"))

-----------------------------------------------------------------------------
(* The customer *)

flag_customer(t) ==
    /\ Asks(t, "flag", Customers) /\ At(t, "begin")
    /\ Change(t, Version(Row(t), IF Own(t).flag = Sent(t) THEN Own(t) ELSE Updated(Own(t), [flag |-> Sent(t)])),
              To(t, "commit"))

\* Saved from a form; a new phone is entered in the index, where somebody may have it.
update_customer_details(t) ==
    LET old == Own(t).phone
    IN  /\ Asks(t, "save", Customers)
        /\ \/ At(t, "check") /\ Untouched(t) /\ Look(t, To(t, "commit"))
           \/ At(t, "check") /\ ~Untouched(t) /\ Sent(t).phone = old /\ Save(t, << >>, "commit")
           \/ /\ At(t, "check") /\ ~Untouched(t) /\ Sent(t).phone # old
              /\ Change(t, Version(Row(t), Updated(Own(t), Sent(t))) ++ Version(old, Nobody), To(t, "phone"))
           \/ At(t, "phone") /\ PhoneTaken(t) /\ Refuse(t)
           \/ At(t, "phone") /\ PhoneFree(t) /\ Change(t, Version(Sent(t).phone, Row(t)), To(t, "commit"))

CustomerStep(t) ==
    \/ create_customer(t) \/ create_customer_address(t) \/ retire_customer_address(t) \/ update_customer_address(t)
    \/ flag_customer(t) \/ update_customer_details(t)

\* The rows the next statement of t has to lock.
CustomerNeeds(t) ==
    CASE At(t, "begin") /\ Do(t) \in {"address", "flag"} -> {Row(t)}
      [] At(t, "begin") /\ Do(t) = "retire" -> {db[Row(t)].of}
      [] At(t, "owner") -> {db[Row(t)].of}
      [] (At(t, "begin") /\ Do(t) = "register") \/ At(t, "register") \/ At(t, "phone") -> {Sent(t).phone}
      [] At(t, "step down") -> Defaults(t, Customer(t))
      [] At(t, "step aside") -> IF Sent(t).default THEN Defaults(t, Customer(t)) \ {Row(t)} ELSE {}
      [] At(t, "heir") -> Heirs(t)
      [] At(t, "retire") \/ At(t, "form") -> {Row(t)}
      [] OTHER -> {}
=============================================================================
