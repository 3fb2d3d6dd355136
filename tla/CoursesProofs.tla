---------------------------- MODULE CoursesProofs ----------------------------
(***************************************************************************)
(* Theorems about Courses: contacts stay unique, a repeated request leaves *)
(* one lead, and an answered one reaches the provider - for any number of  *)
(* providers, courses, customers and requests.                             *)
(***************************************************************************)
EXTENDS Courses, TLAPS

\* The state functions keep their domains.
Shape == /\ provider = [p \in Providers |-> provider[p]]
         /\ signing = [p \in Providers |-> signing[p]]
         /\ course = [c \in CourseIds |-> course[c]]
         /\ asking = [p \in Procs |-> asking[p]]

\* What LeadReachesProvider and RepeatLeavesOneLead rest on: a request that
\* found no lead, or stored one, remembers what it asked for.
Request(p) ==
  /\ asking[p].before \subseteq leads
  /\ asking[p].pc = "create" =>
       \A l \in asking[p].before : l.course # asking[p].course \/ l.email # asking[p].email
  /\ asking[p].pc = "answered" =>
       \E l \in leads : l.course = asking[p].course /\ l.email = asking[p].email
Requests == \A p \in Procs : Request(p)
Leads == \A l \in leads : l.by \in Procs /\ asking[l.by].pc = "answered"

IInv == Shape /\ ContactsUnique /\ Requests /\ Leads /\ RepeatLeavesOneLead

\* A document that the unique indexes accept keeps the contacts unique.
LEMMA InsertUnique ==
  ASSUME Shape, ContactsUnique, NEW p \in Providers, NEW email, NEW phone,
         Insertable(p, email, phone),
         provider' = [provider EXCEPT ![p] = [email |-> email, phone |-> phone]]
  PROVE  ContactsUnique'
<1>1. provider'[p] = [email |-> email, phone |-> phone]
  BY DEF Shape
<1>2. \A q \in Providers \ {p} : provider'[q] = provider[q]
  BY DEF Shape
<1>3. Registered' \ {p} = Registered \ {p}
  BY <1>2 DEF Registered
<1>4. \A q \in Registered' \ {p} : provider'[q].email # email /\ provider'[q].phone # phone
  BY <1>2, <1>3 DEF Insertable, Unused, Registered
<1>5. \A q, r \in Registered' \ {p} : q # r => /\ provider'[q].email # provider'[r].email
                                              /\ provider'[q].phone # provider'[r].phone
  BY <1>2, <1>3 DEF ContactsUnique, Registered
<1>6. \A q, r \in Registered' : q # r => /\ provider'[q].email # provider'[r].email
                                         /\ provider'[q].phone # provider'[r].phone
  <2> SUFFICES ASSUME NEW q \in Registered', NEW r \in Registered', q # r
               PROVE  provider'[q].email # provider'[r].email /\ provider'[q].phone # provider'[r].phone
    OBVIOUS
  <2>1. CASE q = p BY <2>1, <1>1, <1>4
  <2>2. CASE r = p BY <2>2, <1>1, <1>4
  <2>3. CASE q # p /\ r # p BY <2>3, <1>5
  <2> QED BY <2>1, <2>2, <2>3
<1> QED BY <1>6 DEF ContactsUnique

\* The steps of signup and updateProfile.
LEMMA ContactStep ==
  ASSUME IInv, NEW p \in Providers, Contact(p)
  PROVE  Shape' /\ ContactsUnique' /\ UNCHANGED <<leads, asking>>
<1> USE DEF IInv
<1>1. ASSUME NEW email, NEW phone, SignUp(p, email, phone) PROVE Shape' /\ UNCHANGED <<provider, leads, asking>>
  BY <1>1 DEF SignUp, Sign, ProviderStep, Shape
<1>2. ASSUME NEW email, NEW phone, UpdateProfile(p, email, phone) PROVE Shape' /\ UNCHANGED <<provider, leads, asking>>
  BY <1>2 DEF UpdateProfile, Sign, ProviderStep, Shape
<1>3. CASE SignDies(p)
  <2>1. Shape' /\ UNCHANGED <<provider, leads, asking>>
    BY <1>3 DEF SignDies, Sign, ProviderStep, Shape
  <2> QED BY <2>1 DEF ContactsUnique, Registered
<1>4. CASE CreateProvider(p)
  <2> DEFINE email == signing[p].email  phone == signing[p].phone
  <2>1. UNCHANGED <<leads, asking, course>>
    BY <1>4 DEF CreateProvider, ProviderStep
  <2>2. CASE Insertable(p, email, phone)
    <3>1. provider' = [provider EXCEPT ![p] = [email |-> email, phone |-> phone]]
      BY <1>4, <2>2 DEF CreateProvider
    <3> QED BY <1>4, <2>1, <2>2, <3>1, InsertUnique DEF CreateProvider, Sign, Shape
  <2>3. CASE ~Insertable(p, email, phone)
    <3>1. UNCHANGED provider
      BY <1>4, <2>3 DEF CreateProvider
    <3> QED BY <1>4, <2>1, <3>1 DEF CreateProvider, Sign, Shape, ContactsUnique, Registered
  <2> QED BY <2>2, <2>3
<1>5. CASE StoreProfile(p)
  <2> DEFINE email == IF signing[p].email = None THEN provider[p].email ELSE signing[p].email
             phone == IF signing[p].phone = None THEN provider[p].phone ELSE signing[p].phone
  <2>1. UNCHANGED <<leads, asking, course>>
    BY <1>5 DEF StoreProfile, ProviderStep
  <2>2. CASE Insertable(p, email, phone)
    <3>1. provider' = [provider EXCEPT ![p] = [email |-> email, phone |-> phone]]
      BY <1>5, <2>2 DEF StoreProfile
    <3>2. ContactsUnique'
      BY <2>2, <3>1, InsertUnique
    <3> QED BY <1>5, <2>1, <3>1, <3>2 DEF StoreProfile, Sign, Shape
  <2>3. CASE ~Insertable(p, email, phone)
    <3>1. UNCHANGED provider
      BY <1>5, <2>3 DEF StoreProfile
    <3> QED BY <1>5, <2>1, <3>1 DEF StoreProfile, Sign, Shape, ContactsUnique, Registered
  <2> QED BY <2>2, <2>3
<1>6. UNCHANGED provider => ContactsUnique'
  BY DEF ContactsUnique, Registered
<1> QED BY <1>1, <1>2, <1>3, <1>4, <1>5, <1>6 DEF Contact

\* The steps that manage courses touch nothing else.
LEMMA ManageStep ==
  ASSUME IInv, NEW c \in CourseIds, Manage(c)
  PROVE  Shape' /\ UNCHANGED <<provider, signing, leads, asking>>
BY DEF IInv, Manage, AddCourse, UpdateCourse, SoftDeleteCourse, ApproveCourse, RejectCourse, SetCourse, Shape

\* The steps of a request for a course keep what the leads are said to be.
LEMMA LeadStepInv ==
  ASSUME IInv, NEW p \in Procs, Lead(p)
  PROVE  IInv'
<1> USE DEF IInv
<1>0. UNCHANGED <<provider, signing, course>>
  BY DEF Lead, FindCourse, CheckLead, CreateLead, AskingDies, LeadStep
<1>1. ContactsUnique'
  BY <1>0 DEF ContactsUnique, Registered
<1>2. Shape'
  BY <1>0 DEF Lead, FindCourse, CheckLead, CreateLead, AskingDies, Ask, Shape
<1>3. \A q \in Procs \ {p} : asking'[q] = asking[q]
  BY DEF Lead, FindCourse, CheckLead, CreateLead, AskingDies, Ask, Shape
<1>4. asking[p].pc # "answered"
  BY DEF Lead, FindCourse, CheckLead, CreateLead, AskingDies
<1>5. \A l \in leads : l.by # p
  BY <1>4 DEF Leads
<1>6. leads \subseteq leads'
  BY DEF Lead, FindCourse, CheckLead, CreateLead, AskingDies
<1>7. \A q \in Procs \ {p} : Request(q)'
  BY <1>3, <1>6 DEF Requests, Request
<1>8. CASE UNCHANGED leads
  <2>1. Leads' /\ RepeatLeavesOneLead'
    BY <1>8, <1>3, <1>5 DEF Leads, RepeatLeavesOneLead
  <2>2. Request(p)'
    <3>1. ASSUME NEW c \in CourseIds, NEW email \in Customers, FindCourse(p, c, email) PROVE Request(p)'
      BY <3>1, <1>8 DEF FindCourse, Request, Shape
    <3>2. CASE CheckLead(p)
      <4>1. asking'[p] = [asking[p] EXCEPT !.pc = IF LeadExists(p) THEN "answered" ELSE "create"]
        BY <3>2 DEF CheckLead, Ask, Shape
      <4> QED BY <4>1, <1>8 DEF Requests, Request, LeadExists
    <3>3. CASE AskingDies(p)
      <4>1. asking'[p] = [asking[p] EXCEPT !.pc = "died"]
        BY <3>3 DEF AskingDies, Ask, Shape
      <4>2. asking'[p].pc = "died" /\ asking'[p].before = asking[p].before
        BY <4>1
      <4> QED BY <4>2, <1>8 DEF Requests, Request
    <3>4. CASE CreateLead(p)
      <4>1. [by |-> p, course |-> asking[p].course, email |-> asking[p].email] \in leads
        BY <3>4, <1>8 DEF CreateLead
      <4> QED BY <4>1, <1>5
    <3> QED BY <3>1, <3>2, <3>3, <3>4 DEF Lead
  <2> QED BY <1>1, <1>2, <1>7, <2>1, <2>2 DEF Requests
<1>9. CASE CreateLead(p)
  <2> DEFINE new == [by |-> p, course |-> asking[p].course, email |-> asking[p].email]
  <2>1. leads' = leads \cup {new} /\ asking'[p] = [asking[p] EXCEPT !.pc = "answered"]
    BY <1>9 DEF CreateLead, Ask, Shape
  <2>2. new \notin leads /\ new.by = p
    BY <1>5
  <2>3. asking'[p].pc = "answered" /\ asking'[p].before = asking[p].before
        /\ asking'[p].course = asking[p].course /\ asking'[p].email = asking[p].email
    BY <2>1
  <2>4. Request(p)'
    <3>1. asking'[p].before \subseteq leads'
      BY <2>1, <2>3 DEF Requests, Request
    <3>2. new \in leads' /\ new.course = asking'[p].course /\ new.email = asking'[p].email
      BY <2>1, <2>3
    <3> QED BY <2>3, <3>1, <3>2 DEF Request
  <2>5. Leads'
    BY <2>1, <2>2, <2>3, <1>3, <1>5 DEF Leads
  <2>6. \A l \in leads : l.course = new.course /\ l.email = new.email =>
           l \notin asking'[p].before /\ new \notin asking'[l.by].before
    <3> SUFFICES ASSUME NEW l \in leads, l.course = new.course, l.email = new.email
                 PROVE  l \notin asking'[p].before /\ new \notin asking'[l.by].before
      OBVIOUS
    <3>1. l \notin asking[p].before
      BY <1>9 DEF CreateLead, Requests, Request
    <3>2. l.by \in Procs \ {p}
      BY <1>5 DEF Leads
    <3>3. asking'[l.by].before \subseteq leads
      BY <3>2, <1>3 DEF Requests, Request
    <3> QED BY <3>1, <3>3, <2>2, <2>3
  <2>7. \A l \in leads : asking'[l.by] = asking[l.by]
    BY <1>3, <1>5 DEF Leads
  <2>8. RepeatLeavesOneLead'
    <3> SUFFICES ASSUME NEW l \in leads', NEW k \in leads', l # k, l.course = k.course, l.email = k.email
                 PROVE  l \notin asking'[k.by].before /\ k \notin asking'[l.by].before
      BY DEF RepeatLeavesOneLead
    <3>1. CASE l = new BY <3>1, <2>1, <2>2, <2>6
    <3>2. CASE k = new BY <3>2, <2>1, <2>2, <2>6
    <3>3. CASE l # new /\ k # new BY <3>3, <2>1, <2>7 DEF RepeatLeavesOneLead
    <3> QED BY <3>1, <3>2, <3>3
  <2> QED BY <1>1, <1>2, <1>7, <2>4, <2>5, <2>8 DEF Requests
<1> QED BY <1>8, <1>9 DEF Lead, FindCourse, CheckLead, AskingDies

\* The invariant holds at the start, and every step keeps it.
LEMMA Inductive == Spec => []IInv
<1>1. Init => IInv
  BY DEF Init, IInv, Shape, ContactsUnique, Registered, Requests, Request, Leads, RepeatLeavesOneLead
<1>2. IInv /\ [Next]_vars => IInv'
  <2> SUFFICES ASSUME IInv, [Next]_vars PROVE IInv'
    OBVIOUS
  <2>1. ASSUME Shape', ContactsUnique', UNCHANGED <<leads, asking>> PROVE IInv'
    BY <2>1 DEF IInv, Requests, Request, Leads, RepeatLeavesOneLead
  <2>2. ASSUME NEW p \in Providers, Contact(p) PROVE IInv'
    BY <2>1, <2>2, ContactStep
  <2>3. ASSUME NEW c \in CourseIds, Manage(c) PROVE IInv'
    <3>1. Shape' /\ UNCHANGED <<provider, leads, asking>>
      BY <2>3, ManageStep
    <3>2. ContactsUnique'
      BY <3>1 DEF IInv, ContactsUnique, Registered
    <3> QED BY <2>1, <3>1, <3>2
  <2>4. ASSUME NEW p \in Procs, Lead(p) PROVE IInv'
    BY <2>4, LeadStepInv
  <2>5. CASE UNCHANGED vars
    BY <2>1, <2>5 DEF vars, IInv, Shape, ContactsUnique, Registered
  <2> QED BY <2>2, <2>3, <2>4, <2>5 DEF Next
<1> QED BY <1>1, <1>2, PTL DEF Spec

\* Sign-ups and profile changes that interleave leave no contact to two
\* providers (the unique indexes of CourseProvider decide, not the checks).
THEOREM ContactsStayUnique == Spec => []ContactsUnique
<1>1. IInv => ContactsUnique
  BY DEF IInv
<1> QED BY <1>1, Inductive, PTL

\* createLead repeated by a customer finds the lead of the first request.
THEOREM RepeatsLeaveOneLead == Spec => []RepeatLeavesOneLead
<1>1. IInv => RepeatLeavesOneLead
  BY DEF IInv
<1> QED BY <1>1, Inductive, PTL

\* Whoever was answered by createLead is in getLeadsForProvider, until
\* softDeleteCourse, whatever happens to the course meanwhile.
THEOREM LeadsReachTheirProvider == Spec => []LeadReachesProvider
<1>1. IInv => LeadReachesProvider
  BY DEF IInv, Requests, Request, LeadReachesProvider, LeadsOf
<1> QED BY <1>1, Inductive, PTL
-----------------------------------------------------------------------------
(* Types *)

\* None stands for what MongoDB leaves out: no document is None.
NoneIsApart ==
  /\ None \notin [email : Emails, phone : Phones]
  /\ None \notin [of : Providers, version : {1, 2}, status : {"PENDING_APPROVAL", "APPROVED", "REJECTED"},
                  active : BOOLEAN, deleted : BOOLEAN]

\* What the executions carry.
Signing(p) ==
  /\ signing[p].pc = "create" => signing[p].email \in Emails /\ signing[p].phone \in Phones
  /\ signing[p].pc = "update" => /\ p \in Registered
                                 /\ signing[p].email \in Emails \cup {None} /\ signing[p].phone \in Phones \cup {None}
Asking(p) == asking[p].pc \in {"exists", "create"} => asking[p].course \in Courses /\ asking[p].email \in Customers
CourseDoc(c) ==
  course[c] \in [of : Registered, version : {1, 2}, status : {"PENDING_APPROVAL", "APPROVED", "REJECTED"},
                 active : BOOLEAN, deleted : BOOLEAN]
Types == /\ Shape /\ TypeOK
         /\ \A p \in Providers : Signing(p)
         /\ \A p \in Procs : Asking(p)
         /\ \A c \in Courses : CourseDoc(c)

\* A contact step leaves every provider registered, with contacts of the right
\* types.
LEMMA ContactTypes ==
  ASSUME NoneIsApart, Types, NEW p \in Providers, Contact(p)
  PROVE  Types'
<1> USE DEF Types, Shape
<1>1. ASSUME Registered \subseteq Registered', UNCHANGED <<course, leads, asking>>,
             signing' = [q \in Providers |-> signing'[q]], provider' = [q \in Providers |-> provider'[q]],
             \A q \in Providers : Signing(q)',
             \A q \in Registered' : provider'[q].email \in Emails /\ provider'[q].phone \in Phones
      PROVE  Types'
  BY <1>1 DEF TypeOK, Courses, Asking, CourseDoc
<1>2. ASSUME NEW pc, NEW email, NEW phone, Sign(p, pc, email, phone), Registered \subseteq Registered',
             pc = "create" => email \in Emails /\ phone \in Phones,
             pc = "update" => p \in Registered /\ email \in Emails \cup {None} /\ phone \in Phones \cup {None}
      PROVE  signing' = [q \in Providers |-> signing'[q]] /\ \A q \in Providers : Signing(q)'
  BY <1>2 DEF Sign, Signing
<1>3. ASSUME UNCHANGED provider
      PROVE  /\ Registered \subseteq Registered' /\ provider' = [q \in Providers |-> provider'[q]]
             /\ \A q \in Registered' : provider'[q].email \in Emails /\ provider'[q].phone \in Phones
  BY <1>3 DEF Registered, TypeOK
<1>4. ASSUME NEW email \in Emails, NEW phone \in Phones, provider' = [provider EXCEPT ![p] = [email |-> email, phone |-> phone]]
      PROVE  /\ Registered \subseteq Registered' /\ provider' = [q \in Providers |-> provider'[q]]
             /\ \A q \in Registered' : provider'[q].email \in Emails /\ provider'[q].phone \in Phones
  <2>1. provider'[p] = [email |-> email, phone |-> phone] /\ \A q \in Providers \ {p} : provider'[q] = provider[q]
    BY <1>4
  <2>2. provider'[p] # None
    BY <2>1 DEF NoneIsApart
  <2> QED BY <1>4, <2>1, <2>2 DEF Registered, TypeOK
<1>5. ASSUME NEW email \in Emails, NEW phone \in Phones, SignUp(p, email, phone) PROVE Types'
  <2>1. UNCHANGED <<provider, course, leads, asking>>
    BY <1>5 DEF SignUp, ProviderStep
  <2>2. Sign(p, "create", email, phone) \/ Sign(p, "refused", None, None)
    BY <1>5 DEF SignUp
  <2> QED BY <1>1, <1>2, <1>3, <2>1, <2>2
<1>6. CASE CreateProvider(p)
  <2>1. /\ \/ provider' = [provider EXCEPT ![p] = [email |-> signing[p].email, phone |-> signing[p].phone]]
           \/ UNCHANGED provider
        /\ signing[p].email \in Emails /\ signing[p].phone \in Phones
        /\ Sign(p, "idle", None, None) /\ UNCHANGED <<course, leads, asking>>
    BY <1>6 DEF CreateProvider, ProviderStep, Signing
  <2> QED BY <1>1, <1>2, <1>3, <1>4, <2>1
<1>7. ASSUME NEW email \in Emails \cup {None}, NEW phone \in Phones \cup {None}, UpdateProfile(p, email, phone)
      PROVE  Types'
  <2>1. p \in Registered /\ Sign(p, "update", email, phone) /\ UNCHANGED <<provider, course, leads, asking>>
    BY <1>7 DEF UpdateProfile, ProviderStep, Registered
  <2> QED BY <1>1, <1>2, <1>3, <2>1
<1>8. CASE StoreProfile(p)
  <2> DEFINE email == IF signing[p].email = None THEN provider[p].email ELSE signing[p].email
             phone == IF signing[p].phone = None THEN provider[p].phone ELSE signing[p].phone
  <2>1. email \in Emails /\ phone \in Phones
    BY <1>8 DEF StoreProfile, Signing, TypeOK
  <2>2. /\ provider' = [provider EXCEPT ![p] = [email |-> email, phone |-> phone]] \/ UNCHANGED provider
        /\ Sign(p, "idle", None, None) /\ UNCHANGED <<course, leads, asking>>
    BY <1>8 DEF StoreProfile, ProviderStep
  <2> HIDE DEF email, phone
  <2> QED BY <1>1, <1>2, <1>3, <1>4, <2>1, <2>2
<1>9. CASE SignDies(p)
  BY <1>1, <1>2, <1>3, <1>9 DEF SignDies, ProviderStep
<1> QED BY <1>5, <1>6, <1>7, <1>8, <1>9 DEF Contact

\* The courses keep their fields, and none disappears.
LEMMA ManageTypes ==
  ASSUME NoneIsApart, Types, NEW c \in CourseIds, Manage(c)
  PROVE  Types'
<1> USE DEF Types, Shape
<1>1. ASSUME NEW doc \in [of : Registered, version : {1, 2}, status : {"PENDING_APPROVAL", "APPROVED", "REJECTED"},
                          active : BOOLEAN, deleted : BOOLEAN],
             doc.active = (doc.status = "APPROVED"), SetCourse(c, doc)
      PROVE  Types'
  <2>1. UNCHANGED <<provider, signing, leads, asking>> /\ course' = [d \in CourseIds |-> course'[d]]
    BY <1>1 DEF SetCourse
  <2>2. course'[c] = doc /\ \A d \in CourseIds \ {c} : course'[d] = course[d]
    BY <1>1 DEF SetCourse
  <2>3. doc # None
    BY DEF NoneIsApart, Registered
  <2>4. Courses' = Courses \cup {c} /\ Registered' = Registered
    BY <2>1, <2>2, <2>3 DEF Courses, Registered
  <2>5. \A d \in Courses' : CourseDoc(d)' /\ course'[d].of \in Registered'
                            /\ course'[d].active = (course'[d].status = "APPROVED")
    <3> SUFFICES ASSUME NEW d \in Courses'
                 PROVE  CourseDoc(d)' /\ course'[d].of \in Registered'
                        /\ course'[d].active = (course'[d].status = "APPROVED")
      OBVIOUS
    <3>1. CASE d = c
      BY <1>1, <2>2, <2>4, <3>1 DEF CourseDoc
    <3>2. CASE d # c
      <4>1. d \in Courses /\ course'[d] = course[d]
        BY <2>2, <2>4, <3>2 DEF Courses
      <4> QED BY <2>4, <4>1 DEF CourseDoc, TypeOK
    <3> QED BY <3>1, <3>2
  <2>6. \A p \in Registered' : provider'[p].email \in Emails /\ provider'[p].phone \in Phones
    BY <2>1, <2>4 DEF TypeOK
  <2>7. \A l \in leads' : l.course \in Courses' /\ l.email \in Customers
    BY <2>1, <2>4 DEF TypeOK
  <2>8. (\A p \in Providers : Signing(p)') /\ \A p \in Procs : Asking(p)'
    BY <2>1, <2>4 DEF Signing, Asking
  <2> QED BY <2>1, <2>5, <2>6, <2>7, <2>8 DEF TypeOK
<1>2. ASSUME course[c] # None
      PROVE  /\ c \in Courses /\ CourseDoc(c) /\ course[c].active = (course[c].status = "APPROVED")
  BY <1>2 DEF Courses, TypeOK
<1>3. ASSUME NEW p \in Providers, AddCourse(p, c) PROVE Types'
  BY <1>1, <1>3 DEF AddCourse, Registered
<1>4. ASSUME NEW p \in Providers, UpdateCourse(p, c) PROVE Types'
  BY <1>1, <1>2, <1>4 DEF UpdateCourse, CourseDoc
<1>5. ASSUME NEW p \in Providers, SoftDeleteCourse(p, c) PROVE Types'
  BY <1>1, <1>2, <1>5 DEF SoftDeleteCourse, CourseDoc
<1>6. CASE ApproveCourse(c)
  BY <1>1, <1>2, <1>6 DEF ApproveCourse, CourseDoc
<1>7. CASE RejectCourse(c)
  BY <1>1, <1>2, <1>7 DEF RejectCourse, CourseDoc
<1> QED BY <1>3, <1>4, <1>5, <1>6, <1>7 DEF Manage

\* A lead is of a course that was found and of the customer who asked.
LEMMA LeadTypes ==
  ASSUME Types, NEW p \in Procs, Lead(p)
  PROVE  Types'
<1> USE DEF Types, Shape
<1>1. ASSUME UNCHANGED <<provider, signing, course>>, asking' = [q \in Procs |-> asking'[q]],
             \A q \in Procs : Asking(q)', \A l \in leads' : l.course \in Courses /\ l.email \in Customers
      PROVE  Types'
  BY <1>1 DEF TypeOK, Courses, Registered, Signing, CourseDoc
<1>2. ASSUME NEW pc, Ask(p, pc), asking[p].pc \in {"exists", "create"}
      PROVE  asking' = [q \in Procs |-> asking'[q]] /\ (UNCHANGED course => \A q \in Procs : Asking(q)')
  <2>1. asking'[p] = [asking[p] EXCEPT !.pc = pc] /\ \A q \in Procs \ {p} : asking'[q] = asking[q]
    BY <1>2 DEF Ask
  <2>2. asking'[p].course = asking[p].course /\ asking'[p].email = asking[p].email
    BY <2>1
  <2> QED BY <1>2, <2>1, <2>2 DEF Ask, Asking, Courses
<1>3. ASSUME NEW c \in CourseIds, NEW email \in Customers, FindCourse(p, c, email) PROVE Types'
  BY <1>1, <1>3 DEF FindCourse, LeadStep, Asking, TypeOK, Courses
<1>4. CASE CheckLead(p)
  <2>1. UNCHANGED <<provider, signing, course, leads>>
    BY <1>4 DEF CheckLead, LeadStep
  <2> QED BY <1>1, <1>2, <1>4, <2>1 DEF CheckLead, TypeOK
<1>5. CASE CreateLead(p)
  <2>1. UNCHANGED <<provider, signing, course>>
    BY <1>5 DEF CreateLead, LeadStep
  <2>2. asking[p].course \in Courses /\ asking[p].email \in Customers
    BY <1>5 DEF CreateLead, Asking
  <2>3. \A l \in leads' : l.course \in Courses /\ l.email \in Customers
    BY <1>5, <2>2 DEF CreateLead, TypeOK
  <2> QED BY <1>1, <1>2, <1>5, <2>1, <2>3 DEF CreateLead
<1>6. CASE AskingDies(p)
  <2>1. UNCHANGED <<provider, signing, course, leads>>
    BY <1>6 DEF AskingDies, LeadStep
  <2> QED BY <1>1, <1>2, <1>6, <2>1 DEF AskingDies, TypeOK
<1> QED BY <1>3, <1>4, <1>5, <1>6 DEF Lead

\* Whatever interleaves, courses and leads refer to documents that exist.
THEOREM CoursesTyped == ASSUME NoneIsApart PROVE Spec => []TypeOK
<1>1. Init => Types
  BY DEF Init, Types, Shape, TypeOK, Registered, Courses, Signing, Asking, Idle
<1>2. Types /\ [Next]_vars => Types'
  <2>1. ASSUME Types, UNCHANGED vars PROVE Types'
    <3>1. Registered' = Registered /\ Courses' = Courses /\ UNCHANGED <<provider, signing, course, leads, asking>>
      BY <2>1 DEF vars, Registered, Courses
    <3>2. Shape' /\ TypeOK'
      BY <2>1, <3>1 DEF Types, Shape, TypeOK
    <3>3. /\ \A p \in Providers : Signing(p)'
          /\ \A p \in Procs : Asking(p)'
          /\ \A c \in Courses : CourseDoc(c)'
      BY <2>1, <3>1 DEF Types, Signing, Asking, CourseDoc
    <3> QED BY <3>1, <3>2, <3>3 DEF Types
  <2> QED BY <2>1, ContactTypes, ManageTypes, LeadTypes DEF Next
<1>3. Types => TypeOK
  BY DEF Types
<1> QED BY <1>1, <1>2, <1>3, PTL DEF Spec
=============================================================================
