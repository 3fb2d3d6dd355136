------------------------------- MODULE Courses -------------------------------
(***************************************************************************)
(* Courses of the providers, and the leads of the people who ask for one:  *)
(* CourseService keeps providers and courses, PublicCourseService shows    *)
(* the catalogue and records leads.                                        *)
(*                                                                         *)
(* A handler whose reads and writes are separate documents is split at     *)
(* its awaits: the sign-up and the profile of a provider, and a lead. A    *)
(* findOneAndUpdate is one step.                                           *)
(***************************************************************************)
EXTENDS Integers, FiniteSets

CONSTANTS
  None,
  Providers, \* one sign-up each
  Emails, Phones,
  CourseIds, \* bound on the courses ever created
  Customers, \* e-mail addresses of the people who ask
  Procs      \* one request for a course each

VARIABLES
  provider, \* [Providers -> None or the provider's contacts]
  signing,  \* [Providers -> the execution of signup or updateProfile]
  course,   \* [CourseIds -> None or the course]
  leads,    \* the lead documents
  asking    \* [Procs -> the execution of createLead or exploreLead]

vars == <<provider, signing, course, leads, asking>>

Idle == [pc |-> "idle", email |-> None, phone |-> None]

Init == /\ provider = [p \in Providers |-> None] /\ signing = [p \in Providers |-> Idle]
        /\ course = [c \in CourseIds |-> None] /\ leads = {}
        /\ asking = [p \in Procs |-> [pc |-> "idle", course |-> None, email |-> None, before |-> {}]]

Registered == {p \in Providers : provider[p] # None}
Courses    == {c \in CourseIds : course[c] # None}

-----------------------------------------------------------------------------
(* Providers *)

Sign(p, pc, email, phone) == signing' = [signing EXCEPT ![p] = [pc |-> pc, email |-> email, phone |-> phone]]
ProviderStep == UNCHANGED <<course, leads, asking>>

\* The unique sparse indexes of email and phone.
Unused(p, email, phone) == \A q \in Registered \ {p} : provider[q].email # email /\ provider[q].phone # phone

\* Mutant: the collection has no unique index.
UnusedUnindexed(p, email, phone) == TRUE

\* What the unique indexes accept when p's document is written.
Insertable(p, email, phone) == Unused(p, email, phone)

\* signup, until the password is hashed.
SignUp(p, email, phone) ==
  /\ provider[p] = None /\ signing[p].pc = "idle"
  /\ IF Unused(p, email, phone) THEN Sign(p, "create", email, phone) ELSE Sign(p, "refused", None, None)
  /\ ProviderStep /\ UNCHANGED provider

CreateProvider(p) ==
  /\ signing[p].pc = "create"
  /\ LET email == signing[p].email  phone == signing[p].phone IN
       IF Insertable(p, email, phone)
       THEN provider' = [provider EXCEPT ![p] = [email |-> email, phone |-> phone]]
       ELSE UNCHANGED provider
  /\ Sign(p, "idle", None, None)
  /\ ProviderStep

\* updateProfile with one of the contacts: the missing one stands as an empty
\* condition, which any other provider meets; with both, either contact counts.
UpdateProfile(p, email, phone) ==
  /\ provider[p] # None /\ signing[p].pc = "idle" /\ (email # None \/ phone # None)
  /\ LET exists == \E q \in Registered \ {p} : \/ email = None \/ provider[q].email = email
                                               \/ phone = None \/ provider[q].phone = phone
     IN  ~exists /\ Sign(p, "update", email, phone)
  /\ ProviderStep /\ UNCHANGED provider

StoreProfile(p) ==
  /\ signing[p].pc = "update"
  /\ LET new == [email |-> IF signing[p].email = None THEN provider[p].email ELSE signing[p].email,
                 phone |-> IF signing[p].phone = None THEN provider[p].phone ELSE signing[p].phone]
     IN  provider' = IF Insertable(p, new.email, new.phone) THEN [provider EXCEPT ![p] = new] ELSE provider
  /\ Sign(p, "idle", None, None)
  /\ ProviderStep

\* The process restarts while the provider's request is handled.
SignDies(p) == /\ signing[p].pc \in {"create", "update"} /\ Sign(p, "idle", None, None)
               /\ ProviderStep /\ UNCHANGED provider

-----------------------------------------------------------------------------
(* Courses *)

SetCourse(c, doc) == /\ course' = [course EXCEPT ![c] = doc]
                     /\ UNCHANGED <<provider, signing, leads, asking>>

AddCourse(p, c) ==
  /\ provider[p] # None /\ course[c] = None
  /\ SetCourse(c, [of |-> p, version |-> 1, status |-> "PENDING_APPROVAL", active |-> FALSE, deleted |-> FALSE])

\* Only the provider's own, and not after its deletion; the status stays.
UpdateCourse(p, c) == /\ course[c] # None /\ course[c].of = p /\ ~course[c].deleted
                      /\ course[c].version = 1 \* bound: one edit
                      /\ SetCourse(c, [course[c] EXCEPT !.version = 2])

SoftDeleteCourse(p, c) == /\ course[c] # None /\ course[c].of = p /\ ~course[c].deleted
                          /\ SetCourse(c, [course[c] EXCEPT !.deleted = TRUE])

\* By id: a deleted course too.
ApproveCourse(c) == /\ course[c] # None
                    /\ SetCourse(c, [course[c] EXCEPT !.status = "APPROVED", !.active = TRUE])
RejectCourse(c)  == /\ course[c] # None
                    /\ SetCourse(c, [course[c] EXCEPT !.status = "REJECTED", !.active = FALSE])

\* getCourses and getCourseFilters: active and deleted are not asked for.
Catalogue == {c \in Courses : course[c].status = "APPROVED"}

\* getPendingCourses: the deleted ones too.
PendingCourses == {c \in Courses : course[c].status = "PENDING_APPROVAL"}

-----------------------------------------------------------------------------
(* Leads *)

Ask(p, pc) == asking' = [asking EXCEPT ![p].pc = pc]
LeadStep == UNCHANGED <<provider, signing, course>>

\* The course is found, by its id, unless it is deleted.
FindCourse(p, c, email) ==
  /\ asking[p].pc = "idle" /\ course[c] # None
  /\ asking' = [asking EXCEPT ![p] = [pc |-> IF course[c].deleted THEN "refused" ELSE "exists",
                                      course |-> c, email |-> email, before |-> leads]]
  /\ LeadStep /\ UNCHANGED leads

\* Mutant: the id of the request is compared with the stored ObjectId.
LeadExistsByText(p) == FALSE

\* Mutant: a lead of the customer for any course counts.
LeadExistsAnywhere(p) == \E l \in leads : l.email = asking[p].email

LeadExists(p) == \E l \in leads : l.email = asking[p].email /\ l.course = asking[p].course

CheckLead(p) == /\ asking[p].pc = "exists"
                /\ Ask(p, IF LeadExists(p) THEN "answered" ELSE "create")
                /\ LeadStep /\ UNCHANGED leads

\* The two mails are not waited for, and their errors are caught.
CreateLead(p) == /\ asking[p].pc = "create"
                 /\ leads' = leads \cup {[by |-> p, course |-> asking[p].course, email |-> asking[p].email]}
                 /\ Ask(p, "answered")
                 /\ LeadStep

AskingDies(p) == /\ asking[p].pc \in {"exists", "create"} /\ Ask(p, "died")
                 /\ LeadStep /\ UNCHANGED leads

\* getLeadsForProvider, all pages.
LeadsOf(p) == {l \in leads : course[l.course].of = p /\ ~course[l.course].deleted}

-----------------------------------------------------------------------------
Contact(p) == \/ \E email \in Emails, phone \in Phones : SignUp(p, email, phone)
              \/ \E email \in Emails \cup {None}, phone \in Phones \cup {None} : UpdateProfile(p, email, phone)
              \/ CreateProvider(p) \/ StoreProfile(p) \/ SignDies(p)

Manage(c) == \/ \E p \in Providers : AddCourse(p, c) \/ UpdateCourse(p, c) \/ SoftDeleteCourse(p, c)
             \/ ApproveCourse(c) \/ RejectCourse(c)

Lead(p) == \/ \E c \in CourseIds, email \in Customers : FindCourse(p, c, email)
           \/ CheckLead(p) \/ CreateLead(p) \/ AskingDies(p)

Next == (\E p \in Providers : Contact(p)) \/ (\E c \in CourseIds : Manage(c)) \/ (\E p \in Procs : Lead(p))

Spec == Init /\ [][Next]_vars

-----------------------------------------------------------------------------
(* Properties *)

\* The documents have the fields of their schemas; a course and a lead refer to
\* documents that exist; an approved course is active and a pending one is not.
TypeOK ==
  /\ \A p \in Registered : provider[p].email \in Emails /\ provider[p].phone \in Phones
  /\ \A c \in Courses : /\ course[c].of \in Registered
                        /\ course[c].active = (course[c].status = "APPROVED")
  /\ \A l \in leads : l.course \in Courses /\ l.email \in Customers

\* However sign-ups and profile changes interleave, no two providers share an
\* e-mail address or a phone number.
ContactsUnique == \A p, q \in Registered : p # q => /\ provider[p].email # provider[q].email
                                                    /\ provider[p].phone # provider[q].phone

\* A customer who repeats a request that has left a lead leaves no second one:
\* only requests that overlapped can both store a lead for a course.
RepeatLeavesOneLead ==
  \A l, k \in leads : l # k /\ l.course = k.course /\ l.email = k.email
                      => l \notin asking[k.by].before /\ k \notin asking[l.by].before

\* A customer whose request was answered is among the leads of the course's
\* provider, until the course is deleted; none of a deleted course is.
LeadReachesProvider ==
  \A p \in Procs : asking[p].pc = "answered" =>
    LET c == asking[p].course IN
    (\E l \in LeadsOf(course[c].of) : l.course = c /\ l.email = asking[p].email) <=> ~course[c].deleted
=============================================================================
