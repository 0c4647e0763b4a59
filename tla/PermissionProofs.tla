------------------------- MODULE PermissionProofs -------------------------
(***************************************************************************)
(* What Permission promises, for every set of users, groups, file types    *)
(* and modes.                                                              *)
(***************************************************************************)
EXTENDS Permission, TLAPS

(* What was answered, and said, is what the two halves compute. *)
IInv ==
    /\ TypeOK
    /\ answer \in {"yes", "no", "explained"} =>
          (answer = "yes" <=> have_permission(permission))
    /\ answer = "explained" => said = explain_permission(permission)

(* The note about a class is about a class, and about a known capability. *)
LEMMA ExplanationType ==
    ASSUME NEW object \in Object, NEW process \in Process,
           NEW wanted, NEW privilege \in {"dac_override", "dac_read_search"},
           NEW detailed \in BOOLEAN
    PROVE  explain_explain_permission(object, process, wanted, privilege, detailed) \in
             [used : Class \cup {"none"}, ignored : SUBSET Class,
              privilege : {"none", "dac_override", "dac_read_search"}]
  BY DEF explain_explain_permission, NothingSaid, passed_over, class_of, Class

LEMMA SaidType ==
    TypeOK => explain_permission(permission) \in
                [used : Class \cup {"none"}, ignored : SUBSET Class,
                 privilege : {"none", "dac_override", "dac_read_search"}]
<1> SUFFICES ASSUME TypeOK
             PROVE  explain_permission(permission) \in
                      [used : Class \cup {"none"}, ignored : SUBSET Class,
                       privilege : {"none", "dac_override", "dac_read_search"}]
  OBVIOUS
<1>1. NothingSaid \in [used : Class \cup {"none"}, ignored : SUBSET Class,
                       privilege : {"none", "dac_override", "dac_read_search"}]
  BY DEF NothingSaid
<1>2. CASE permission = "read"
  BY <1>1, <1>2, ExplanationType
     DEF TypeOK, explain_permission, explain_explain_read_permission
<1>3. CASE permission = "write"
  BY <1>1, <1>3, ExplanationType
     DEF TypeOK, explain_permission, explain_explain_write_permission
<1>4. CASE permission = "execute"
  BY <1>1, <1>4, ExplanationType
     DEF TypeOK, explain_permission, explain_explain_execute_permission
<1>5. CASE permission = "search"
  BY <1>1, <1>5, ExplanationType
     DEF TypeOK, explain_permission, explain_explain_search_permission
<1> QED
  BY <1>2, <1>3, <1>4, <1>5 DEF TypeOK, Permissions

LEMMA Initial == Init => IInv
  BY DEF Init, IInv, TypeOK, NothingSaid

LEMMA Inductive == IInv /\ [Next]_vars => IInv'
<1> SUFFICES ASSUME IInv, [Next]_vars PROVE IInv'
  OBVIOUS
<1> USE DEF IInv
<1>1. CASE Ask
  BY <1>1 DEF Ask, TypeOK, have_permission, explain_permission
<1>2. CASE Explain
  BY <1>2, SaidType DEF Explain, TypeOK, have_permission, explain_permission
<1>3. CASE UNCHANGED vars
  BY <1>3 DEF vars, TypeOK, have_permission, explain_permission
<1> QED
  BY <1>1, <1>2, <1>3 DEF Next

LEMMA Invariance == Spec => []IInv
  BY Initial, Inductive, PTL DEF Spec

(* Types: Permission asks and says only what it should. *)
THEOREM TypeCorrect == Spec => []TypeOK
  BY Invariance, PTL DEF IInv

-----------------------------------------------------------------------------
(* have_permission.c and the kernel agree on who may do what, wherever     *)
(* CAP_DAC_OVERRIDE does not stand alone.                                  *)
THEOREM Agreement == Spec => []AgreesWithKernel
<1>1. IInv => AgreesWithKernel
  <2> SUFFICES ASSUME IInv, answer # "unasked", Fits, ~OverrideAlone
               PROVE  answer = "yes" <=> KernelMay(st, p, bit_of[permission])
    BY DEF AgreesWithKernel
  <2>1. answer = "yes" <=> have_permission(permission)
    BY DEF IInv, TypeOK
  <2>2. \A wanted : explain_have_permission(st, p, wanted) <=>
            wanted \in st.mode[IF st.uid = p.uid THEN "u"
                               ELSE IF st.gid \in p.groups \cup {p.gid} THEN "g" ELSE "o"]
    BY DEF explain_have_permission, class_of, explain_group_in_groups
  <2> USE DEF have_permission, KernelMay, bit_of, explain_capability, Fits,
              OverrideAlone
  <2>3. CASE permission = "read"
    BY <2>1, <2>2, <2>3 DEF explain_have_read_permission
  <2>4. CASE permission = "write"
    BY <2>1, <2>2, <2>4 DEF explain_have_write_permission
  <2>5. CASE permission = "execute"
    BY <2>1, <2>2, <2>5 DEF explain_have_execute_permission
  <2>6. CASE permission = "search"
    BY <2>1, <2>2, <2>6 DEF explain_have_search_permission
  <2> QED
    BY <2>3, <2>4, <2>5, <2>6 DEF IInv, TypeOK, Permissions
<1> QED
  BY <1>1, Invariance, PTL

-----------------------------------------------------------------------------
(* With dialect-specific on the explanation of a denial names a class that *)
(* denies, a capability that is missing, and every class passed over that  *)
(* would have granted.                                                     *)
LEMMA OneExplanation ==
    ASSUME NEW wanted, NEW privilege,
           TypeOK, ~explain_have_permission(st, p, wanted), dialect_specific,
           said = explain_explain_permission(st, p, wanted, privilege, dialect_specific)
    PROVE  /\ said.used # "none" /\ wanted \notin st.mode[said.used]
           /\ said.privilege = IF privilege \in p.caps THEN "none" ELSE privilege
           /\ \A c \in Class \ said.ignored :
                 wanted \in st.mode[c] =>
                    /\ said.used = "u" /\ c = "g"
                    /\ st.gid \notin p.groups \cup {p.gid}
<1>1. /\ said.used = class_of(st, p)
      /\ said.ignored = passed_over(st, p, wanted)
      /\ said.privilege = IF privilege \in p.caps THEN "none" ELSE privilege
  BY DEF explain_explain_permission, explain_capability
<1>2. class_of(st, p) \in Class /\ class_of(st, p) # "none"
  BY DEF class_of, Class
<1>3. wanted \notin st.mode[class_of(st, p)]
  BY DEF explain_have_permission
<1>4. ASSUME NEW c \in Class, c \notin passed_over(st, p, wanted),
             wanted \in st.mode[c]
      PROVE  /\ class_of(st, p) = "u" /\ c = "g"
             /\ st.gid \notin p.groups \cup {p.gid}
  BY <1>2, <1>3, <1>4 DEF passed_over, explain_group_in_groups
<1> QED
  BY <1>1, <1>2, <1>3, <1>4

(* With the option off nothing at all is written.                          *)
LEMMA NoDetail ==
    ~dialect_specific => explain_permission(permission) = NothingSaid
  BY DEF explain_permission, explain_explain_permission,
         explain_explain_read_permission, explain_explain_write_permission,
         explain_explain_execute_permission, explain_explain_search_permission

(* Every denial is explained by the class that denies it and a capability  *)
(* that is lacking, and no class is passed over in silence; with           *)
(* dialect-specific off nothing is said of any of them.                    *)
THEOREM Explanation == Spec => []SaysWhyNot
<1>1. IInv /\ ~dialect_specific => SaysWhyNot
  BY NoDetail DEF IInv, SaysWhyNot, Undetailed
<1>2. IInv /\ dialect_specific => SaysWhyNot
  <2> SUFFICES ASSUME IInv, dialect_specific, answer = "explained", Fits
               PROVE  LET wanted == bit_of[permission] IN
                      /\ said.used # "none" /\ wanted \notin st.mode[said.used]
                      /\ said.privilege \notin p.caps
                      /\ said.privilege = "none"
                         => permission = "execute" /\ "dac_override" \in p.caps
                      /\ \A c \in Class \ said.ignored :
                            wanted \in st.mode[c] =>
                               /\ said.used = "u" /\ c = "g"
                               /\ st.gid \notin p.groups \cup {p.gid}
    BY DEF SaysWhyNot, Undetailed
  <2>1. TypeOK /\ ~have_permission(permission) /\ said = explain_permission(permission)
    BY DEF IInv
  <2>2. "none" \notin p.caps
    BY <2>1 DEF TypeOK, Process
  <2> USE DEF have_permission, explain_permission, bit_of, explain_capability, Fits
  <2>3. CASE permission = "read"
    <3>1. /\ ~explain_have_permission(st, p, "r")
          /\ said = explain_explain_permission(st, p, "r", "dac_read_search", dialect_specific)
          /\ "dac_read_search" \notin p.caps
      BY <2>1, <2>3 DEF explain_have_read_permission, explain_explain_read_permission
    <3> QED
      BY <2>1, <2>2, <2>3, <3>1, OneExplanation
  <2>4. CASE permission = "write"
    <3>1. /\ ~explain_have_permission(st, p, "w")
          /\ said = explain_explain_permission(st, p, "w", "dac_override", dialect_specific)
          /\ "dac_override" \notin p.caps
      BY <2>1, <2>4 DEF explain_have_write_permission, explain_explain_write_permission
    <3> QED
      BY <2>1, <2>2, <2>4, <3>1, OneExplanation
  <2>5. CASE permission = "execute"
    <3>1. /\ ~explain_have_permission(st, p, "x")
          /\ said = explain_explain_permission(st, p, "x", "dac_override", dialect_specific)
      BY <2>1, <2>5 DEF explain_have_execute_permission,
                        explain_explain_execute_permission
    <3>2. /\ said.used # "none" /\ "x" \notin st.mode[said.used]
          /\ said.privilege = IF "dac_override" \in p.caps THEN "none"
                              ELSE "dac_override"
          /\ \A c \in Class \ said.ignored :
                "x" \in st.mode[c] =>
                   /\ said.used = "u" /\ c = "g"
                   /\ st.gid \notin p.groups \cup {p.gid}
      BY <2>1, <3>1, OneExplanation
    <3> QED
      BY <2>2, <2>5, <3>2
  <2>6. CASE permission = "search"
    <3>1. /\ ~explain_have_permission(st, p, "x")
          /\ said = explain_explain_permission(st, p, "x", "dac_read_search", dialect_specific)
          /\ "dac_read_search" \notin p.caps
      BY <2>1, <2>6 DEF explain_have_search_permission,
                        explain_explain_search_permission
    <3> QED
      BY <2>1, <2>2, <2>6, <3>1, OneExplanation
  <2> QED
    BY <2>1, <2>3, <2>4, <2>5, <2>6 DEF TypeOK, Permissions
<1>3. IInv => SaysWhyNot
  BY <1>1, <1>2 DEF IInv, TypeOK
<1> QED
  BY <1>3, Invariance, PTL
============================================================================
