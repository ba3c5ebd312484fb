------------------------------- MODULE Access -------------------------------
(***************************************************************************)
(* Access control (internal/acl): who may read, write or exec into what.   *)
(*                                                                         *)
(* A resource is <<type, name>>.  A resource expression is <<type, names>>,*)
(* its glob the set of names it matches, or <<"*">> for everything; an     *)
(* audience expression is <<"user", names>>, <<"group", names>> or <<"*">>.*)
(* A policy is a sequence of grants, or NoPolicy; an identity carries its  *)
(* subject, email, groups and the grants its provider gave it.             *)
(***************************************************************************)
EXTENDS Integers, Sequences, FiniteSets, SequencesExt

NoPolicy == <<[resources |-> {}, audience |-> {}, permissions |-> {}]>>   \* none is loaded
NoIdentity == [subject |-> "", email |-> "", groups |-> {}, granted |-> <<>>, token |-> FALSE]

validResourceTypes == {"service", "stack", "node", "task", "config", "secret", "network", "volume",
                       "plugin", "swarm"}
validPermissions == {"read", "write", "exec"}

(* validateGrant; a glob that does not parse is not in the model. *)
validateGrant(g) ==
  /\ g.resources # {} /\ g.permissions # {} /\ g.permissions \subseteq validPermissions
  /\ \A e \in g.resources : e = <<"*">> \/ e[1] \in validResourceTypes
  /\ \A a \in g.audience : a = <<"*">> \/ a[1] \in {"user", "group"}

(* Validate, as reloadPolicy and FromConfig use it: an invalid file is not *)
(* loaded, and keeps the policy in force.                                  *)
Validate(policy) == \A i \in DOMAIN policy : validateGrant(policy[i])
reloadPolicy(current, loaded) == IF Validate(loaded) THEN loaded ELSE current

----------------------------------------------------------------------------
(* Audiences *)

(* matchAudience: the subject and the email only as far as claims says.    *)
matchAudience(a, id, claims) ==
  \/ a = <<"*">>
  \/ /\ a[1] = "user"
     /\ \/ "sub" \in claims /\ id.subject # "" /\ id.subject \in a[2]
        \/ "email" \in claims /\ id.email # "" /\ id.email \in a[2]
  \/ a[1] = "group" /\ id.groups \cap a[2] # {}

audienceMatches(g, id, claims) ==
  g.audience = {} \/ (id # NoIdentity /\ \E a \in g.audience : matchAudience(a, id, claims))

(* extractGrantsFromRaw: of what a provider claims, the valid grants. *)
extractGrantsFromRaw(raw) == SelectSeq(raw, validateGrant)

(* deriveSourceGrants: a token carries the grants it was issued with.      *)
sourceGrants(source, id) ==
  IF ~ source \/ id = NoIdentity THEN <<>> ELSE extractGrantsFromRaw(id.granted)

collectGrants(acl, id) ==
  SelectSeq(acl.policy, LAMBDA g : audienceMatches(g, id, acl.claims)) \o sourceGrants(acl.source, id)

----------------------------------------------------------------------------
(* Permissions *)

PermissionAlone(g, permission) == permission \in g.permissions

(* hasPermission: every permission includes read. *)
hasPermission(g, permission) ==
  permission \in g.permissions \/ (permission = "read" /\ {"write", "exec"} \cap g.permissions # {})

(* matchResourceParts *)
matchResourceParts(e, typ, name) ==
  e = <<"*">> \/ (e[1] \in {"*", typ} /\ name # "" /\ name \in e[2])

(* effectivePolicy: without a policy everything is allowed, but exec is    *)
(* granted by the provider alone.                                          *)
effectivePolicy(acl, permission) ==
  IF acl.policy = NoPolicy /\ permission = "exec" THEN [acl EXCEPT !.policy = <<>>] ELSE acl

allowAll(acl, permission) ==
  IF ~ acl.enabled THEN permission # "exec" ELSE effectivePolicy(acl, permission).policy = NoPolicy

(* grantSetOf, with what the resolver need not be asked about. *)
grantSetOf(acl, id, permission) ==
  LET held == IF acl.enabled THEN collectGrants(effectivePolicy(acl, permission), id) ELSE <<>>
      gs == SelectSeq(held, LAMBDA g : hasPermission(g, permission))
      types == {e[1] : e \in UNION {gs[i].resources : i \in DOMAIN gs}}
  IN  [grants |-> gs, services |-> types \cap {"service", "*"} # {},
       stacks |-> types \cap {"stack", "*"} # {}]

anyCovers(grants, typ, name) ==
  \E i \in DOMAIN grants : \E e \in grants[i].resources : matchResourceParts(e, typ, name)

(* matchesParts: a resource is covered by its own name, a task by its      *)
(* service's, and both by their stack's.  The resolver, a view of the      *)
(* cache, answers "" for what it does not know.                            *)
matchesParts(gs, resolver, typ, name) ==
  \/ anyCovers(gs.grants, typ, name)
  \/ /\ typ = "task" /\ (gs.services \/ gs.stacks)
     /\ LET svc == resolver.service[name] IN
          /\ svc # ""
          /\ \/ gs.services /\ anyCovers(gs.grants, "service", svc)
             \/ /\ gs.stacks /\ resolver.stack[<<"service", svc>>] # ""
                /\ anyCovers(gs.grants, "stack", resolver.stack[<<"service", svc>>])
  \/ /\ typ # "task" /\ gs.stacks
     /\ resolver.stack[<<typ, name>>] # ""
     /\ anyCovers(gs.grants, "stack", resolver.stack[<<typ, name>>])

(* Can *)
Can(acl, resolver, id, permission, typ, name) ==
  \/ allowAll(acl, permission)
  \/ matchesParts(grantSetOf(acl, id, permission), resolver, typ, name)

(* HasAnyGrant, canEverything *)
HasAnyGrant(acl, id) ==
  ~ acl.enabled \/ acl.policy = NoPolicy \/ collectGrants(acl, id) # <<>>
canEverything(acl, id, permission) ==
  \/ ~ acl.enabled \/ acl.policy = NoPolicy
  \/ LET gs == collectGrants(acl, id)
     IN  \E i \in DOMAIN gs : hasPermission(gs[i], permission) /\ <<"*">> \in gs[i].resources

----------------------------------------------------------------------------
(* What a caller is shown of its access *)

impliedTypes(typ) ==
  CASE typ = "stack" -> {"service", "task", "config", "secret", "network", "volume"}
    [] typ = "service" -> {"task"} [] OTHER -> {}

(* TypeGrants and TypeAccess.Can: may it do this to some resource of a     *)
(* type, as far as its grants say.                                         *)
TypeAccess(acl, id, permission, typ) ==
  IF ~ acl.enabled \/ acl.policy = NoPolicy THEN permission # "exec"
  ELSE LET gs == collectGrants(acl, id) IN
       \E i \in DOMAIN gs : hasPermission(gs[i], permission) /\
         \E e \in gs[i].resources : e[1] \in {"*", typ} \/ typ \in impliedTypes(e[1])

(* grantHash: order does not count, nor which of an identity's grants it is. *)
grantHash(g) == <<g.resources, g.permissions>>

FingerprintOfPolicy(acl, generation, id) ==
  IF ~ acl.enabled \/ acl.policy = NoPolicy THEN <<>>
  ELSE LET gs == SelectSeq(acl.policy, LAMBDA g : audienceMatches(g, id, acl.claims))
       IN  <<ToBag([i \in DOMAIN gs |-> grantHash(gs[i])]), generation>>

(* Fingerprint: callers with one share what is rendered for either. *)
Fingerprint(acl, generation, id) ==
  IF ~ acl.enabled \/ acl.policy = NoPolicy THEN <<>>
  ELSE LET gs == collectGrants(acl, id)
       IN  <<ToBag([i \in DOMAIN gs |-> grantHash(gs[i])]), generation>>
=============================================================================
