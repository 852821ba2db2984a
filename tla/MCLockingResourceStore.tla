----------------------- MODULE MCLockingResourceStore -----------------------
EXTENDS LockingResourceStore

CONSTANTS doc, acl

\* A document and its access control resource.
MCResources == {doc, acl}
MCAuxiliaries == {acl}
MCAssociated == [a \in {acl} |-> doc]

\* Writers and readers of both resources, of which any three are at work.
MCCalls == {[kind |-> "write", resource |-> doc],
            [kind |-> "write", resource |-> acl],
            [kind |-> "get", resource |-> doc],
            [kind |-> "get", resource |-> acl],
            [kind |-> "exists", resource |-> doc]}
=============================================================================
