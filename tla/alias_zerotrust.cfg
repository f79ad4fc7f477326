SPECIFICATION Spec
CONSTANT Documents <- EgressNameDocuments
INVARIANT ZeroTrust
