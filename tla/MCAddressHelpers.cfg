CONSTANTS
    Inputs <- MCQuads
    AddrKinds <- MCAddrKinds
SPECIFICATION Spec
INVARIANT ParsesLittleEndian RoundTrip
