SPECIFICATION Spec
CONSTANTS
  Host = host
  Enclave = enclave
  Nobody = nobody
  MaxDepth = 4
  MaxPosts = 4
INVARIANTS
  EndsAgree
  NoReentrantPost
