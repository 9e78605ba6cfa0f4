\* The same; what the docstring of _collapsed_into_review promises.
SPECIFICATION Spec
CONSTANTS
  Root <- MCRoot
  Handlers = {1, 2}
  Settings <- MCSettings
  MaxUpsets = 1
INVARIANT OnceEitherWay
CHECK_DEADLOCK FALSE
