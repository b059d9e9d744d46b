CONSTANTS
    Thread = {t1, t2}
    Factory = {repository, storage}
    None = None
SPECIFICATION Spec
INVARIANT SharedByEveryFactory
